# FlashForwarder: TLA+ specifications, checks and proofs

FlashForwarder takes market data from an exchange over TCP, compresses it and
sends it on by reliable multicast (PGM); a viewer shows what the gateways do. The
code is C++ and, for the viewer's pages, JavaScript, under `src/src`. This directory models its concurrent and stateful parts, checks the models with TLC
on small instances, and proves with TLAPS, for every value of the constants, that the
lock-free queue, its storage, the pipe, the allocator, both PGM engines, the input
service, the codecs and the viewer's pages keep their safety properties.

Contents: 1 inventory, 2 the modules and how they correspond to the code, 3 the
runs, 4 fairness, 5 proofs, 6 what is only model-checked and what is not
modelled, 7 what was learnt about the code, 8 plan.

## 1. Inventory

Paths are relative to `src/src`.

| Component | State | Operations | What is hard, what must hold |
|---|---|---|---|
| `SpscQueue` (`spsc_queue.hpp`) | `r_item_` (reader), `w_item_`, `f_item_` (writer), `contention_` (atomic, shared) | Write, Unwrite, Flush, CheckRead, Read, Probe | two threads, no lock; order, no lost wake-up, no shared cell, nothing flushed is taken back |
| `BatchQueue` (`spsc_queue.hpp`) | chunk list, begin, back, end, `spare_chunk_` (atomic) | Init, Push, Unpush, Pop, destructor | chunks recycled between the threads; stale `prev` pointers, ABA of addresses, failing malloc |
| `message_allocator_t`, `message_t` | free lists by size, idle queue, `next_`, `index_`, `capacity_` | Allocate, Release, Recycle, ConsumeIdleQueue | a message in exactly one place; the size-class arithmetic |
| `pipe_t` | queues in and out, `peer_`, `terminated_`, `peer_terminated_`, mutex, condition | CreatePipePair, Write, Unwrite, CheckRead, Read, Terminate, Recyclemessage_t, SendReadActivated | lost notifications, blocking Read, lifetime of two objects that hold each other |
| pipe test program (`pipeTest.cpp`) | none | a client of the pipe, which ends its stream with `Write(nullptr)` | a null without Terminate |
| `PGMSender` | message cache, packet, pipe, handles in Select, timers | Start, Stop, BeginPush/PushMessage/EndPush, commands, OutEvent, InEvent, timers | wake-up when polling has stopped, packets kept over a refusal, offsets and indices |
| `PGMReceiver` | peers with `last_index` and parser, batch of packets, rx timer | Start, Stop, InEvent, timers | loss, late joins, index wrap, several senders |
| `PGMSocket` | message vector, windows | Send, Receive, ProcessUpstream, Init | openpgm's statuses |
| TCP input service (`szBinary_input_service`, `socket_t`) | socket, two timers, codec, input buffer | run, stop, connect, handlers | completions that are already queued when a timer fires; errors must lead to a new connection |
| exchange codec (`szBinary_decoder_t`, `szBinary_encoder_t`) | decoder state and buffer, two output buffers | parse, encode, flush, reset | partial messages, lengths, checksums |
| compressor (`Context`, `Template`, `FieldInstruction*`) | caches of encoder and decoder per template and key | Encode, Decode | both caches must agree, packet after packet |
| template parser (`xmlTemplateParser.hpp`) | none kept | parse | where it stops reading, which template of an id wins |
| wire format (`wire_format*`, `wire.hpp`) | none | varint and zig-zag in both directions, network byte order | width boundaries |
| `io_service_pool_t` | services, threads, round-robin index | constructor, getNextService, run (stop is never called) | a socket stays on one service |
| `ctx_t` | none that is used | stubs | |
| `MonitService` (`monit_service.cc`) | `stopping_`, its thread | Start, Stop, Run, HTTP answers from constants | serving when the window loads, ending when it closes |
| helpers, logger, growing buffer | none shared | | |
| viewer's window (`cefsimple_win.cc`, `simple_*.cc`) | the page it shows | load, follow a link, close | order of start and stop against the service |
| list of nodes (`table_basic.js`) | rows, `recordPk`, `errorCounter`, alarm, `totalItems` | poll, answers, failures, switch | answers that overtake each other; rows, record and count must agree |
| dashboard (`index.html`, `index.js`) | charts per host, `i`, the arrays shown, the heading | poll, answers, failures, click on a host | charts that are full; hosts that come late; whose charts are shown |
| vendored code | | | openpgm and log4cplus headers, tinyxml2, Vue, Angular |

How they interact. A pipe is two `SpscQueue`s, one per direction; each
`SpscQueue` sits on a `BatchQueue`. A side of a pipe also has an allocator: its
messages travel to the other thread through the pipe and come back through the
allocator's idle queue, a third use of `SpscQueue`. The PGM engines are split
between the pushing thread and an I/O thread, joined by a pipe and by commands
(`TYPE_PLUG`, `TYPE_RESTART_OUTPUT`, `TYPE_TERMINATE`); the I/O thread is driven
by a poller that calls InEvent, OutEvent and the timer handlers one at a time.
Sender and receiver meet in a stream of packets. The input service is
sequential too: its handlers run on one boost `io_service`, in the order in which
completions were queued, and that order is where its difficulty lies. The viewer
stands apart: its program starts `MonitService`, which serves the pages and the list
of nodes to the program's own window, and the pages ask the gateways over HTTP. The
gateways' side of that is not in the repository.

`PROJECT.json` has, for each place where this goes wrong in a way that a test
would hardly reach, a hazard with its line and the properties that cover it.

## 2. Modules

| Module | Models | Composition |
|---|---|---|
| `Channel` | what the queue promises, as operators on one record | EXTENDed by every user of a queue |
| `FifoChannel` | the same as a specification with writer and reader | abstract specification |
| `SpscQueue` | the lock-free algorithm, pointers as positions | implements `FifoChannel` |
| `QueueOrder` | the same steps, watched for what the memory orders publish | EXTENDS `SpscQueue` |
| `BatchQueue` (`MCBatchQueue`) | chunk list and spare under the same pointers, as addresses | implements `SpscQueue` |
| `SizeClass` | capacity to free list, by the de Bruijn product | operators, EXTENDed by `MessageAllocator` |
| `MessageAllocator` (`MCMessageAllocator`) | the allocator and its two threads | idle queue is a `Channel` |
| `Pipe` (`MCPipe`) | the pair of `pipe_t` objects and their threads | two `Channel`s |
| `PacketStream` | what a sender puts on the wire | abstract specification; format used by both engines |
| `PgmSender` | pushing thread and I/O thread of a sender | pipe is a `Channel`; implements `PacketStream` |
| `PgmReceiver` (`MCPgmReceiver`) | receiver, fed by senders that send `PacketStream`s through a lossy network | |
| `InputService` | service, socket, timers, queue of completions | decoder and encoder reduced to what their callers can upset |
| `SzBinaryDecoder` (`MCAlgorithms`) | the exchange's stream, and the decoder that reads it in pieces | |
| `WireFormat` (`MCAlgorithms`) | varints, zig-zag, network byte order | operators, and one integer that is written and read back |
| `TemplateParser` (`MCAlgorithms`) | `XmlTemplateParser::parse` on a document's elements | pure; gives `Compressor` its templates |
| `Compressor` (`MCAlgorithms`) | an encoding and a decoding context and the way between them | |
| `MonitoredNodes` | the gateways as the pages see them | external |
| `StatusList`, `Dashboard` | the two pages, each a record with its handlers | ask `MonitoredNodes` |
| `Viewer` (`MCViewer`) | service, window and navigation | composes the two pages |
| `SpscQueueProofs`, `BatchQueueProofs`, `PipeProofs`, `MessageAllocatorProofs`, `PgmSenderProofs`, `InputProofs`, `CodecProofs`, `ViewerProofs` | theorems (5) | each EXTENDS the module it is named after, `SpscQueueProofs` also `QueueOrder`; `InputProofs` EXTENDS `InputService` and `PgmReceiver`, `CodecProofs` `Compressor`, `SzBinaryDecoder` and `WireFormat` |

The chain `BatchQueue => SpscQueue => FifoChannel` is what entitles the pipe, the
allocator and the sender to hold a queue as one record: each link is a refinement,
checked by TLC and proved, the first one for a malloc that does not fail.

### SpscQueue and BatchQueue

An action is one atomic step of one thread. Fields that only one thread touches
need no step of their own, so Write, Unwrite and Read's pop are one action each;
Flush is a compare-and-swap (`FlushCas`) and, when that fails, a store
(`FlushStore`); CheckRead is one swap. `wpc` and `rpc` say where each thread is.
What Flush's caller is told to do by the comment at `spsc_queue.hpp:234`, wake
the reader, is `Wake`. `SpscQueue` counts cells by position over the whole life
of the queue and keeps everything written, so that order is a statement about
two sequences. `BatchQueue` gives the pointers back their addresses, with chunks
that malloc may hand out again, and carries the mapping to positions
(`Position`). There Push is split before its access to the spare chunk and
before malloc, Pop before its exchange of the spare and before free.

A cell that the writer can write (the terminator) and one the reader copies are
different cells (`CellsNotShared`, proved), so no data race has to be modelled
for the cells. The order of the atomics is sequentially consistent.

`QueueOrder` adds what the C++ memory orders say of the cells' contents. A cell is
`visible` to the reader once a release behind its write was acquired: by the
successful swap of Flush (acq_rel) and the reader's swap, or by the mutex under
which a waiting reader is woken; Flush's plain store carries nothing (`carried`).
`ReadsPublished` says that no other cell is read, with one exception, named by
`look`: a reader that was told "nothing" and looks again before it is woken. The
pipe does so after a timeout and the allocator's idle queue, whose reader is never
woken, always. There the comment at `spsc_queue.hpp:247-250` does not hold.

### Pipe

Both threads execute their methods step by step (`pc`), because Read looks once
without the mutex, once with it, and then waits. `DropRefs` is what
`shared_ptr` does: an object nobody holds is destroyed, and drops its peer in
turn. `Terminate` is its delimiter (written by the same path as a message), its
flush, its notification and the release of the peer. An item is a message or a null;
`Write` puts either, as the code has no check and `pipeTest.cpp` writes a null, and
Terminate's null is told from a user's only by the properties. `Unwrite` is a call like
any other, also when there is nothing to undo. The listener's callbacks are left
out; nothing in the repository sets a listener.

### MessageAllocator

The free lists are real lists (`heads`, `nxt`), because the hazards are about
`next_`. The owner's Allocate stops between the steps of ConsumeIdleQueue, where
the other thread's Recycle can come between. `enable_recycle` is true, as
`pipe_t::Init` passes it. `new (std::nothrow)` always succeeds in the model; the code
uses its result without a look.

### PgmSender, PgmReceiver, PacketStream

Bytes of a stream are numbered, and each knows whether a block (one Flush of the
serializer) begins with it: that is all the properties tell apart.
The user starts a sender before pushing to it. The header's 16 bits keep their packing of offset and options. OutEvent is split at every
read of the pipe and before the send, so that the pushing thread can come in
between; the poller calls handlers one at a time. The socket takes a packet,
would block, or reports its rate limit. On the receiving side the transport
keeps a sender's packets in order, loses any of them, and reports a loss once;
the vector of packets a Receive fetches is handed out one by one. A parser is
known by the last packet it was given. Select, the serializer and openpgm are not
in the repository: they are what the engines see of them, and the commands are a
FIFO. The sources of the PGM engines use a pipe of another namespace (`vss`); the
pipe of `pipe.hpp`, with the same methods, stands for it.

### InputService

`queue` holds the completions whose handlers have yet to run. A handler is one
action that takes the head, does all that the handler does, and may append the
failure of an operation it starts on a closed socket. Reads hold at most one
message that matters (logon, logout) and tell whether they start inside a
message and end inside one; `held` is what the decoder has of them. A completion
of a connection that was given up since is marked `old`. `raced` remembers which
timers expired while another completion was queued beside theirs.

### SzBinaryDecoder, WireFormat, SizeClass

The exchange appends a message to the stream (`SendFrame`), its checksum right or
wrong, and the service reads the next n bytes of it, any n (`ReadPiece`; what `decode`
returns is not looked at, as in `handleRead`). A decoder is a record (state, buffer,
body size) with what it has handed over and what is left of the piece; `consume` is one
turn of the loop in `decode`. All three states of the code copy "what is lacking, or all
there is", so that `Target` says what each state waits for and `Completed` what happens
then. The sizes of head and tail and the number of values of a byte are parameters, and
so is `MaxInt`: a decoder that has lost its place may read a length that `bodySize_`, an
int, holds as a negative number, and gives up the piece at it (`Refused`). In the run a
body that begins with 3 is such a length.

`SizeClass` has the operators by which the allocator finds its list; `Fits` says what
they owe a capacity. `ListFits` asks it of all `Capacities`, and of every message that
is held the list of what it was asked for.

An integer of `WireFormat` is the set of its bits, because TLC's integers are
narrower than the code's. The two readers of each width, one with and one without
the size, differ in nothing but the end of the buffer, which `Groups` checks.

### Compressor

A record is what one call of `Context::encode` appends to the buffer: template,
index, presence map, and the body as the sequence of what the fields wrote.
`Decode` is a whole call of `Context::decode` on a buffer: it runs through the
records, and in each through the fields, taking from the front of the body what
each instruction believes is there, so that a disagreement about the presence map
shows as a wrong value or as something left over. The parser makes an instruction
for `uint64_t` for an int32 field, whose accessors then do nothing: what the
encoder compares is uninitialised (`noise`), and nothing is stored. `spoiled`
remembers the entries a record of which was lost or not decoded. A value is a
number modulo `Width`; 0 is the initial value and the empty string. The templates
of both sides are what `parse` makes of two documents that are not quite alike:
the decoder's has a template without fields, and the parser reads no further.

### StatusList, Dashboard, Viewer

A page is a record, and a handler a function on it, since JavaScript runs one
handler at a time. A request is a member of the bag `calls` until its handler has
run; that the bag has no order is the point, for the list asks every node every
five seconds whether the last answer came or not. The figures in the rows and the
charts are left out: a row is a node and a market, and a point of a chart the place
where it was drawn. `Row`, `recordPk`, `errorCounter` and the handlers keep the names
of the code. `Dashboard` has one request at a time, because only a handler that ran
to its end sets the timer for the next; request and answer are one step there.
`Viewer` puts the pages behind the window: leaving or reloading a page makes its
record anew and forgets its requests, a page that is loaded while the service does
not listen is the error page, and closing the window stops the service.

## 3. Runs

| Run | Instance | Why this is enough |
|---|---|---|
| `spsc_queue` | 4 items, 2 payloads, whole and partial messages | both threads pass each pointer twice, with an incomplete message before and behind; two payloads make a swapped or repeated item visible |
| `batch_queue` | chunks of 2 cells, 6 items, 4 addresses, symmetric | a list of three chunks with a spare, or of two with a spare and one in Pop's hands; addresses are reused after free |
| `batch_queue_malloc` | the same with failing malloc, 4 items | shows a finding |
| `algorithms` | zero and every run of ones in 64 bits; streams of up to 3 messages of 4 bodies with right and wrong checksums, sent while they are read in pieces of any size | every 2^h - 2^l and its negative, which has all boundaries of 7, 8, 32 and 64 bits; a cut in every place of every state, behind a right and a wrong message |
| `message_allocator` | 3 messages, 3 requests (one list, another, too big), 3 passages of the idle queue; the capacities to 600 and around every power of two up to the last that is cached | lists of two and three, a message back while another is allocated; both ends of every list |
| `pipe` | two items one way, one the other, each a message or a null, plus both delimiters | each side writes, waits, is woken, terminates, in every order; a null is written in front of a message and of a delimiter |
| `pipe_recycle` | the same | shows a finding |
| `pgm_sender` | sizes 1 to 3, cache of 3, packets of 2 bytes, 5 bytes in all, blocks of 2 messages, indices modulo 2 | messages below, at and above the cache, blocks over several packets, several in one, wrap of the index |
| `pgm_receiver` | 2 senders of 6 packets, 2 under way, vectors of 2, indices modulo 3 | loss of any packets, the index passes zero again, senders interleaved |
| `pgm_receiver_loss` | 1 sender, 4 packets, no wrap | shows a finding |
| `algorithms`, its compressor | 4 templates, 2 tokens (symmetric), 4 records, 2 in a buffer, one buffer under way, integers modulo 3 | an entry is made, skipped by a loss, and met again; a record behind one that fails; a COPY field that changes and does not, a DELTA that goes up and down. A second buffer under way would add nothing: the two contexts share no state |
| `viewer` | 2 nodes, one with two markets that may be missing, 2 unsettled requests to each, charts of 3 points | two answers of one node in either order, with the other's beside them; a full chart is renumbered, a host comes late and is missing again |
| `input_service` | 2 attempts to connect, 3 outstanding writes | a connection and its successor with every order of completions; a third write is the first one that can reuse a buffer |

Bounds in the modules: `MaxItems` (items written and not withdrawn), `Quota`
(the same per side of a pipe), `MaxIdle` (recycled messages), `MaxBytes`
(bytes pushed), `MaxPackets` and `NetBound` (packets sent, under way),
`MaxConnects`, `MaxWrites`, `MaxFrames` (messages of the exchange), `MaxRecords`, `MaxInBuffer`, `MaxOnWay`, `MaxCalls` (the
list's unsettled requests to a node; the next poll waits for them). Each is a guard of the action that would exceed it.
`MaxBatch`, `CacheSize`, `Capacity`, `MsgvLen`, `N` and `Points` (101) are constants of the code,
made small. `IndexMod` stands for 2^32 and keeps the wrap.

What each passing run shows:

* `spsc_queue`: `DeliveredInOrder`, `NoLostWakeup`, `CellsNotShared`,
  `WholeMessages` (a reader that took part of a message never finds the next
  part missing), `FlushedStays`, the liveness of `FlushedIsRead` by wake-ups
  alone, `ReadsPublished`, and `ImplementsChannel`.
* `batch_queue`: `ChunksOwnedOnce` (no leak, no double free, the destructor
  frees all), `PointersInList` (no compared address is stale, hence no ABA),
  `UnpushStaysInList`, and `ImplementsSpscQueue`.
* `algorithms`: `WireRoundTrip` (what is written is read back, with
  the announced size, and a cut varint is refused); `PiecesDoNotMatter` (the
  complete messages are handed over however the stream is cut, up to the first wrong
  checksum, and nothing but messages behind it).
* `algorithms`, its compressor: `CachesAgree`, `DecodedAsEncoded`, `NullOnlyAfterLoss`, each about
  the entries no record of which was lost or refused.
* `message_allocator`: `EachInOnePlace` (none is lost, also not when the allocator
  is destroyed), `ReusedBeforeNew` (and what is reused has room), `ListFits` (a message
  is of the list of what it was asked for, which has room for it and is not twice as big).
* `pipe`: `NoLostNotification`, `PeerOutlivesWriter`, `CycleBroken`,
  `EndAtNull` (a reader sees the end at the first null; if that is Terminate's, it has
  read everything its peer wrote), `BlockedReadReturns`.
* `pgm_sender`: `NothingStuck` (output is never off with something to send and
  nothing on its way to turn it on), `TimersTracked`, `ImplementsPacketStream`,
  `PushedIsSent`.
* `pgm_receiver`: `JoinsAtBlock`, `GapsSeen` (with the exact exception the code
  has: a `last_index` of 0).
* `input_service`: `NeverSilent`, and three properties that hold except after a
  race: `ReadsInOrder`, `HeartbeatAfterLogon`, `WritesKept`. They say that a timer
  that expired with another completion queued is the only way to get there: the
  reconnect timer for the first, either timer for the others. An instance with three
  attempts to connect was checked once by hand (it takes longer than the other runs);
  it showed that `HeartbeatAfterLogon` needs both timers (7), which two attempts hide.
* `viewer`: `RowsKnown` (rows, record, count of errors and pages agree, whatever
  order answers come in), `ListTellsTruth` (a list that stays open shows a node
  that stays down as down, one that stays up as up, and the alarm follows),
  `PointsInOrder`, `ChartsUnderTheirName`. Three of them name an exception that the
  code has (7).

`CHECK_DEADLOCK FALSE` is given where the system may stop: after the destructor
(`batch_queue`, `message_allocator`), when both users are gone (`pipe`), after Stop
(`pgm_*`), when there is nothing more to write, send or encode (`algorithms`), when the
window is closed or the program has crashed (`viewer`), when the attempts to connect are
used up or a null socket was dereferenced (`input_service`). `spsc_queue` checks it.

## 4. Fairness

* `SpscQueue`: weak fairness of `FlushStore`, `Wake`, `CheckRead`, `TakeFront`.
  A thread inside a method is scheduled, the writer keeps the obligation the
  comment on Flush states, and a reader that is awake reads. Nothing obliges the
  writer to write or flush, or the reader to poll (`Retry` is not fair).
* `Pipe`: weak fairness of the steps inside a method. Timeouts and spurious
  wake-ups (`WakeUp`) are not fair: `BlockedReadReturns` needs none of them.
  Weak fairness is enough for the mutex: a reader that gets it after a flush finds
  the item and returns, so nobody keeps the notifying thread out for ever.
* `PgmSender`: weak fairness of the steps inside a call, of the poller's calls
  (`Plug`, `RestartOutput`, `PollOut`, `TxTimerEvent`), and strong fairness of
  `SendAll`: a socket that is asked again and again takes a packet in the end.
  That is what openpgm's rate limiter and a draining send buffer give. No user
  has to push or stop.
* `Viewer`: weak fairness of the list's timer, of every node's answer and of every
  answer's handler, as long as the page is open. `ListTellsTruth` asks for no more:
  a browser that runs keeps its timers, and a request is answered or fails. Nobody
  has to click, nor a node to recover; a node that changes for ever is promised nothing.

## 5. Proofs

Every theorem holds for every value of the constants that satisfies the assumption
named in the module (`MaxItemsAssumption`, `BatchAssumption`, ...). What the assumptions
ask beyond types and sizes: addresses are finite in number, and null and an arbitrary
pointer are none of them (`BatchQueue`); there are finitely many messages and nullptr
is none (`MessageAllocator`); a packet's capacity can be told from `kNonExistOffset`
in 13 bits (`PgmSender`, `PgmReceiver`; the code's packets have about 1500 bytes), and the
receiver's packets hold a block's beginning and one byte more; a template has a field,
fewer than 32 of them, and only instructions that the parser makes (`Compressor`); a message
of the exchange is as long as its head says, and head and tail are not empty
(`SzBinaryDecoder`); capacities are natural numbers (`SizeClass`); there are finitely many nodes,
an answer has finitely many markets, none of them called "异常" (`StatusList`), and
`/config` names a host (`Dashboard`).

None of the properties is inductive as it stands. Each module has one inductive
invariant, made of named parts, which contains or implies the properties; `Step...`
lemmas show it preserved by one action after the other.

### SpscQueueProofs

| Theorem | Statement |
|---|---|
| `Invariance` | `Spec => []IInv` |
| `TypeCorrect`, `InOrder`, `WakeupNotLost`, `CellsDisjoint`, `MessagesWhole` | `Spec => []P` for `TypeOK`, `DeliveredInOrder`, `NoLostWakeup`, `CellsNotShared`, `WholeMessages` |
| `ContentionValues` | a failed swap of Flush finds null (`ContentionIsWOrNull`) |
| `FlushedNeverWithdrawn` | `Spec => FlushedStays` |
| `Refinement` | `Spec => ImplementsChannel` |
| `OrderIsQueue` | `OrderSpec => Spec`: the history of the memory orders adds no step |
| `TakesPublished` | `OrderSpec => []ReadsPublished` |

`NoLostWakeup`, for instance, needs to know that `contention_` is null whenever the
reader was told "nothing", which needs the order of the pointers, which needs to know
what a failed swap leaves in `w_item_`. The invariant `IInv` is

* `PointerOrder`: front <= w <= f <= Back, and front <= r <= c where they are not null;
* `Contention`: outside the second half of Flush, `c` is `w`, or null with `w`
  equal to front; in it, `c` is null and something is there to publish; while `c`
  is null nothing is prefetched;
* `ReaderState`: a reader about to take has a prefetched item; one that was told
  "nothing" left null in `c`, unless it is being woken;
* `Boundaries`: f, w, c stand between messages, and so does front when the
  reader can be told "nothing";
* `History`: the delivered items are the cells in front of the reader.

`StepRefines` maps every action to one of the channel's or to a stutter: Flush takes
effect at its successful swap or at its store, CheckRead at its swap, Read at its pop.
`OrderInv` adds that what stands in `contention_` was released, by a swap or by a mutex,
except behind Flush's plain store, where the writer is about to wake the reader or the
reader looks on its own.

### BatchQueueProofs

All for a malloc that does not fail (`~MallocFails`); the run `batch_queue_malloc`
shows what happens when it does.

| Theorem | Statement |
|---|---|
| `BatchInvariance`, `BatchTypeCorrect` | `BatchInv`, `TypeOK` |
| `OwnedOnce`, `PointersStay`, `UnpushStays` | `ChunksOwnedOnce`, `PointersInList`, `UnpushStaysInList` |
| `BatchRefinement` | `Spec => ImplementsSpscQueue` |
| `BatchInOrder` | the items are delivered in order (through `Queue!InOrder`) |

`BatchInv` is the queue's own `IInv`, instantiated with the positions of the addresses,
and `Storage`: there are a numbering `g` of chunks and bounds `lo`, `hi` such that the
chunks `g[lo]` to `g[hi]` are linked by `next` (`Linked`) and back by `prev`
(`LinkedBack`), they, the spare one and the one in Pop's hand are all that is allocated
and no two of them are the same (`Owned`), begin, back and end are where the number of
items says (`Ends`), the four pointers are null or in the list (`Pointers`), and every
item not read yet is in its cell (`Contents`). A pointer then *is* a position
(`SameAddress`): comparing addresses, as the compare-and-swap does, compares positions,
although malloc gives addresses out again. `ChunkAt`, which walks the list
recursively, is resolved once (`WalkIs`).

### PipeProofs

| Theorem | Statement |
|---|---|
| `PipeInvariance`, `PipeTypeCorrect` | `PipeInv`, `TypeOK` |
| `NotificationNotLost`, `PeerAlive`, `NoCycle`, `EndComesAtNull` | `NoLostNotification`, `PeerOutlivesWriter`, `CycleBroken`, `EndAtNull` |

`Lifetimes` says that an object lives exactly as long as its user or its peer holds it,
and holds its peer exactly while it has not terminated; `Callers` that a thread is
inside a method only of an object its user holds, and writes only to one that has not
terminated; `Waiting` that a waiting reader left word in the queue or the peer stands
before its notification; `Ends` that Terminate's null is in the queue exactly when the
side has terminated or is about to, with everything in front of it and nothing behind;
`Ended` that a reader has seen the end exactly when the last item it took is a null, and
took none before.

### MessageAllocatorProofs

| Theorem | Statement |
|---|---|
| `EveryListFits` | for every capacity that is cached: the list exists, its messages hold the capacity and are at most twice as big (`Fits`) |
| `AllocatorInvariance`, `AllocatorTypeCorrect` | `AllocInv`, `TypeOK` |
| `NoMessageLost`, `RecycledFirst`, `MessagesOfTheirList` | `EachInOnePlace`, `ReusedBeforeNew`, `ListFits` |

`EveryListFits` takes `SizeClass` apart: the sums over sets, whose folds choose an
order, are the sums of any order (`SumsAdd`); smearing bits to the right leaves
2^(k+1) - 1, and the product with the de Bruijn constant has in its top five bits the
entry of the table that is k, shown for each of the 32 k. `AllocInv` gives every free
message a depth in its list (`Chained`), so that the walk along `next_` meets each message
once and ends (`ListsAreShort`, `Walked`); it says that a message is with a thread, in the
idle queue or in the list of its `index_`, that one that a thread holds suits what it was
asked for (`Suits`), and what Allocate, between the steps of
ConsumeIdleQueue, still has in front of it (`ControlInv`).

### PgmSenderProofs

| Theorem | Statement |
|---|---|
| `SenderInvariance`, `SenderTypeCorrect` | `SenderInv`, `TypeOK` |
| `TimersAreTracked`, `NothingLeftBehind` | `TimersTracked`, `NothingStuck` |
| `SendsPacketStream` | `Spec => ImplementsPacketStream` |

`NothingStuck` rests on `Wakeups`: when output is not polled and no timer is set, the
reader of the pipe is asleep, or a restart is on its way, or only the end is left to be
read. `SendsPacketStream` needs to know where every byte is between PushMessage and the
packet: consecutive in the cache, the pipe, the batch, the serializer's block and the
packet being filled (`StreamUi`, `StreamPipe`, `StreamIo`), and that the offset in a
header is that of the first block that begins in its packet, or will, when the block
that is to follow has been fetched already (`Offsets`).

### InputProofs

| Theorem | Statement |
|---|---|
| `ServiceInvariance`, `ServiceTypeCorrect` | `ServiceInv`, `TypeOK` |
| `AlwaysGoesOn`, `ReadsKeepOrder`, `HeartbeatsOfASession`, `OnlyOldWritesTorn` | `NeverSilent`, `ReadsInOrder`, `HeartbeatAfterLogon`, `WritesKept` |
| `ReceiverInvariance`, `ReceiverTypeCorrect` | `ReceiverInv`, `ReceiverTypeOK` |
| `PeersJoinAtBlocks`, `GapsAreSeen`, `OneRxTimer` | `JoinsAtBlock`, `GapsSeen`, and that Select has one rx timer at most |

`ServiceInv` has one part that always holds (`Bounded`: what may be queued when), one that
holds until a reconnect timer raced (`ReadInv`), and one that holds until any timer
did (`CalmInv`). The chain of connect and reads is in one place, being connected,
outstanding or queued (`OneReader`), and the decoder is where the stream is or where the
queued bytes begin (`Decoder`). Without a race a connection begins with nothing left of
the one before (`Alone`), errors come behind reads (`ErrorsLast`), and once a
reconnection is planned nothing more comes of this one (`Over`); `Session` and `Buffers`
are about the heartbeats and the two output buffers.

The receiver's invariant is small: packets under way are as a sender made them, a peer
that has a parser knows the index of the last packet it gave it or 0, and there is one
peer at most. `GapsSeen` then is arithmetic modulo `IndexMod`.

### CodecProofs

| Theorem | Statement |
|---|---|
| `CompressorInvariance` | `Spec => []CompressorInv` |
| `CachesStayEqual`, `DecodedIsEncoded`, `NullIsLoss` | `CachesAgree`, `DecodedAsEncoded`, `NullOnlyAfterLoss` |
| `DecoderInvariance` | `DecoderSpec => []DecoderInv` |
| `MessagesWhole` | `DecoderSpec => []PiecesDoNotMatter` |
| `EveryIntegerComesBack` | `\A v \in SUBSET Bits(64) : ComesBack(v)` |
| `IntegersComeBack` | `WireSpec => []WireRoundTrip` |

The compressor's argument has three layers. A record `Fits` a cache when every field takes from the
body what was written for it and makes of it what was sent: a full record fits every
cache (`FullFits`), the record of a known entry every cache that agrees with the
encoder's at the fields decode can store (`KnownFits`). A record that fits is decoded to
what was sent, to the end of its body (`MessageDecoded`), or fails at a DELTA string. The
decoder is `InStep` with caches of the encoder, but for some entries, when it has the
others, with their values; a record decoded keeps it in step with the encoder's next
caches (`EntryUpdated`), one that is skipped takes its entry out (`Skipped`), and
`LoopInv` carries this through `Context::decode`, however the loop ends. `CompressorInv`
says that there is a history, all the caches the encoder has had and the records that
led from one to the next, of which the buffers under way and the caller's are
consecutive pieces (`Links`), and that the decoder is in step with the caches in front of
the first of them. A record is therefore never compared with the encoder's caches of
now, which may be many records ahead, but with those it was written against.
The two folds of the model, over fields and over records, become sequences of
states (`FoldsExist`, `DecodeRuns`, `BodyRuns`, `LoopRuns`), which are walked through by
their least counterexample.

The decoder has passed so many bytes of the stream, and they determine what it may be
(`At`): `OnTrack`, with all messages before that place handed over and the bytes since
the last one buffered, and the end of the next one not reached; or `Lost`, behind a
message with a wrong checksum, with everything before that one handed over. `Shape` says
how much each state has buffered, and that the body size is that of the buffered head;
with it the bytes taken by one turn never reach beyond the message (`InMessage`), and the
turn that completes it has buffered just that message (`PlaceKept`). What is handed over
is well formed because the checksum was compared (`SoundKept`), also when the decoder is
lost. The loop of `decode` ends: twice the bytes that are left, and one for a body without
bytes, falls with every turn (`Measure`, `TurnKept`), so that the turns the model gives it
are enough and the piece is read to its end (`DecodeKept`).

What the wire formats do to an integer is proved bit by bit (`ShrIs`, `ShlIs`), of every
integer: `WireAssumption` says only that it has 64 bits. `Needs` is how many groups of
seven bits an integer needs; exactly one number is (`NeedsOne`), and it is what the
thresholds of `VarintSize32` and `VarintSize64` give and the search tree of
`WriteVarint64` finds on its three overlapping parts (`Size32Is`, `WrittenSizeIs`,
`Size64Is`). A `VarintOf` has that many bytes, each with its seven bits, all but the last
marked. Both writers write one (`Writes32`, `Writes64`); a reader takes one apart
(`GroupsOf`), finds no end in one that is cut (`CutIsEndless`), and what it collects in a
`uint32_t` is the bits of the groups (`PartOf`), with nothing lost where the parts are
joined (`Reads64`). Zig-zag puts the sign into bit 0 and turns the others over when it is
set (`ZigZagIs`), which decoding undoes (`ZigZagBack`).

### ViewerProofs

| Theorem | Statement |
|---|---|
| `ViewerAlwaysSound` | `Spec => []ViewerInv` |
| `RowsAlwaysKnown`, `PointsAlwaysInOrder`, `ChartsAlwaysUnderTheirName` | `RowsKnown`, `PointsInOrder`, `ChartsUnderTheirName` |

Nothing is assumed of the number or the order of the requests under way: `ListInv` does
not mention them. Every handler is about one node and leaves the rows of the others
(`OthersStay`), so that it is enough to show that one node is left sound and that the
count went up, down or not at all with its error row (`HandlerSound`). What splice takes
out of the rows is a fold; it leaves the other rows, each once (`KeptRows`). Of the
dashboard, `PointsInv` says that a chart never has more points, nor farther ones, than
there were answers (`ChartSound`), and that the charts of a host that every answer had
lag by one at most, with room for the next point (`ChartComplete`); without the latter
the last point before a chart is full could fall on the one before. `ChartsInv` says
whose arrays are shown in every phase: above all, that arrays shown under another name
than the first host's are not empty, and so are never given up.

## 6. What is only model-checked, and what is not modelled

Only model-checked: the liveness properties, because the prover handles neither
liveness under fairness nor ENABLED.
What a definition by recursion computes can be proved only by its least
counterexample, since the theorems of induction take an operator; that is done for the
sums and the product of `SizeClass`, for `Walk` and `ChunkAt`, and for the folds of
`Compressor`, `SzBinaryDecoder` and `StatusList`.

Not modelled:

* Weak memory beyond `QueueOrder`: the order of the atomics themselves is
  sequentially consistent, and a cell that is not `visible` is still read as it was
  written, which x86 gives for these accesses.
* Statistics, status timers, logging: they feed nothing back.
* The serializer, Select and openpgm: outside of the repository.
* Two contexts of the compressor that share `Templates` in two threads (they
  would share `pMap_`); templates of 32 fields or more, whose presence map
  overflows; a varint that no encoder of the repository writes.
* In the decoder, the lengths within a head and a tail of 2^31, for which the sum of the
  sizes overflows only after two gigabytes are buffered, and the length 2^32 - 1 when one
  byte is left of the piece: the code gives up with the next piece, the model with this one.
* The fixed-width and float functions of `wire_format.cc`, which nothing calls.
* `ctx_t` (stubs); the service pool (a round-robin counter; nobody calls its `stop`).
* `PGMSocket::Init` and `Reset`: a ladder of calls of openpgm, every failure of which
  closes what was opened; `Reset`'s only caller is commented out.
* Of the viewer: the figures and their formatting, the extremes beside the charts,
  the drawing, the widget that pages through the rows, several sources of one host,
  and a window's second page (a link with "open in a new window").
* Liveness of the input service: with its timers, its queue and the bound on
  connections the instance that could show it is out of TLC's reach.
* Vendored code. It is two thirds of the lines under `src/src` (tinyxml2, openpgm and
  log4cplus headers); the repository's own code is about 10 300 lines, many of them
  markup, constants, declarations, logging, and the figures and widgets of the pages.

## 7. What was learnt about the code

Shown by a run that finds the violation:

1. `batch_queue_malloc`: Write ignores that Push failed (`spsc_queue.hpp:215`).
   The item is lost or its cell is read twice, and the caller hears of success.
2. `pipe_recycle`: `Recyclemessage_t` goes through `peer_` (`pipe.cpp:159`), which
   Terminate of the same side resets; messages read before cannot be recycled.
3. `pgm_receiver_loss`: the comment at `pgm_receiver.cc:158` promises that a loss
   disjoins the peer; the code there is commented out, and the index check does not
   see a loss right behind the first packet of a peer.

Read off the code while modelling, without a run of their own:

* `spsc_queue.hpp:279` says that `r_item_` should never be null; after a CheckRead
  that found nothing it is, and the test for it at 265 is needed (a mutant without
  that test breaks the queue).
* `spsc_queue.hpp:209` says that incomplete items are never flushed before the rest
  of the message; Terminate after an incomplete Write flushes them. The reader
  gets the partial message and then the end.
* `message_allocator.hpp:51` gives the sizes of the free lists a power of two too low.
* `message_allocator.hpp:40` calls the thread the only difference between Recycle
  and Release; Recycle does not clear the message either.
* `pipe_t::Write` does not look whether it is given a null (`pipe.cpp:61`), and
  `pipeTest.cpp:42` ends its stream with one. The reader then believes its peer
  terminated, for good; the peer did not, may write on, and what it writes is never
  read. `EndAtNull` says where the end is in either case.
* `pipe_t::Unwrite` looks at no flag (`pipe.cpp:89`). After Terminate it still goes to
  the out queue, which the peer's destructor may have deleted. The model gives such a
  call the result of a queue where nothing can be undone; `PeerOutlivesWriter` speaks
  of Write and Terminate.
* CreatePipePair goes on when one of its allocations has failed (`pipe.cpp:14`).
* `stop` of the input service closes the socket and leaves the timers; the
  aborted operations are ignored, but the next heartbeat or read fails and the
  service connects again. `stoped` is never consulted.
* A heartbeat timer whose completion is queued when it is cancelled arms itself
  again, and a reconnect timer that meets a queued read leads to two reads on one
  buffer and old bytes in the new decoder. `ReadsInOrder` and `HeartbeatAfterLogon`
  show that these are the only ways.
* A reconnect timer can also leave the heartbeats of a session that is none: it
  expires with a write's error of the old connection queued behind it, connect makes
  a new connection, and the old error then plans another one for it. When that timer
  expires in front of a read with the answer to the new logon, connect resets the
  session and the answer, read afterwards, arms the heartbeat timer. It takes a third
  connection, and was met in the proof of `HeartbeatAfterLogon`: the step of the
  reconnect timer could not be proved while only the heartbeat timer's race was excepted.
* When an option of the socket cannot be set, `connnectHandle` resets the socket and
  reports success; the logon then goes through a null pointer (`HandleConnectNull`).
* An unchanged COPY integer is decoded as 0, an unchanged COPY string from the
  cache; an int32 field is decoded as 0 always; a DELTA string can be encoded but
  not decoded. `DecodedAsEncoded` names the first two as exceptions.
* Nothing heals a cache entry whose full message was lost: later records for it are
  decoded against zeros, or against a null pointer (`Context.hpp:99`).
* Nothing watches for a peer that accepts and never answers: there is no timeout of
  the logon or of reads. `NeverSilent` counts an outstanding read as going on.

* A node whose error row is met by an answer without a market is not shown again
  until the page is loaded anew: isError removes the row, nothing else is added, and
  `recordPk` keeps the node (`table_basic.js:131-139`). `emptied` in `RowsKnown` and
  `ListTellsTruth` is this case.
* A market that a node serves later than its first answer is never added to the list
  (`ComSameStatusData` replaces rows only), and one that it no longer serves stays.
* The first failure of a node behind a success removes its rows and shows nothing;
  the error row and the alarm come with the next failure, five seconds later.
* `totalItems` follows rows that are put in, not rows that are removed.
* A host chosen from the menu before it has a speed keeps its name in the page bar
  above the first host's charts: an empty array equals `""` (`index.js:854`).
* One failed poll, or an answer without the first host, ends a dashboard's polling
  (`index.js:608`, `935`). `ajax` has no error handler.
* The link of a row names a market, which `index.html` does not read.
* mg_bind's result is used before it is looked at (`monit_service.cc:117`); the window
  may load its page before the service listens, and nothing loads it again; the
  service is started before `CefExecuteProcess`, so in every sub-process too.

## 8. Plan

Done: the queue with its storage and proofs, the allocator, the pipe, both PGM
engines, the input service, in this order because each stands on the ones before;
then the compressor with its parser, the decoder and the wire format; then the
memory orders of the queue, and the viewer.

Left to model: the compressor and a PGM sender joined, so that a loss on the network
is the loss the compressor sees.

Proved: everything the runs check of the safety of the queue (with its memory orders and
its storage), the pipe, the allocator, the PGM engines, the input service, the
compressor, the exchange's decoder, the wire format and the viewer, and the two
refinements below the channel, and the sender's. What is left is liveness, out of this
prover's reach.
