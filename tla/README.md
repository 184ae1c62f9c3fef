# Sponge in TLA+

Specifications of Sponge, the user-space TCP/IP stack in `src/libsponge`, with
TLC configurations that check them on small instances and TLAPS proofs that
hold for every value of the constants.

## The system

| part | source | what it does |
|---|---|---|
| wrapping integers | `wrapping_integers.*` | 32-bit sequence numbers and their conversion to 64-bit positions |
| `ByteStream` | `byte_stream.*` | a bounded queue of bytes kept in an array, with an end and an error flag |
| `StreamReassembler` | `stream_reassembler.*` | turns pieces of a stream, in any order, into a `ByteStream` |
| `TCPReceiver` | `tcp_receiver.*` | turns segments into pieces; computes the acknowledgment and the window |
| `TCPSender` | `tcp_sender.*` | turns a `ByteStream` into segments within the peer's window; retransmits |
| `TCPConnection` | `tcp_connection.*` | one sender, one receiver, reset, lingering, shutdown |
| `TCPState` | `tcp_helpers/tcp_state.*` | names for combinations of sender and receiver state |
| `TCPSpongeSocket`, `EventLoop` | `tcp_helpers/tcp_sponge_socket.*`, `util/eventloop.*` | a thread that moves bytes between the application, the connection and the network |
| adapters | `tcp_helpers/*_adapter.*`, `tcp_over_ip.*` | segments over UDP, IP and TUN/TAP; lossy wrapper |
| `NetworkInterface` | `network_interface.*` | IP over Ethernet: ARP cache and queues |
| `Router` | `router.*` | longest-prefix match and TTL |
| formats, utilities, apps | `tcp_helpers/*_header.*`, `util/*`, `apps/*` | parsing, system calls, command lines |

An application writes into the sender's stream and reads from the receiver's.
The sender fills the window its peer announced; the peer's receiver reassembles
and answers with an acknowledgment and a window, which go back into the sender.
`TCPConnection` ties the two halves together and a socket thread drives it with
segments, bytes and time.

Below TCP an adapter turns segments into UDP messages, IP datagrams or Ethernet
frames, and a `NetworkInterface` finds the Ethernet address of the next hop. A
`Router` joins several interfaces. Above TCP an application's own event loop
copies bytes between the socket and its standard input and output.

The specifications cover every layer part by part, and compose them where they
meet: two sockets over a faulty network (`TCPNetwork`), the two threads of a program
(`StreamCopy`), hosts on an Ethernet (`EthernetSpec`), a router among hosts
(`NetworkSimulator`), and two programs with two threads each that talk through a
third one (`Lab7`).

## Modules

Objects are values (records), methods are operators on them, and a `...Spec`
module is the state machine of one object and its environment.

| module | models | state |
|---|---|---|
| `WrappingIntegers` | `wrap`, `unwrap`, `operator+`, `operator-` | none; `Modulus` is 2^32 |
| `Stream` | a `ByteStream` as a queue | record: capacity, buffer, the two 32-bit counters, the flags |
| `ByteStream` | the class as written: fixed array, `endOfBuffer`, shifting loop | one variable per field, and the history of bytes accepted and delivered |
| `AbstractByteStream` | the state machine over `Stream` that `ByteStream` implements | one stream |
| `StreamReassembler` | the class; `_buffer` and `_written` merged into `slots` | record |
| `ReassemblerSpec` | a reassembler, pieces of one text in any order, a reader | `ra`, `taken`, `ended` |
| `TCPSegment` | header fields the state machines read, `length_in_sequence_space` | record |
| `TCPReceiver` | the class, on top of `StreamReassembler` | record |
| `ReceiverSpec` | a receiver, a peer behind a bad network, a reader | `r`, `peer_isn`, `delivered`, `shut` |
| `TCPSender` | the class; the priority queue is the set `in_flight` | record |
| `SenderSpec` | a sender, an application, a clock, a peer's acknowledgments | `s`, `written`, `acks`, and what the peer has announced |
| `SenderLoop` | the loop of `fill_window()` as written, compared with the closed form of `TCPSender` | none of its own |
| `SizeT` | the range of `size_t` | none; `SizeModulus` is 2^64 |
| `TCPConnection` | the class, on top of `TCPReceiver` and `TCPSender` | record |
| `TCPState` | the summaries and the table of official states | none |
| `TCPNetwork` | two `TCPSpongeSocket`s: the rules of their loops, `connect`, `listen_and_accept`, the destructor, and the network between them | `conn`, `net`, who calls, what was delivered, faults |
| `EventLoop` | `wait_next_event()`: setting up, `poll()`, serving one rule after the other, cancelling | `loop`: the rules left, what was asked, what `poll()` reported |
| `SpongeSocket` | the four rules of `TCPSpongeSocket`, the socket pair, a correct peer | operators on one record |
| `StreamCopy` | a program such as `tcp_udp.cc`: the socket's thread and the owner in `bidirectional_stream_copy()`, each in an event loop | `sys`, `owner`, `tcp` |
| `NetworkInterface` | the class; a `std::map` is a function | record |
| `EthernetSpec` | hosts with a TAP device on one Ethernet that loses and damages frames | `iface`, `inbox`, what was sent, received, lost |
| `LossyChannel` | what a link promises two hosts; `MCEthernet` has the mapping under which `EthernetSpec` implements it | `channel`, `received` |
| `Router` | the class and `AsyncNetworkInterface` | record |
| `NetworkSimulator` | `apps/network_simulator.cc`: a router, six hosts, their cables and the checks | `router`, `hosts`, the round |
| `Lab7` | `apps/lab7.cc` and `apps/bouncer.cc`: a TCP thread and a network thread in each of two programs, and the bouncer | one variable per queue and thread |
| `NetParser` | the parser, the unparser and the Internet checksum of `util` | none; bytes are numbers |
| `Packets` | TCP, IPv4, ARP and Ethernet headers to and from bytes | none |
| `Adapters` | `read()` and `write()` of the adapters over UDP, TUN and TAP, and of the lossy one | record: addresses, ports, listening |
| `AdapterSpec` | a server and its callers that exchange packets, one of them damaged | `medium`, `adapter`, the last exchange |
| `ByteStreamProofs`, `SenderProofs`, `NetworkProofs` | theorems about `ByteStream`, `SenderSpec` and `TCPNetwork` | |
| `ReceiverProofs` | theorems about `ReceiverSpec` and about `ReassemblerSpec`, whose names are disjoint | |
| `LinkProofs` | theorems about `EthernetSpec`, and the loop of `route_one_datagram()` an iteration at a time with its proof | the loop's variables |
| `ReceiverLemmas` | theorems about `WrappingIntegers`, what `push_substring()` does to a reassembler, and what the methods do to a receiver that gets segments of a text | |
| `SenderLemmas` | what each method does to a sender into whose stream a text is written | |
| `NetworkLemmas` | what the methods of a connection do to it, to its peer and to the segments between them | |
| `MC...` | instances for TLC | |

An action is a whole method: `Push` is `push_substring()` with the storing, the
writing out and the test for the end; `Hear` is `ack_received()` with the
`fill_window()` at its end; `Receive` is an adapter's `read()` with the
`recv_frame()` and the `send_pending()` in it. A step is finer only where another
thread can see the difference: `EventLoop` has a step for the first loop of
`wait_next_event()`, one for `poll()`, and one for each rule served, since the other
thread may act between what `poll()` reported and the callback; `Lab7` has a step
for each frame that `send_pending()` writes, since that write blocks. Definitions keep the code's names (`recievedSYN`
included). A definition whose comment starts with `Mutant:` is a plausible wrong
version of the one that follows; it is used by no specification and serves to
see that a property can fail.

Abstractions:

- 2^32, 2^64 and the 2^16 of the window field are `Modulus`, `SizeModulus` and
  `WinModulus`. Every place where the code computes in so many bits and may wrap
  has its `%`.
- The bytes of a text are distinct, so that a misplaced byte is seen.
- 64-bit absolute positions are not bounded.
- `fill_window()` is a loop that sends one segment per turn; `FillWindow` gives
  its result in one step. `SenderLoop!FillIsLoop` compares the two in every
  reachable state.
- In `TCPNetwork` rule 4 of the socket, which hands queued segments to the
  network, is the end of every other rule: a delay there is a delay in the
  network. Segments stay in order; a repeated one arrives twice in a row.
- Time passes in units of the initial timeout, separately at each end. A clock
  ticks while segments are under way only as a fault ("slow"). The linger time and
  the number of attempts are constants (2 and 1 instead of 10 and 8).
- The time since the last segment stops at the linger time, with which alone it
  is compared.
- Callers of `peek_output`/`pop_output` never ask for more than
  `buffer_size()`; the models make the same promise.
- `StreamCopy` has a peer that answers correctly and at once, until it resets
  the connection or its host refuses the datagrams: loss is the business of
  `TCPNetwork`. `poll()`, `read()`, `write()` and `shutdown()` behave as Linux
  documents them for pipes, files and stream socket pairs.
- A frame's payload is the message it carries, or `Damaged`, in `NetworkInterface`
  and above; `Packets` and `AdapterSpec` have the bytes.
- Addresses are numbers of `Width` bits, 5 in `Lab7` and 6 in `NetworkSimulator`,
  which keep the relations between the addresses and routes of the programs.
- In `Lab7` what TCP sends is any number of datagrams, the server's after the
  first from the client. An iteration of the network thread is one step: it
  shares only the ends of queues with others.

## Model checking

| run | question | result |
|---|---|---|
| `byte_stream` | does the array keep order, count right when the counters wrap, and implement the queue? | holds |
| `reassembler` | is the output a prefix of the stream, is every stored byte in place and never forgotten, and does everything reach a reader that stops at `eof()` if the first missing byte keeps coming? | holds |
| `receiver` | the same through sequence numbers that wrap; is everything in the announced window taken; is a FIN acknowledged while bytes wait; does everything come through from a peer that retransmits what is not acknowledged? | holds |
| `receiver_ack` | is the acknowledgment always the first missing number? | violated |
| `sender` | is exactly what is unacknowledged kept for retransmission, in place and counted; is everything sent once and in order; is the timer armed with the right timeout; is the window respected; is the closed form the loop? | holds |
| `network` | end to end: are bytes in order, acknowledgments never ahead of what was taken, a clean close complete, not lingering safe, the window respected, the state an official one? | holds |
| `network_live` | do the two ends never wait for each other forever? | holds |
| `stream_copy` | with two event loops in two threads: is no byte lost or overtaken, does neither loop end early or write to a direction that is shut down, does the program end? | holds |
| `ethernet` | do the maps of an interface agree, are mappings true and fresh, do datagrams wait only after a loss, does a later one ask again, is each flow a lossy channel? | holds |
| `simulator` | does each datagram reach the one host it is for, once, through a router whose lookup is the longest prefix? | holds |
| `lab7` | do two hosts see a lossy channel through two routers and a bouncer, and do the threads never wait for each other? | holds |
| `adapters` | is every segment handed to TCP the one that was written, is an intact one always handed over, does a listening adapter lock on its caller and stay? | holds |

Bounds, and why they suffice:

- `byte_stream`: capacity 3, strings up to length 4, modulus 4, 6 bytes in a
  behaviour: writes that fit, do not fit and exactly fit, and counters that wrap.
- `reassembler`: 10 bytes through a capacity of 5, modulus 20: the window moves
  by twice its size, and every piece of the text, empty ones included, is pushed
  at every moment.
- `receiver`: 16 bytes in a sequence space of 14 with initial numbers 0 and 13:
  sequence numbers and byte counter wrap, the SYN at and next to the wrap.
  `MaxBehind` keeps old and new segments within half of the sequence space, as
  TCP requires.
- `sender`: 4 bytes in segments of 2, windows 0 to 2, two acknowledgments under
  way, two retransmissions: closed windows, probes, partial acknowledgments,
  FIN with and without room, backing off twice, and sequence numbers that wrap.
- `network`: 3 bytes one way and 1 back through windows of 2 with segments of at
  most 2; one or both ends call; one fault, which is a loss, a repetition, a tick
  too early or an abort, at any moment. Windows close and are probed, FIN goes
  with and without data, ends close one after the other and at once, give up,
  and reset. `network_live` sends one way only.
- `stream_copy`: two bytes each way through a socket pair that holds one and
  streams that hold two, as caller with a pipe as standard input and as listener
  with a file; the peer may reset or refuse at any moment. Every buffer fills, every
  rule is cancelled in each way it can be, and both threads end first.
- `ethernet`: three hosts, two datagrams one way and one back, one lost or
  damaged frame, timeouts of one unit and two units of time: requests cross,
  mappings expire with frames under way, requests are lost and repeated.
- `simulator`: up to three datagrams, two at a time, from two hosts to nine kinds
  of addresses, with TTL 0 to 2, and the routes in the program's order and
  backwards. Six rounds (the program has 256) are enough for two ARP exchanges
  and the datagram; `LookupIsLongest` covers all 64 addresses.
- `lab7`: two datagrams to the server and one back, socket pairs that hold one
  frame, one lost message, mappings that live three units while every event
  counts as one, a server that may end at any moment, programs that start in
  any order.
- `adapters`: three segments and two ARP messages over the three media; one
  packet is changed in any one byte, by 1 or by 16 (so that the two halves of the
  bytes that hold version and length, or the data offset, change one at a time), or
  cut at three places (in the payload, in the TCP header and in the IP header), or
  dropped. Two callers share an address
  and differ in their port, the server has two addresses.

Fairness. `reassembler` and `receiver` assume that the application is served as by
rule 3 of the socket: what there is to read is read, and at `eof()` the direction is
shut down for good, so that bytes assembled after a premature end never reach it. In
`reassembler` the first missing piece is pushed again and again. In `receiver` the
peer goes by `ackno()`, as `TCPSender` does: the SYN until there is one, then the first
byte that it does not cover, and nothing once it covers the FIN; the network delivers
again and again. The first divergence below leaves such a peer with nothing to send
while a byte is missing, so `AllDelivered` and `AllAssembled` have a premise: whenever
the end has been seen, the last byte is held and the reassembler knows of the end
(`FinHeld`, `EndHeld`). It is about the FIN only: losses, repetitions and reordering
of everything before it are not restricted. `FairSpec` is not used for the safety
arguments. In `TCPNetwork` segments under way arrive (losses are bounded by
`MaxFaults`), applications write their text, shut down and read, and clocks tick.
The last is strong fairness: that a tick waits for a quiet moment is a device of
the model, the loop ticks at every turn. The conditions are spelled out instead
of `WF` and `SF`, with the proviso that the step changes something.

In `StreamCopy` each thread goes on as long as it does not wait, standard input ends,
and nothing else is assumed. In `Lab7` the threads and the bouncer go on as long as
they have something to do; clocks, programs' starts and ends, and losses need not
happen. Both spell out the weak fairness of a thread's loop: the condition under
which it can go on, and the variable that every step of it changes.

In `TCPNetwork` three properties exempt an end at which a FIN without data has
overtaken a byte (`overtaken`): there the stream is cut short, the first of the
divergences below. `NeverStuck` exempts an end whose peer is gone and that has
nothing to repeat, as TCP does, and one whose peer's window was closed: `tick()`
counts no attempts then and probes forever, although `tcp_config.hh` calls
`MAX_RETX_ATTEMPTS` the limit "before giving up". `OfficialStates` starts at the end of
the handshake: when a SYN is lost but a later acknowledgment is not, `connect()`
leaves its loop without having the peer's SYN. After it one state occurs that
`TCPState` has no name for, `CLOSE_WAIT` with the linger flag up, when the peer's FIN
comes while the own FIN waits for room.

## Divergences

Where the code does not do what a comment, a test or a document of the repository
says. The first is the run `receiver_ack`. The others that name a definition are stated
in the modules and fail when added to the `INVARIANTS` of the run in brackets.

- `AckIsFirstMissing` (`tcp_receiver.cc:34`): a FIN that overtakes data is acknowledged
  by adding one to the first missing byte as soon as nothing waits in the
  reassembler, so a byte that never arrived is acknowledged. The header calls the
  ackno "the sequence number of the first byte in the stream that the receiver
  hasn't received".
- `EndMeansComplete` (`stream_reassembler.cc:29-31`) [`reassembler`]: a piece marked
  `eof` that holds no new byte, such as an empty last piece, ends the output although
  bytes before it are missing, because only the number of waiting bytes is tested.
  The comment says "all the bytes have been assembled".
- `OverlapIsAccepted` (`tcp_receiver.cc:23`) [`receiver`]: `bytes_written()` is 32 bits
  wide. After 2^32 bytes a retransmitted segment that starts before the wrap is
  placed almost 2^32 bytes ahead and its new bytes are dropped; the reassembler is to
  "write any newly contiguous bytes" (`stream_reassembler.hh:43`). If the segment has
  the FIN, `segment_received()` notes it all the same: once the bytes have come another
  way the FIN is acknowledged, and `stream_out()` never ends.
- `LateAcksHarmless` (`tcp_sender.cc:39,73`) [`sender`]: a late acknowledgment shrinks
  the window below what is in flight and the unsigned difference wraps around to a
  window of almost 2^64 bytes. A test is named "Repeated ACKs and outdated ACKs are
  harmless" (`tests/send_extra.cc:400`).
- `tcp_connection.cc:86` cuts the window to 16 bits, although `-w` of the programs and
  `TCPConfig::recv_capacity` take a larger one: a receiver with room for 2^16 bytes
  announces 0. The announced edge then moves back, with the effect of a late
  acknowledgment, and `FlowControl` fails. `NetworkAssumption` has `RecvCapacity < WinModulus`
  for this reason; the default is 64000.
- `NotOverdue` (`tcp_sender.cc:96-107`) [`sender`]: an acknowledgment of everything
  leaves the timer running, and data sent in the same call inherits the time spent;
  `writeups/assn3.md:42` says "if there is no outstanding segment, reset the timer".
- `AbortIsTold` (`tcp_sponge_socket.cc:266`) [`network`]: the connection is destroyed
  after the loop that transmits has ended, so the RST its destructor queues is never
  sent. The header says "When a connected socket is destructed, it will send a RST".
- `SuccessIsTriggered` (`eventloop.cc:86,98,120`) [`stream_copy`]: a rule that is not
  interested keeps its descriptor in `poll()` "for errors"; after a hangup `poll()`
  returns at once, every rule is passed over and `wait_next_event()` reports success,
  which `eventloop.hh:44` explains as "At least one Rule was triggered". The thread
  spins until its connection ends; `Ends` shows that it does end.
- `HeaderIntact` (`ipv4_datagram.cc:13`) [`adapters`]: the result of
  `IPv4Header::parse()`, which finds a wrong version, a bad length or a bad checksum
  (`ipv4_header.cc:13-22`), is not looked at, so a datagram with a damaged header is
  used. `GotIsSent` shows what still protects TCP: its own checksum with the
  pseudo-header.
- `_not_mapped_ip_address` (`network_interface.cc:47-48`) is said to hold the "last time
  ARP request sent" (`network_interface.hh:55`) but is written at the first request
  only, so that five seconds after it every datagram broadcasts another one.
- The route `128.30.76.255/16` of `network_simulator.cc` has bits beyond its length
  and never matches, since `router.cc:48` masks only the destination. `LookupIsLongest`
  leaves such routes out.
- `lab7.cc:254` calls `tick(50)` after every event, while the argument is "the number of
  milliseconds since the last call" (`network_interface.cc:84`): the clock runs fast
  under load. `ImplementsPath` holds all the same.

## Proofs

All theorems hold for every value of the constants that satisfies the named
`ASSUME`s. These say only that the modulus is even and positive, that
capacities are natural numbers and `size_t` is wider than a sequence number; for
the byte stream that the capacity is below the range of the 32-bit counters; for
the reassembler that the stream is, too; for the receiver that the
capacity and what may come late fit half of the sequence space (its stream may
be of any length); for the sender that text and window together stay below half
the sequence space; for the network of two sockets that each text does and that the
capacity of a receiver is below the modulus and fits the window field of a header; and for
the Ethernet that no two hosts share an address and that a damaged payload is not
an ARP message of one of them.

`ReceiverLemmas`
- `RoundTrip`: `unwrap` undoes `wrap` within half the sequence space of the
  checkpoint.
- `UnwrapWraps`: what `unwrap` returns wraps to the number it was given.
- `UnwrapClosest`: no other position that does so is closer to the checkpoint.
- They rest on the uniqueness of remainders (`ModUnique`) and on
  `MinusOfWraps`, which says that `operator-` of two wrapped positions is their
  distance when that is representable in 32 bits.
- The rest is about a reassembler as a value. `Holds` says that its counter, slots
  and buffer are those of one position of a text; `Pushed` that `push_substring()` of a
  piece of the text keeps this and takes all that fits. `Created` and `Written` are
  its two halves, `create_segment()` and `write_segment()`; the count of waiting bytes
  is followed through a disjoint union and a bijection.

`ByteStreamProofs`
- `TypeCorrect`: the fields stay in range.
- `FIFO`: bytes delivered and bytes in the array are the bytes accepted. The
  inductive invariant is the type invariant with `FIFOOrder` itself; a write
  disturbs its last part, a pop the last two.
- `CountersTogether`: the two 32-bit counters are the true totals modulo 2^32,
  which is inductive with the type invariant (`Counted`), and with `FIFO` their
  difference is what is in the buffer.
- `Refinement`: the array implements the queue of `Stream`; the queue is the
  live part of the array (`StreamValue`), every step of the class is a step of
  the queue or a stutter.

`ReceiverProofs`
- `ReceiverInOrder`: what is handed on is a prefix of the peer's stream, although
  positions go through 32-bit sequence numbers and a 32-bit counter that wrap.
- `ReceiverAccepts`: every byte between the first missing one and the announced
  edge is taken when it comes.
- `ReceiverAcknowledges`: while a byte waits for a missing one, the acknowledgment
  is the number of the first missing byte.
- `IInv` says that the reassembler is `Sound`: counter, slots and output are those
  of the true position of the stream, of which the code knows only the remainder.
  `UnwrapNear` is the arithmetic: a position less than half a turn from the
  true one is unwrapped at its distance from the counter, one turn later where
  that would be negative, so that a late segment lands beyond the window and
  nothing of it is stored. `SegmentTaken` joins this with what `ReceiverLemmas`
  says of `push_substring()`.

`ReceiverProofs`, the reassembler alone (`ReassemblerSpec`, with a stream `Logical` and a
capacity `Room` of its own)
- `ReassemblerSafe`: type, order, places, counting and the signalling of the end
  are invariants. None is inductive alone: the order of what is written out
  depends on the places of the stored bytes, and that all of it is written
  depends on the room left (`SlotsInPlace`), which needs that the buffer fits
  the capacity. `AInv` is their conjunction, in the words of `ReceiverLemmas`
  (`Assembles`), which has what each method does to it.
- `StoredInPlace`: the part of it about the bytes that wait.
- `ReassemblerKeeps`: no step forgets an accepted byte.

`SenderProofs`
- `SendsInOrder`: bytes are sent once and in order, FIN after the last.
- `KeepsOutstanding`: what is sent and not acknowledged is kept for
  retransmission, each segment in its place, whatever becomes of
  acknowledgments.
- `KeepsToWindow`: while acknowledgments come in order, nothing is sent beyond
  the announced window.
- `TimerRuns`: the timer runs whenever something is in flight, and its timeout is the
  initial one doubled once for each consecutive retransmission. `TInv` is its invariant; `Doubles` describes the doubling as a function, so that
  no induction over the exponent is needed outside `DoublesExists`.
- `IInv` says that the sender is `Good` (`SenderLemmas`): the stream holds the next part of the text
  and `next_seqno` counts what left it (`Queued`), and the segments in flight make
  up the positions between checkpoint and `next_seqno` without overlap (`Makes`).
  For the window it adds that acknowledgments under way are of what was sent, so
  that `unwrap` recovers their positions (`UnwrapsBack`), and that the known edge is the
  checkpoint plus the window (`Within`), so that the subtraction in `fill_window()`
  does not wrap around. `CutIntoPieces` and `NewSegmentsMake` are about the cutting
  into payloads, `MakesMore` and `MakesLess` about segments sent and acknowledged.

`NetworkLemmas` and `NetworkProofs`: two sockets, for every pair of texts and initial sequence numbers,
all capacities, payload sizes and timeouts, and any number of losses, repetitions,
delays and aborts.
- `NetworkEndToEnd`: what the application at one end has read and can read is a
  beginning of what the application at the other end writes.
- `NetworkForgotten`: what a sender has dropped as acknowledged is in its peer's
  stream.
- `NetworkFlowControl`: a sender is never further than the room of the peer and one
  number, the probe of a closed window, beyond what the peer's application has read.
- `NetworkCleanClose`: a connection that closed cleanly has sent all, the peer has taken
  all of it, and it has all of the peer's text; `NetworkNoLinger`: when it closes without
  lingering, the peer has nothing in flight any more. Both, like `NetworkForgotten`, are
  about ends at which no FIN overtook a byte (`overtaken`).
- `NetworkStates`: after the handshake a connection is in one of the official states
  or in `CLOSE_WAIT` with the linger flag up (`LateCloseWait`), unless a FIN overtook a
  byte.
- `NetworkInvariant`: the inductive invariant `IInv` they follow from. It is about each
  direction apart. `Link` says that the sender is `Good`, that every segment under way
  is one it can have `Said` (its payload is the part of the text at the position of
  its sequence number), that the receiver `Gets` a beginning of what was sent and no
  more, and that the acknowledgments under way (`Acked`) are of what the receiver has
  taken, each no later than the next in position and right edge (`Chain`). The last is
  what flow control needs: the sender knows an older window, so every window between
  that and the current one has to be followed. `Side` adds what a FIN that has come
  says about the bytes before it and what an end that will not linger knows (`Quits`);
  `World` has both sides, `Whole` counts the segments not handed over yet as under way,
  and `Settled` relates the flags `active` and `linger` to the two halves. No part is
  inductive alone: what a receiver takes depends on what the peer may have sent, what a
  sender drops on what the receiver took, and the network carries both.
- `NetworkLemmas` defines `Link` to `Settled` and has the lemmas about sending
  (`SentOut`), `segment_received()` (`SegmentDoes`) and the clean and the unclean close
  (`CleanShutdownDoes`, `UncleanDoes`), built from `SenderLemmas` and `ReceiverLemmas`.
  `NetworkProofs` has those about `write()`, `end_input_stream()` and `tick()`, then `IInv`, a
  lemma for each action of the network (`ReadIInv`, ...) and the theorems. Steps that
  many leaves of a proof use are left without a number: they are in the context of all
  that follow them.

`LinkProofs`
- `MapsAlwaysAgree`: the addresses that datagrams wait for are those asked for,
  and none of them is known; so the `erase(find())` of
  `_send_not_sent_datagrams()` never gets `end()`.
- `MappingsAlwaysFresh`: a mapping names the owner of its address and is not
  older than its timeout.
- `OnlyLossEverStrands`: datagrams wait only while a request or an answer is
  under way or after one was lost. Inductive with `IInv` and with the fact that
  requests are broadcast: the step that takes a request out of an inbox is the
  step that sends the answer, and the one that takes an answer out is the one
  that sends the waiting datagrams.
- `LateSendsAsk`: a datagram sent after the request has expired asks again.
- `IInv` says that every interface is `Good` (its fields have their types, `Agree`,
  `Fresh`) and that every frame under way is one a host can have sent; the last
  is needed because what is learned comes from the frames. `SendKeepsGood`,
  `ARPKeepsGood` and `TickKeepsGood` say that each method keeps an interface good.
- `LookupFindsLongest`: the loop over the routing table ends with a route of the
  longest prefix that covers the destination, for every table without bits beyond
  the prefixes, in every order. The loop invariant `BestSoFar` says the same of the
  routes seen so far; the loop is a state machine here because a fold is out of
  the provers' reach.

Only model-checked:
- liveness, which needs fairness and `ENABLED`;
- `FillIsLoop`, the packets and the parsers, which are about recursive definitions. The
  library's induction theorems cannot be instantiated by the provers; where a proof above
  needs induction (the count of bytes in flight, the doubled timeout, the chain of
  acknowledgments), it is made by hand for that one predicate, from the least number
  for which it fails;
- the programs (`StreamCopy`, `NetworkSimulator`) and the adapters (`AdapterSpec`), whose
  properties are about finite runs of fixed scripts or about several threads;
- `ImplementsLink` and `ImplementsPath`, whose mappings select from sequences.

## Not modelled

- Logging, `to_string()` and `summary()`, command lines and usage texts.
- The applications `webget`, `tcp_benchmark`, `tcp_ipv4`, `tcp_ip_ethernet`, `tcp_native`,
  `tun` and `udp_tcpdump`: they call the sockets and adapters modelled here and keep no
  state of their own. `tests/` and `doctests/` are used as statements about the code.
- Reference counting in `Buffer` and `FileDescriptor`, name resolution in `Address`, the
  opening of TUN/TAP devices and sockets: resources of the process, not of a protocol.
  What `read()`, `write()`, `poll()` and `shutdown()` do appears in the modules
  that call them.
- Signals: no program of the repository installs a handler, so `poll()` is not
  interrupted.
- Segments that overtake each other between two sockets: `TCPNetwork` loses, repeats
  and delays but keeps the order; `ReceiverSpec` and `SenderSpec` have every order at
  one end. With reordering at both ends the state space is out of TLC's reach.
- Data races: the two threads of a program share a socket pair and, in
  `TCPSpongeSocket`, an atomic flag; nothing else was found to be shared while both run.

`PROJECT.json` records every part and its status.
