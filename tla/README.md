# Verification of udpfwd

TLA+ models of the relays, of the frame-buffer pool and its frames, of the
start-up and of the packet and address formats of this repository, the TLC
configurations that check them on small instances, and theorems about
them that TLAPS checks for every instance.  File names below are relative to
`src/src/`.

    tlc -config wgcf_routing.cfg MCWgcfRelay        # check a run
    tlapm WgcfRelayProofs.tla                       # check the proofs of a module

## 1. Inventory

The program is one binary with two applets, each a single thread around epoll,
and a library under `veth/` for a virtual switch that is not wired up yet.

| component | state it keeps | operations |
|---|---|---|
| WireGuard relay (`wgcf/WgcfRelayWorker.cc`) | session table by client id, map from outbound descriptor to client id, the current epoll batch | `SetupSockets`; `RunWorker`: datagram from a client (session found or created), datagram from the server, pass over the table when epoll_wait is idle |
| UDP forwarder (`udpfwd/UdpForwardWorker.cc`) | session per configured target, map from descriptor to target, the current batch | `SetupSockets` (a loop over the targets); `RunWorker`: source to destination, destination to source |
| buffer pool (`veth/BufferPool.cc`) | ring of slots with status words, two atomic indexes | `ObtainBuffer`, `ReturnBuffer`, called by any thread |
| Ethernet frame (`veth/EtherFrame.*`) | the buffer it owns and a size | construct, move, `Clone`, destroy, header accessors |
| identifiers, headers, byte order (`veth/EndpointId.h`, `veth/EtherPacketStruct.h`, `platform/arch/Endian.h`, `wgcf/WireGuardPacketStruct.h`) | none | bit-field functions |
| start-up (`common/Main.cc`, `wgcf/WgcfRelay.cc`, `udpfwd/UdpForward.cpp`) | debug flag | applet and arguments, addresses, configuration file |
| addresses (`common/INetAddress*`, `common/INetSocketAddress*`, `common/SocketAddressUtils.h`) | none | parse, compare, convert to and from sockaddr |
| text and files (`support/text/*`, `platform/IoUtils.*`) | none | integer parsers, split, bounded read |
| switch interface (`veth/BaseSwitch.h`) | - | pure virtual, no implementation |
| log, assertions, time formatting, process utilities (`platform/*`) | - | output and system-call wrappers |

How they interact: `main` runs one applet; its start-up parses addresses into
targets and hands them to `SetupSockets` and `RunWorker`.  A worker shares
nothing with another thread, but everything with the kernel: its sockets fill
while it works, the clock moves or is set, every system call may fail.  The
buffer pool is the one component that is shared between threads.

What is hard, and therefore what the properties are about:

* **Relay.** The batch of epoll_wait is walked while handlers change the
  tables; three places (table, map, kernel) must agree about every session;
  a client moves while answers are in flight; anybody may send to an outbound
  port; expiry depends on unsigned differences of a clock that can be set and that
  wraps elsewhere than the difference does, on both directions, and on a moment
  without traffic.
* **Forwarder.** Sockets receive while the rest is still being set up; the map
  must be exact, because one unknown descriptor ends the process; answers of one
  target must not reach the source of another; no socket may starve.
* **Pool.** Plain pointers guarded by a status word; two indexes that are loaded
  separately and compared one at a time; at most n buffers in n slots.
* **Frames, headers, parsers, files.** Moved-from frames, sizes above the buffer,
  shift widths, empty and out-of-range numbers, short reads and truncation.

`PROJECT.json` lists the components with what is modelled of each and every
hazard at its line with the property that covers it.

## 2. Modules

    PortRelay            what a relay promises: stable ports, answers to the last address
      ^ refinement                 ^ refinement
    WgcfRelay            UdpForward
      ^ EXTENDS   ^ EXTENDS    ^ EXTENDS
    WgcfRelay-   WgcfRelay-   UdpForwardProofs
    Proofs       History (how long a session is idle)
      ^ EXTENDS    ^ EXTENDS
    WgcfRelayHistoryProofs

    BufferOwnership      what the pool promises: one owner at a time
      ^ refinement                 ^ EXTENDS
    BufferPool                   EtherFrame      frames, on top of that promise
      ^ EXTENDS    ^ EXTENDS       ^ EXTENDS
    BufferPool-  BufferPool-     EtherFrameProofs
    Proofs       Window (was a compare-and-swap fooled?)
      ^ EXTENDS    ^ EXTENDS
    BufferPoolWindowProofs

    OctetWords           integers as octets, Endian.h
      ^ EXTENDS
    SocketAddress        addresses and sockaddr
      ^ EXTENDS
    PacketFields         headers, identifiers, senders  <- EXTENDS  PacketFieldsProofs

    ParseNumber          integer parsers
      ^ EXTENDS
    Startup              command line and configuration file to targets
      ^ EXTENDS
    StartupProofs

`MC...` modules add only what an instance needs: symmetry and configurations of
targets.  Operators marked `Mutant:` are plausible bugs of the definition that
follows them; no specification uses them, they serve to test the properties.

### WgcfRelay

`sessions`, `fdMap` and `events` are `WgcfRelayContext::sessions`,
`fileDescriptorToSessionIdMap` and the rest of the batch; `port`, `rxq` and `now`
are the kernel's: the port of each open outbound descriptor, the datagrams that
wait in each socket, CLOCK_REALTIME in seconds.  `sent` is the datagram that the
last step put on the network, so that a property can speak of it.

A step of the worker is one return of epoll_wait, one pass over the table or one
iteration of the event loop; nothing else could observe a smaller one.
`EpollWaitReturns` takes every ready socket up to the capacity of 16 and leaves the
order inside the batch open.  `EpollWaitReturnsNone` is a return without events, with
every queue empty; `SweepSessions` is the pass that follows it (`Sweep`: report and
reset the counters, delete what has expired, close its socket).  Between the two
(`phase` is "idle") datagrams may arrive, and the pass may close a socket that holds
one.  The handlers are
`ReceiveFromNewClient`, `ReceiveFromNewClientFails`, `ReceiveFromKnownClient`,
`ReceiveFromServer`, and one action per early return of the loop.  A send may
succeed, fail with EAGAIN, or fail otherwise, because the code tells them apart.
`RunWorkerFails` is every `return -int(err)` of `RunWorker`.

Seconds have two moduli.  `CurrentTimeSeconds` divides a 64-bit count of nanoseconds
(`platform/Time.cpp:12-24`), so `now` wraps at `ClockModulus`, 2^64 / 10^9 rounded up;
the difference of two stamps at line 307 is modulo `TimeModulus`, 2^64 (`Elapsed`).
When the clock wraps a stamp from before shows an enormous age, as it does when the
clock is set back.

Abstracted: payloads, the lengths of datagrams (a datagram that is too short or
has no client id has the id `NoId`), address families, log lines.  Losing,
duplicating and reordering datagrams needs no action of its own: any peer may
send any datagram at any time, and one that is lost makes no step.

### WgcfRelayHistory

Adds to every session the seconds since it last relayed in each direction, which
the code can only estimate from its stamps, and the sets `txSteady` and `rxSteady` of
the sessions whose stamp in that direction was taken after the clock last jumped, that is,
was set or wrapped.  The properties are stated over these, not over the stamps, so
that an error in the arithmetic of the stamps is visible.  `SteadySessionsStay` and
`SweepIsComplete` speak of steady stamps, because the code is right for these
alone; `DeletedOnlyWhenIdle` makes no exception, and is violated.  A direction is used
when a datagram has left: one that `sendto` refused with EAGAIN does not renew the
age, as in the code it does not renew the stamp.  The variables read the steps of
WgcfRelay and restrict none.

### UdpForward

`sessions` (a sequence, by position in the configuration), `fdIndex` and `events`
are `UdpForwardContext` and the batch; `bound` and `rxq` are the kernel's.
`SetupTarget` is one iteration of the loop in `SetupSockets`.  Every error return
of both functions is `Fails`.  Addresses are compared as the code compares them.

### BufferPool

Every atomic load, store and compare-and-swap is a step, and so is every access
to the pointer of a slot, which is not atomic; `pc` is where a thread is in
`ObtainBuffer` or `ReturnBuffer`.  The weak compare-and-swap may fail without a
reason.  A spin loop is an action that waits for the status it needs.  `owned`
is what frames hold, any thread's; `heap` what `make_unique` may return.
`DeleteBuffer` is the move assignment of a frame, which frees the buffer of the
frame that is assigned to and does not return it to the pool.
Interleavings are sequentially consistent: the header of the module says why the
orders that the code asks for do not add behaviours that matter here.

`BufferOwnership` is the promise in one variable: a buffer that is out belongs to
one owner until it comes back.  The pool implements it, and `EtherFrame` is written
over it, so that frames and pool are composed without multiplying their states.

### BufferPoolWindow

Two history variables: has the index that a thread loaded been advanced since, and
has a compare-and-swap succeeded nevertheless (ABA)?  `bufferpool_window` shows
that the indexes lose their meaning then; the properties here say that nothing
else makes them lose it, and that no spin loop runs for ever before it.

### EtherFrame

A frame is its two members, `mData` and `mSize`; `content` is the octets of every
buffer and `text` what users have written through a frame, which no code stores.
A buffer that is obtained shows its last octets (from the ring) or zeros (from
`make_unique`).  The actions are the constructors (`Construct` with a buffer of the
pool, `ConstructFrom` with what the caller brings: a buffer and its octets, or null), both moves, `Clone`, `SetSize`,
writes through `data()` and the destructor.  What C++ leaves undefined is no step:
`data()` and `Clone` of a frame that was moved from, `Clone` of one whose size is
above the buffer.  Frames are used by one thread each; the threads meet in the pool.

### OctetWords, SocketAddress, PacketFields

`OctetWords` has unsigned integers as functions from places to octets, so that the
shifts and masks of `Endian.h` are exact at 16, 32 and 64 bits, and `kIsLittleEndian`,
which is what the build is for.  `Load` is what a machine makes of memory.
`SocketAddress` has the tagged union of `INetAddress`, its comparison and the two
conversions.  `PacketFields` is memory into which one datagram after another is
received; every accessor reads the same octets.  A step changes one octet, the
length or the family, so that an action property can say which octets a field
depends on, and which octets of an earlier datagram it must not depend on.

`SessionIsClientId` is stated for little-endian builds: `typeAndReserved` is not
converted, and a big-endian build would shift out the wrong octet
(`wgcf/WgcfRelayWorker.cc:101`).  The comment at `veth/EtherPacketStruct.h:46` says that
nobody builds for such machines.

### ParseNumber

A text is the integer it spells, nothing, or junk; the limits of the types are
constants.  `StrToL` and `StrToUL` are the C functions, with the clamp of the one and the
negation of the other.

### Startup

`phase` is where the process is between `main` and its end: choosing the applet,
`IsRegularFileExists`, `ReadAtMostOrFail`, parsing, `SetupSockets`, `RunWorker`.
`content` is how much of the file has been read, `line` how many of its lines the loop
of `RunUdpForwarder` has parsed, `targets` what is handed to `SetupSockets`.  `Read(n)` is one `read` that returns n bytes, any n that is there; a
call that ends with EINTR makes no step.  `ParseFile` is one iteration of the loop
over the lines (`SkipBlankLine`, `ParseLine`, `RejectLine`) or its end (`LinesEnd`).
Texts are what parsers make of them; ports are parsed by `ParseNumber`.  `Cut` says what is left
of a line when its end was not read.

Startup is not composed with the workers; what it hands on (`TypeOK`: valid
addresses, ports in range) is what `ConfigAssumption` of UdpForward takes for
granted.  A port 0 of the configuration stands there for the port the kernel picks.

### PortRelay

The promise of the repository's README in two variables: a table of address and
port per client and the last datagram sent.  `WgcfRelay` implements it with
client ids as clients; `UdpForward` with targets as clients.

## 3. Runs

| run | instance | result |
|---|---|---|
| `wgcf_routing` | 2 clients, 2 addresses, 2 descriptors, 2 ports, 2 datagrams per queue, the clock may be set | 603,919 states; the invariants, and PortRelay is implemented |
| `wgcf_expiry` | 2 clients, Timeout 1, a clock modulo 4 and differences modulo 8, so that the clock wraps | 254,525 states; expiry is exact for steady stamps, a quiet relay empties itself |
| `wgcf_half_idle` | 1 client | violated: one idle direction is enough to delete |
| `wgcf_clock_step` | 1 client, the clock may be set | violated: a session in use is deleted |
| `wgcf_busy` | 2 clients | violated: traffic of one keeps the other's dead session for ever |
| `bufferpool` | 3 threads, 4 buffers, ring of 4 | 609,944 states; no race, CHECK holds, BufferOwnership is implemented, the window is exact and spins end until a swap is fooled |
| `bufferpool_window` | 2 threads, 3 buffers, ring of 2 | violated: a full ring reports that it is empty |
| `udpfwd` | 2 targets, 4 descriptors, 3 peers | 55,154 states; the map is exact, answers stay with their target, no socket starves |
| `ether_frame` | 3 frames, 3 buffers of 2 octets, sizes up to 3 | 97,660 states; buffers and text are kept |
| `packet_fields` | 18 octets of memory, at most 3 of them not zero, lengths 31 and 32, three families, both byte orders | 11,856 states; fields are read where the wire has them |
| `startup` | files of up to 3 lines, limit of 9 characters, reads of up to 3, ports of 0 .. 15 | 280,655 states; all lines become targets, in order, or none does |
| `startup_usage` | the same | violated: the command lines that the usage prints are refused |

Why the bounds are enough to be interesting: two clients that compete for two
descriptors and two ports make every reuse of a descriptor or port by the other
client happen; two addresses make a client move; two waiting datagrams let a
socket stay ready after it was served.  `Timeout` 0 or 1 with a clock that wraps
after a few seconds brings expiry, the wrap of the clock and the unsigned difference
over that wrap within a few steps; differences wrap at twice the clock, so that the
two moduli differ as the code's do.  `CounterModulus` is 1 in the runs of the relay,
so that the packet counters do not multiply the states: they feed one line of the log and
nothing the properties speak of (a modulus of 2 takes `wgcf_routing` beyond
three million states).  The theorems hold for every modulus.  In the pool three threads on four slots allow two calls of one
kind to overlap one of the other across a wrap of the index, and laps occur.
Three frames let a clone, a moved-from frame and a frame on a used buffer exist
together; a size of 3 is above the buffer of 2.  A VLAN tag needs two octets that
are not zero, the third changes what stands beside it; 31 and 32 are the two
sides of the shortest datagram with a client id.
In `startup` a file of three lines is longer than
the limit, and loses at most the two characters before an end; the theorem
`TheFileIsServed` covers every other cut.  The ports include both ends of
the range, a negative one, an empty one, and ones above the limits whose prefixes
are valid.  Symmetry is used only in runs without liveness.  `udpfwd`, which checks
liveness, has the constraint `LowestDescriptors` instead: `socket` returns the lowest
free descriptor, so of the assignments of descriptors to sockets one is left; the
constraint speaks of set-up alone and cuts no step of the worker.

`MaxQueue`, `MaxElapsed` and `AgeCap` bound the model, not the program:
`MaxElapsed` stops time when a session is older than the timeout already, and
ages are counted only as far as the timeout distinguishes.  Deadlock is checked
everywhere but in the two runs of the pool: there threads really can wait for
ever, because after an index has lapped the other a thread may spin on a status
that no running call changes.  `SpinsEndUntilFooled` is what remains of it.

### Disagreements

* `wgcf_half_idle`: `README.md:36` promises deletion of *inactive* sessions; line 307
  of the worker joins the two directions with `||`, so a session that is idle in one
  direction only is deleted.
* `wgcf_clock_step`: the stamps are CLOCK_REALTIME and their difference is unsigned, so
  setting the clock, in either direction, deletes sessions in use.  The wrap of the
  nanoseconds (`platform/Time.cpp:15`) does the same, which is why `SteadySessionsStay`
  excepts both.
* `wgcf_busy`: the same line of the README; the pass runs only when 100 ms go by
  without a datagram for any session.
* `bufferpool_window`: the comments on `head` and `tail` (`veth/BufferPool.cc:33-34`).
  A thread that loads both indexes and then sleeps may swap its own index after the
  other has moved a full turn: ABA.  Safety of the buffers survives this (see the
  theorems); what the two indexes say does not, and the pool may call a full ring empty.
* `startup_usage`: `common/Main.cc:32`, `:57` and `README.md:60` show command lines with
  `-f` or `-r`.  Neither applet knows these options: they count as operands, and the
  number of operands is then wrong (`:47`, `:73`) or no applet is found (`:98`).

Two more were met in functions that nothing calls yet, and are theorems instead of
runs: `GetNetworkId` does not return the field that `veth/EndpointId.h:18-24` draws
(`NetworkIdOverlapsStreamId`), and `ParseUInt32` accepts negative numbers that
`strtoul` wraps into its range (`UnsignedParserWraps`).

## 4. Fairness

`WgcfRelay!FairSpec` assumes that the thread of the relay is scheduled
(`WF(Worker)`) and that time passes (`WF(Tick)`).  `UdpForward!FairSpec` assumes the
first alone.  Nothing is assumed of the network, of errors or of the clock being
set.  `QuietRelayForgetsAll` has the hypothesis that datagrams stop arriving;
`InactiveIsDeleted` has none and fails, which is the finding.  `NoSocketStarves` is
checked with two targets, where a batch can hold every socket; with more than 16 ready sockets the
order of the kernel's ready list decides, and this model leaves it open.

## 5. Proofs

The assumptions are the named `ASSUME`s of the modules: sentinels differ from the
values they stand beside, moduli and bounds are positive, the server's address is
not a stranger's, and the threads of the pool are finitely many (`ThreadAssumption`: the
proofs count them).  TLC evaluates them in every run.

**WgcfRelayProofs**, for any sets of clients, addresses, descriptors and ports:

* `Invariance`: `IInv == TypeOK /\ SessionsAndSocketsAgree /\ EventsAreLive` is
  inductive together with `PassIsAlone` (between a return without events and the pass
  the batch is empty).  None of them is inductive alone: taking `Tail` of a queue is well
  typed only because events are live; events stay live because the pass closes
  sockets only when no event is pending; closing the right sockets needs the
  bijection between sessions and descriptors; and a new session can overwrite
  nothing because a closed descriptor has no entry.
* `TypeCorrect`, `SocketsAreOwned`, `BatchStaysLive` follow.
* `ClientsHearOnlyTheServer` is an action property: the only step that sends to a
  client is `ReceiveFromServer`.  It finds the session through the descriptor map; the
  invariant says that this session has the very socket the datagram came from, and
  has recorded the port of it.
* `RelayImplementsPortRelay`: initial states map to initial states, and each action
  maps to `Hear`, `Answer`, `Forget` or a stutter.  `Hear` needs that no two open
  sockets share a port; `Answer` that the port of the descriptor is the one its
  session recorded.

**WgcfRelayHistoryProofs**, for any timeout, any clients, any modulus of the clock up to that
of the difference, and a clock
that may be set or not:

* `StampsFollow` is the lemma about the handlers: a stamp becomes `now` exactly when a
  datagram of its session leaves in its direction, and a report of lost packets leaves
  both stamps alone.
* `HistoryInvariance`: besides `IInv`, sessions exist only while the worker runs, and ages
  are numbers.
* `StampsTellAges` is inductive: a steady stamp is not ahead of the clock and lies exactly
  as far behind it as its direction is old.  A tick that does not wrap adds a second to
  both; a jump leaves no stamp steady.
* `SteadySessionsAreKept` (`SteadySessionsStay`) follows with `OnlyTheSweepDeletes`, which
  says that no other step deletes; `ExpiredSessionsGo` (`SweepIsComplete`) follows from
  what the pass keeps.  Neither has a hypothesis about the clock.

**UdpForwardProofs**, for any list of targets, any addresses and bounds:

* `Invariance`: `IInv == TypeOK /\ SocketsAgree` is inductive.  `TypeOK` needs the other:
  a handler's session exists only because every open descriptor is mapped to a target
  that has been set up.  `SocketsAgree` is kept by `SetupTarget` because a descriptor
  that is closed has no entry and `bind` refuses an address in use.
* `TypeCorrect`, `SocketsAreMapped` follow; `SourcesHearOnlyTheirDestination` is an action
  property: of the two handlers that send, one sends to the destination, and the
  other compares the sender.
* `ForwarderImplementsPortRelay`: `ForwardToDestination` maps to `Hear` with the
  configured outbound address, which no other target can hold because no two open
  sockets are bound to one address; `ForwardToSource` to `Answer`; `Fails` to `Forget`.

**BufferPoolProofs**, for any threads, buffers and ring size above 1:

* `IInv == TypeOK /\ ClaimInv /\ SlotInv /\ HandInv`.  `ClaimInv`: a slot whose status is
  one of the two in-use values has exactly one thread between claim and release, and
  the status says which kind.  `SlotInv`: whether the slot's pointer is null follows
  from status and that thread's step.  `HandInv`: what a thread holds follows from its
  `pc`.  The argument never mentions `head` and `tail`: the status word alone makes the
  pointers safe, which is why the laps of section 3 do no harm to ownership.
* `TypeCorrect`, `CheckNeverFires`, `PointersDoNotRace`, `BuffersHaveOneOwner` follow.
* `PoolImplementsOwnership`: the step that takes a buffer out of a slot or from the
  heap maps to `Obtain`, the call of `ReturnBuffer` and the deletion to `Return`, all others
  to stutters; `Obtain` needs the invariant, because a slot must not hold a buffer that
  is out.
* `CountsAlwaysAgree`: `RingBalances`, a count over the whole ring, is inductive.  Every
  thread that has advanced `tail` is going to make a slot available, every one that has
  advanced `head` to make one empty; buffers stored, plus writers, minus readers, is the
  distance of the indexes up to whole laps.  `FS_AddElement` and its like do the counting: a
  step moves one thread or one slot from one of the counted sets to another.  The
  theorem holds through laps and fooled swaps.

**BufferPoolWindowProofs**: `ReservationsAreSound`.  `WInv`: until a swap was fooled,
a thread whose loaded index has not been advanced finds it where it was, and after its
check the ring is still not empty (or not full), because the other index, which may
have moved, moves only into room (or over a buffer) and cannot reach the first.
`SlotsBalance` counts as `RingBalances` does, but for each slot: its writers on their way, plus
one if it holds a buffer, minus its readers on their way, is one between `head` and
`tail` and zero elsewhere.  `IndexesMeanWhatTheySay` (`WindowIsExactUntilFooled`) reads it where no
call is running; `SpinsEnd` (`SpinsEndUntilFooled`) where a thread waits for a slot: were
nobody about to change the status, the count would be wrong.

**EtherFrameProofs**, for any frames, buffers and sizes: the conjunction of `TypeOK`,
`OwnedByFrames` and `FramesKeepTheirText` is inductive, one lemma per operation.
`FramesKeepTheirText` needs `OwnedByFrames`: a write through one frame leaves the others'
text alone only because no two frames hold one buffer, and a buffer that is
obtained may change only because no live frame holds it.

**PacketFieldsProofs**: the swaps reverse every word of their width
(`SwapEndian16Reverses`, `SwapEndian32Reverses`, `SwapEndian64Reverses`); from this, on either kind of machine,
`SwapsAreRight` and `FieldsAreRead`; then the action properties `SessionsAreClients`,
`EndpointsAreApart`, `SendersAreToldApart` and the round trip `AddressesComeBack`.  They hold
for all octets, which the run samples.  `IdentifiersAreUnique` says of any two addresses and
VLAN ids, and not only of those one step apart, that their identifiers differ.  The
invariant underneath is `MemoryOK`: the memory is octets.

**StartupProofs**, for any command lines, files, limits and sizes of reads:

* `TypeCorrect`: what `SetupSockets` gets are targets, whatever was left of a cut line.
* `TheFileIsServed`: `Served(line)` is part of the invariant, the targets so far come
  from the first `line` lines in order, none left out, and say what these say unless
  the last was cut.  `LinesAddUp` (every line makes the file longer) is why a loop that has used
  up what was read has seen all lines of a file below the limit, and why only the last line
  can be cut; the end of the reads is why what was read is the file or the limit.
* What each integer parser returns for every text, at every width:
  the signed parsers and `ParseUInt16` are exact (`SignedParsersAreExact`, on which
  `TheFileIsServed` rests); the 64-bit ones saturate (`WideParserSaturates`), `ParseUInt32`
  wraps (`UnsignedParserWraps`).

With this every invariant and every action property that a passing run checks has a
theorem.  Only model-checked: `QuietRelayForgetsAll` and `NoSocketStarves`, which are liveness
under fairness and beyond the prover; that an instance meets the assumptions; and the
five violations of section 3, which are counterexamples.

The prover has no induction over data that takes a predicate.  The models avoid recursion
where a theorem needs them: sizes and written lines of a file are cardinalities, and the
loops of the code are steps, so that induction is over the behaviour.

## 6. Not modelled

The mapping of IPv4 addresses into IPv6 by dual-stack sockets, and with it the
comparison of a mapped sender with an IPv4 destination
(`udpfwd/UdpForwardWorker.cc:185`).  Calls that C++ leaves undefined: they would make
every state possible.  `ParseFloat`, `ParseDouble`, `SplitString`, `ReadFully`, which nothing
calls; the WireGuard messages beyond their common header, which nothing reads.
Left out for good: logging and formatting, calendar time, process utilities, the
switch interface that has no implementation, the Windows branch of ErrnoRestorer.
Memory orders weaker than sequential consistency are outside TLA+'s usual reach
and are argued in a comment instead.

## 7. Plan

Done: PortRelay, WgcfRelay, WgcfRelayHistory, UdpForward, BufferOwnership, BufferPool,
BufferPoolWindow, EtherFrame, OctetWords, SocketAddress, PacketFields, ParseNumber, Startup,
and the proofs of section 5.  Next, in this order:

1. Dual-stack sockets: a kernel that maps IPv4 senders, below UdpForward.
2. Proofs: what PortRelay and BufferOwnership imply, so that it holds of their
   implementations through the refinements.
