# Verification of the PCAP distributer and merger

This directory holds a TLA+ model of `pcapdistributer` and `pcapmerger`, the
TLC configurations that check it on small instances, and TLAPS proofs about it.
Paths below are relative to the repository.

## The system

`pcapdistributer` captures packets from an interface or from the PCAP files of a
directory and sends every packet to each connected client. `pcapmerger` connects
to several distributers and writes all packets it receives to one PCAP output.
Both are built on *session handling* (`src/pcapsession/pcapsession.c`): a fixed
table of sessions, a runner thread per session and one supervision thread.

| Component | State | Operations | Hard parts |
|---|---|---|---|
| session table (`pcapsession.c`, `pcapsession.h`) | `session_list[]`: state, thread, fd, pcap handle and dumper, mutex | `get_new`, `add`, `change_state` | claimed by two threads without a lock; state written by everyone |
| supervision (`pcapsession.c`) | `session_handling_state`, the loop's position | visit, poll, transition, start, stop (cancel, join, stopper), flush, end | every read is stale when used; cancel against mutexes; shutdown must end |
| merger session (`pcapsession_merger.c`) | dumper, `merge_mutex` | open, run, stop, packet handler | closed while others write to it |
| client session (`pcapsession_client.c`) | socket, handle | open, run (socket, connect, open, loop), stop | descriptor closed twice, or never |
| server session (`pcapsession_server.c`, `tcp.c`) | listening socket | open, run, stop, accept | a rejected client ends it; restart |
| client connection (`pcapsession_clientconn.c`) | `clientconnlist[]`, dumper | open (on the server's thread), run, stop, packet handler (on the capture thread) | list and slot are reused under the handler |
| live and file capture (`pcapsession_livecapture.c`, `pcapsession_filecapture.c`) | handle, fd, iterations | open, run, stop | supervised descriptor goes stale |
| programs (`pcapmerger.cpp`, `pcapdistributer.cpp`) | main's position, `shutdown_ordered` | init, open sessions, join, signal handler | signals at any time |
| monitors (`monitor.h`) | counters per session | open, increment, handle, close | updated and freed without a lock |
| GTP (`gtpv1*.c`, `pcapsession_untunnel.c`) | none | header search, untunnelling, information element tables | unsigned lengths |
| filters (`decodegtp`, `gtpimsieua`, `usectstamp`, `chunkpcapfile`, `pcapfilestats`, `gtpaddr`, `gtpuntunnel`) | `imsi_map[]` and counters | one pass over a capture | element walk, table at its limit |
| configuration (`config.c`, `address_list_from_arguments`) | the objects of the file, `host_values[]`, `port_values[]`, `servers[]` | get one or several properties, make addresses | two passes that must agree; -1 as a count |
| logging, licence check, examples | strings | output | none for a model checker |

Components interact through the table (states and fields written and read by
main, the supervision thread and the runners), through function pointers (the
supervision thread calls a session's stopper, libpcap calls the packet handlers
on a runner's thread, `poll_server_socket` calls back into the client connection
open), and through descriptors, whose numbers the kernel reuses.

What makes it correct, in short: a session has at most one thread; a stop that
is begun is finished; a session that claims to be RUNNING is served; a mutex is
always released; a dumper outlives its writers; a descriptor is closed once, by
its owner; a failed session is restarted and a lost client removed; a shutdown
ends the process. For the filters: the subscriber printed for a response is the one
that made the request; a table at its limit loses nothing it need not lose; a walk
over a message ends; a header is found only where it was captured; what is left of
an untunnelled packet is the tunnelled one; files and time stamps stay within their
bounds. For the monitors: nothing is counted twice or lost but by a race, and an
output that went idle is flushed.

## Modules

    SessionTable -> Supervision -> MergerSession -> ClientSession -> PcapMerger
                        |          (MCPcapMerger, PcapMergerProofs, PcapMergerLifecycleProofs)
                        +-> ServerSession -> ClientConnSession -> CaptureSession
                                              -> PcapDistributer
                                   (MCPcapDistributer, PcapDistributerProofs)

    SessionLifecycle  <= PcapMerger     (implemented by it)
                      -> Monitor        (extended by it; MonitorProofs)
                      -> OpeningLifecycle  <= PcapDistributer

    GtpElements -> DecodeGtp ---------------------+
                -> GtpImsiEua (GtpImsiEuaProofs) -+
    GtpPacket (GtpFilterProofs) ------------------+
    UsecTstamp -----------------------------------+-> FilterPrograms (FilterProgramsProofs)
    ChunkPcapFile --------------------------------+
    ServerConfig (ServerConfigProofs) ------------+

An arrow leads to the module that extends, `<=` away from the module that implements; the two program modules compose the
kinds of session their program uses, FilterPrograms the sequential programs.

* **SessionLifecycle**: the abstract specification. A slot is unused, opening,
  waiting, active or stopping; a session gets its worker only while active and
  loses it only in a stop; a slot is handed out, and a session started again, only
  after a complete stop. PcapMerger implements it under the mapping `SlotPhase`
  (a session is stopping while the supervision thread is inside
  `pcapsession_stop` for it, whatever its state says), with fairness:
  `FollowsLifecycle`, `LifecycleProgress`.
* **OpeningLifecycle**: the same for a program that opens sessions while the
  supervision thread is at work, as PcapDistributer does. A slot that is handed out
  is visited already: its session may be told to stop, and be stopped, before it is
  added, and `pcapsession_handling_add` comes over whatever it has become. Still one
  slot is opened at a time, and nothing is started before it is added.
* **SessionTable**: `state[i]`, `thread[i]` and `ses[i]` are the fields of
  `session_list[i]`; `tpc`, `tslot` and `tcancel` are the session threads (where
  they are, their session, a pending `pthread_cancel`); `fdstat` and `fdowner`
  are the descriptors. The runner and stopper pointers are `ses[i].kind`. A pcap
  handle or dumper is the descriptor inside it, `NoFd` when NULL.
* **Supervision**: the supervision thread. Its control points are the places in
  `pcapsession_supervision_run`, `pcapsession_transition_session`,
  `pcapsession_start` and `pcapsession_stop` between which another thread can make
  a difference; each action is one such stretch. At "stopper" the stopper of the
  session's kind is called, defined in the module of that kind.
* **MergerSession, ClientSession, ServerSession, ClientConnSession,
  CaptureSession**: what open fills in, the steps of the runner, the stopper and the
  packet handler of each kind.
* **PcapMerger, PcapDistributer**: main, the signal handler, peers that go away,
  and the composition. Their properties are stated here.
* **MCPcapMerger, MCPcapDistributer**: the same specifications with counters that
  bound what the *environment* does (failures, connections, hang-ups, signals). The
  steps of the program are never bounded or replaced.
* **GtpElements**: the table of information elements (how long each is, zero for a
  type without an entry) and `imsi2str`, which prints 8 octets whatever the length of the
  IMSI: every low half, as one or two decimal digits, and the high halves that are digits.
* **GtpImsiEua**: the filter `gtpimsieua`. `imsi_map`, `imsi_time` and `imsi_array`
  are its table; `msg`, `offset`, `elem` and `imsistr` are the local state of
  `decode_gtp_packet`, one iteration of whose loop is an action. The element at
  `offset` is chosen as the walk reaches it, and is the same one when the walk does
  not advance. A string of 16 characters and more is written over the stack (the filter
  dies, or goes on: `OverrunImsi`, `ReadImsi`), is copied into its row of `imsi_array` and
  the next (`Copied`), and printed through to the next end of a string (`StringAt`).
  TEID 0 marks a free entry, in the model as in the code, so the
  properties exclude it. `carried`, `heard`, `asked`, `owed`, `waiting` and `answer`
  are history the properties speak of; no guard of the filter reads them.
* **Monitor**: `monitor.h` in pcapmerger. Sessions come and go by the actions of
  SessionLifecycle, each conjoined with what the code does to monitors, dumper and
  `merge_mutex` at that point; an increment is a read and a write, an output a
  print and a clear. A runner that gives up is seen as the stop that follows. One
  counter stands for the seven, which are treated alike, `monitor_increment_gtp`'s
  included. `monitor_last_output_time` exists once per source file, as the
  static variable of a header does. `uncounted`, `torn` and `idle` are history.
* **GtpPacket**: `gtpv1_get_header`, `pcapsession_untunnel_packet` and the packet
  handlers of `gtpuntunnel` and `gtpaddr`. A packet is the header fields the code
  reads and the number of octets captured; octets are named by layer and place, so
  that what untunnelling moves can be compared with what it should leave. Lengths
  are unsigned (`% UINT_RANGE`); what is read beyond the capture is arbitrary, the
  addresses of the tunnelled packet included. `ip_hl` is what the packet says, 0 to 15.
* **DecodeGtp**: `decodegtp`'s walk over a control message, and the column each value
  comes to stand in.
* **UsecTstamp, ChunkPcapFile**: the arithmetic of `usectstamp` and `chunkpcapfile`. The
  header of a packet in memory, which `chunkpcapfile` counts, has 24 octets on x86_64, for
  which the repository is built (`maven/distributor-merger-rpm/pom.xml:69`). It has 16 with
  32 bits, where a file could outgrow its maximum by its own header.
* **ServerConfig**: `pcapmerger` from its configuration file to its list of
  servers. A value is the characters of its JSON text, in quotes or not, of which
  `get_property` and `get_properties` leave out the first and the last; a port is what
  `atoi` makes of the rest.
* **FilterPrograms**: the six for TLC, one program in each behaviour, the inputs
  they are given, and bounds on the capture `gtpimsieua` reads.
* **PcapMergerProofs, PcapMergerLifecycleProofs, PcapDistributerProofs, MonitorProofs,
  GtpImsiEuaProofs, GtpFilterProofs, ServerConfigProofs, FilterProgramsProofs**: the
  TLAPS proofs. GtpFilterProofs is about GtpPacket and DecodeGtp, FilterProgramsProofs
  about UsecTstamp, ChunkPcapFile, `imsi2str` and the composition of all six.

How the code is abstracted:

* Every action is one access, or one run of accesses nobody can tell apart, to
  shared state by one thread. The read and the later write of a check are separate
  actions wherever another thread can act in between (`get_new`'s scan and claim,
  the switch of a transition and its change of state, the poll and the drop of a
  client).
* Undefined behaviour is a choice: writing to a closed dumper may crash or go well
  (`HandlerDumpsFreedFile`, `DumpsFreedFile`); a NULL dumper or handle crashes;
  joining an uninitialised thread id may return or crash.
* Packets carry no data. Whether a packet arrives, and whether an operation of
  libpcap or the kernel fails, is nondeterministic. Descriptors 0 to 2 are never
  handed out and `accept` fails only without a listening socket or a free
  descriptor.
* `poll` with POLLERR and POLLHUP (`iotests_fd_open`) is modelled by what it does:
  it also reports a descriptor that is closed, or a socket not yet connected. Since
  the kernel hands out the lowest free number, a closed descriptor can become
  another session's: that is in the model too.
* A cancellation acts only at cancellation points. Waiting for a mutex is none.
  Whether `pcap_dump` is one depends on whether the stdio buffer is full:
  `DumpIsCancellationPoint` chooses.

## Runs

`tlc -config X.cfg M` for each. Deadlock is checked in every passing run of the two
programs in which a dump is no cancellation point: main, the supervision thread and the
runners never all wait for each other there. `dist_live`, where it is one, does not check
it: the mutex that a cancelled thread keeps does stop the program, which is what
`merger_cancelled_dump` is about. `filter_programs` does not check it either, as a capture
file ends and a program exits.

| Run | Properties | Result |
|---|---|---|
| merger_two_clients | TypeOK, ThreadsMatchSlots, StopsAreCarriedThrough, RunningIsServed, MutexHoldersDump, FollowsLifecycle | holds. The merger with two client sessions and one failure anywhere: no session ever has two threads, every stop is finished, a RUNNING session is served, a held mutex is held by a thread inside pcap_dump, and the program implements SessionLifecycle. |
| merger_liveness | SessionInv, ShutdownTerminates, ClientsRestart, LifecycleProgress | holds. With fair scheduling an ordered shutdown ends pcapmerger, every client session that terminates is given a new thread, and every stop and every pending start is completed (SessionLifecycle's fairness), however often peers fail; the proofs' inductive invariant holds on the way. |
| dist_live | ThreadsMatchSlots, StopsAreCarriedThrough, RunningIsServed, MutexHoldersDump, ListedClientsOpen, SessionInv, FollowsLifecycle | holds. The distributer on an interface that may go down, with a client that connects and leaves at any time, a signal at any time and dumps that may be cancelled in their write: threads, stops and served sessions are as in the merger, a mutex is held by the thread that dumps or was left locked by one cancelled there, a listed client is one whose dump is open, and the program implements OpeningLifecycle. Deadlock is not checked, as a mutex left locked does stop the program (merger_cancelled_dump). |
| dist_files | RunningIsServed, PassesBounded | holds. File capture with one thread fewer than sessions, so that pthread_create fails: the session is served while RUNNING and makes no more passes over its directory than configured, however it is terminated and restarted. |
| dist_client_leaves | LostClientsRemoved | holds. A client that goes away gives up its slot, assuming only that every thread is scheduled. |
| monitors | TypeOK, CountsExact, RateDivisorPositive, IdleOutputFlushed, MonitorsOwned | holds. Two clients count packets into their own monitors and the merger's while the supervision thread prints, clears and frees them: counts are exact unless an output overlaps an increment, no rate is divided by zero, an idle output is flushed, and a monitor lives as long as its session. |
| filter_programs | ProgramsTypeOK, HeaderCapturedAfterIp, UntunnelMatchesLayers, AddressChangesBack, ColumnsAligned, AnswersWereRequested, AnsweredOnce, FreshRequestsKept, StampsConsecutive, ChunkWithinMax, ClosesOpenFile, ServersAreEntries, ServersCopiedInOrder | holds. The sequential programs, one per behaviour: the GTP header search and untunnelling on packets cut at every length, gtpaddr, decodegtp's columns, gtpimsieua's answers (the IMSI of a request with that TEID as long as IMSIs fit into their rows, once per request, and none lost that fits into the table), usectstamp's carry, chunkpcapfile's file sizes, and pcapmerger's list of servers for every small configuration file. |
| merger_cancelled_dump | ShutdownTerminates | violation. A client thread cancelled in the write of pcap_dump keeps merge_mutex and pcap_mutex, and the shutdown never ends. |
| dist_double_claim | ThreadsMatchSlots | violation. main and the server thread can claim the same slot, since get_new checks and claims without a lock. |
| dist_server_restart | ServerRestarts | violation. A server session that terminates, as it does when one client is rejected, is restarted without its listening socket and never accepts again. |
| dist_file_shutdown | ShutdownTerminates | violation. A runner that sets RUNNING over ABORTING, together with a stale supervised descriptor, keeps the distributer from ever shutting down. |
| usec_millisecond | MillisecondsApart | violation. usectstamp sets the packets one microsecond apart, not one millisecond. |

The violations are disagreements between the code and its own comments; each is
described, with the line quoted, under `findings` in `PROJECT.json`.

### Stated, and not satisfied

The modules state some properties the code gives no protection for. TLC finds a
counterexample to each, in the module named or with the bounds of its runs; they document
hazards and have no run of their own:

* `DumperOutlivesWriters` (PcapMerger): `pcapsession_merger_stop` closes the dumper
  without `pcap_mutex`, while a client thread may be inside `pcap_dump` on it.
* `DumperOutlivesWriters` (PcapDistributer): the same for a client's dumper and the
  capture thread.
* `ConnectedClientsListed` (PcapDistributer): the capture thread finds the descriptor of a
  client lost and takes its slot off `clientconnlist` after another client has got the slot;
  that client is connected and sent nothing (`pcapsession_clientconn.c:231` says "Iterate
  over each client and send the packet to each one"). It takes a second connection.
* `ClosesOwnDescriptors`: `pcapsession_client_stop` closes `fd` by number after
  `pcap_close` closed it; the number may belong to another session by then.
* `ClientDescriptorsKept`: the socket of a connection that failed, or that the peer
  hung up before it was opened as a capture, is forgotten without being closed.
* `SignalEndsProcess`: a signal before the supervision thread's first step is
  overwritten when it sets RUNNING, and `shutdown_ordered` keeps later ones from
  acting. `ShutdownTerminates`, which starts after that step, does hold.
* `CaptureRestarts`: the stopper of a live capture leaves the closed descriptor
  supervised, so that supervision turns every START into TERMINATE.
* `OpenedWithOverallTime` (Monitor): a monitor is opened with its source file's copy
  of `monitor_last_output_time`, which is never updated after the first session, so
  the first rates of a restarted session are computed over a time it did not run
  (`monitor.h:111` says "the overall last output time").
* `OnlyUserPacketsUntunnelled` (GtpPacket): `pcapsession_untunnel_packet` does not look
  at the message type; control messages lose their headers too.
* `HeaderCaptured` (GtpPacket): a capture that ends inside the IP header makes the unsigned
  `length - offset` wrap around, and `gtpv1_get_header` returns a header that was not
  captured. `HeaderCapturedAfterIp` is the same for captures that hold the IP header.
* `WalkWithinCapture` (DecodeGtp): the walk reads elements beyond the capture, since its
  offset counts from the GTP header and is compared with the length of the whole packet.
* `AlwaysAligned` (DecodeGtp): the value that shows an earlier column to be empty is
  itself printed before that column's comma.
* `ServersArePaired` (ServerConfig): an entry without a host and another without a
  port give equal counts, and the host of one is paired with the port of the other.
* `EmptyFileExits` (ServerConfig): for a file that names no server `get_properties` returns
  -1, which `pcapmerger`'s loop takes for the largest unsigned number.
* `NumbersAreRead` (ServerConfig): the first and the last character of a value are taken
  for quotes, so that a number loses its first and last digit.
* `AnswersAlwaysRequested` (GtpImsiEua): an IMSI whose string has 16 characters fills its
  row of `imsi_array` without an end and is printed with what the next row holds.
  `AnswersWereRequested` is the same for the IMSIs that fit.
* `FillersLeftOut` (GtpImsiEua): `imsi2str` looks for fillers (`gtpv1_imsi.h:48`: "Check for
  fillers") in the high halves of the octets only; an IMSI of 14 digits is printed with 15
  at its end.
* `WalkAlwaysEnds` (GtpImsiEua, under `FairImsiSpec`): an element of a type without an entry
  in the table may have no length, and the loop of `decode_gtp_packet` then reads it again
  for ever; the capture that ends before it is all that helps.

Noticed on the way, without a property: `usectstamp.c:55` tests `pcap_handle`
after opening `pcap_dumper`; `config.h:128` says a property that is not found is set
to null where `get_property` leaves the buffer alone; the `memmove` of untunnelling
counts the Ethernet header in its length although it starts behind it, so it reads an
Ethernet header's worth of octets beyond the capture (they land behind the new end).

### Bounds

* Merger runs use two or three slots and as many threads: one merger and one or
  two clients, the smallest table in which sessions compete for the mutexes and for
  descriptor numbers. There is a slot for every session, as there are 128 slots and
  at most 64 servers (`ServersAssumption`, and `ServersAreEntries` in ServerConfig).
* Distributer runs use three slots (server, capture, one client), or two where the
  table is to be full, and one connection; descriptor numbers are reused
  within it, as sockets and dumpers are closed.
  `dist_files` has one thread fewer than sessions, so that `pthread_create` fails.
* `TransitionIntervals` is 0 or 1 instead of 10: at 0 a start times out at the next
  visit, at 1 it may also be waited for; more only repeats the wait.
* `MaxFd` leaves one descriptor per session (plus one where reuse matters). Leaked
  descriptors soon exhaust it, as they exhaust the real limit in the end.
* `Iterations` is 1 or 2 and `FileCount` 1, so that there is a first, a next and a
  last pass.
* `monitors`: a merger and two clients, two packets (two increments can meet), one
  stop (a monitor is freed and opened again), an output interval of two seconds and
  five seconds: an output that is due, one that is not, and enough visits for an
  idle output to be noticed as late as `IdleOutputFlushed` allows.
* `filter_programs`: packets with and without tag, IP options and GTP options, cut
  after every number of octets, against `UINT_RANGE` = 1000, which is beyond twice
  the longest packet as 2^32 is; control messages with every sequence of the four
  elements that are printed and three that are not; six packets across the end of a
  second; chunks with room for the two packets that the real sizes have room for;
  configuration files of one or two objects and up to three servers each, some without a
  host or a port, ports in quotes and a number without, with a table of three, so that it can be exceeded, and with host names of which one is unknown to
  the resolver. For `gtpimsieua` a table of two entries, three messages with three TEIDs
  between them, one more than fits, and two seconds with a timeout of one, so that entries
  fill the table, expire, are taken over and are answered late. Two TEIDs besides 0
  and two IMSIs (or none) tell subscribers apart: one of 15 digits, which fits its row, and
  one of 14, which is printed with 16 characters. The element types are the three the
  filter looks at and one without an entry in the table; lengths include an address
  that is absent, one that is present, and more than was captured.

### Fairness

`Scheduling` in PcapDistributer and `WF` on each thread in PcapMerger say that the
operating system runs every thread that can run. A runner that waits for a peer
(connect, the packet loop, accept) is not obliged to get an answer. Strong
fairness is assumed in three places: for a pending cancellation, as the thread
comes back to a cancellation point again and again; for a mutex that is free again
and again; and for the end of a file. Signals, hang-ups and connections have none.
From these `LifecycleProgress` derives the fairness of SessionLifecycle.
`FairImsiSpec` in GtpImsiEua, a sequential program, makes the walk over a message weakly
fair; nothing obliges another packet to arrive. The properties of `filter_programs` are
invariants and need no fairness.

## Proofs

`PcapMergerProofs` proves, for every number of slots, threads, descriptors and
servers (`TableAssumption`, `ServersAssumption`: they are naturals, the tables not
empty, and fewer servers than slots), that PcapMerger satisfies

* `SlotInvariant`: `Spec => []SlotInv`, the inductive invariant;
* `TypeCorrect`: `Spec => []TypeOK`;
* `OneThreadPerSession`: `Spec => []ThreadsMatchSlots`;
* `StopsComplete`: `Spec => []StopsAreCarriedThrough`.

Neither `ThreadsMatchSlots` nor `StopsAreCarriedThrough` is inductive. That a stop
clears the thread and reaches STOPPED or START depends on no one else writing the
state in the meantime: the runner is joined before the stopper is called (so
`thread[si] = NoThread` at the later points), main does not touch a slot the
supervision thread is in (`MainOwnsSlot`, `SupervisorOwnsSlot`), and the stopper
called is one of this program's two (`SlotKinds`). `SlotInv` is the conjunction of
these with the two properties and types. The proof goes by actor:
`ThreadEffectPreserves` says what any step of a runner may change and that this
preserves the invariant, `MergerThreadEffect` and `ClientThreadEffect` show that
the runners' steps are of that form; then one lemma each for the moves, the
transitions, the threads' life cycle and the stoppers of the supervision thread,
one for main and one for the environment.

`PcapMergerLifecycleProofs` goes on from `SlotInv`, under the same assumptions:

* `ServiceInvariant`: `Spec => []ServiceInv`, and from it
  `SessionsServed`: `Spec => []RunningIsServed`;
* `MutexesReleased`: `Spec => []MutexHoldersDump`;
* `SessionInvariant`: `Spec => []SessionInv`, all of it together: `SlotInv`, `ServiceInv`, `MutexInv` and `PhaseInv`;
* `LifecycleRefined`: `Spec => FollowsLifecycle`, the refinement of SessionLifecycle.

A RUNNING session loses its runner in one of three ways: the runner ends and orders
TERMINATE first, it is cancelled, or it was a merger's and is done. `ServiceInv` says
that a cancellation is pending only while the supervision thread joins that very
thread, whose session is TERMINATING or ABORTING. `MutexInv` adds to
`MutexHoldersDump` that the two mutexes are taken and released by the same thread. Neither
assumes that dumps are not cancelled: a thread cancelled in the write of a dump leaves its
mutexes locked for ever, their holder is `Orphaned`, and that is the one other way in which
one stays locked. What comes of it `merger_cancelled_dump` shows. For the refinement, `PhaseInv` says where a session can be
STOPPED: only in main's hands or at the end of its stop, so that a phase is left
only by the step of SessionLifecycle that leaves it. Each action is then shown to be
a stutter or one of its actions, with `SlotPhase` unfolded for the one slot it touches.

`PcapDistributerProofs` proves, for every size of the tables, live and file captures,
any number of files and passes, and under `~ClientsConnectDuringOpen`:

* `SlotInvariant` (`[]SlotInv`), and from it `TypeCorrect`, `OneThreadPerSession`
  (`[]ThreadsMatchSlots`) and `StopsComplete` (`[]StopsAreCarriedThrough`);
* `ServiceInvariant` (`[]ServiceInv`), and from it `SessionsServed`
  (`[]RunningIsServed`) and `ListedAreOpen` (`[]ListedClientsOpen`);
* `SessionInvariant` (`[]SessionInv`: `SlotInv`, `ServiceInv`, `MutexInv` and
  `PhaseInv`), and from it `MutexesReleased` (`[]MutexHoldersDump`), dumps that are
  cancellation points included;
* `LifecycleRefined` (`Spec => FollowsLifecycle`), the refinement of OpeningLifecycle;
* `PassesLimited` (`MCSpec => []PassesBounded`), for every number of iterations.

The condition is necessary: `get_new` is called by main and by the server's thread,
and `dist_double_claim` violates `ThreadsMatchSlots` without it. `SlotInv` is larger
than the merger's, since sessions are opened by two threads while the supervision
thread is at work. It says which thread owns a slot that is being opened
(`aslot` or `mslot`) and that there is one server and one capture. Of the descriptors a
session holds it says nothing, as their numbers are closed twice and reused. A session that is filled in but not added yet is already polled, and
may be told to stop and be stopped before `pcapsession_handling_add` overwrites its
state; that a live capture is not *started* in this gap holds only because its lost
descriptor is still supervised, which is the conjunct `LiveNotStarted`. The proof is
laid out as the merger's, with one lemma about the effect of each kind of runner.
`PassesBounded` speaks of `passes`, which MCPcapDistributer counts. A runner begins its
first pass without looking at `iterations`, so that `passes + iterations` says too little
when `iterations` is 0: `PassInv` also says that while a pass may still begin
(`PassPending`: the thread is on its way to it, or a file capture is in START, about to
be started or being opened) there is room for it. That no pass is pending while one is made
is a consequence of `SlotInv`.

For the refinement, `PhaseInv` says that a session is STOPPED only while it is opened
(`BeingOpened`) or at the end of its stop, and that one the supervision thread is about
to start, or whose start it times out, is past that. A session between the decision to
terminate it and the stop counts as active (`AboutToStop`): its state can be rewritten by
`pcapsession_handling_add` in between, but not what the supervision thread is going to do.
`RunnerStep` says that a runner writes only the state of its own session, which is active
already, `OpeningStep` what handing out a slot and adding its session do; the actions of the supervision thread are shown one by one to be a stutter or an action of
OpeningLifecycle. `~ClientsConnectDuringOpen` is what makes `HandOut`'s "one slot at a time"
true.

`MonitorProofs` proves for every number of slots, packets, stops and seconds and
every output interval (`MonitorAssumption`: a positive interval, and a clock that
starts at least an interval after 0):

* `MonitorInvariant` (`[]MonitorInv`), and from it `TypeCorrect`, `CountsKept`
  (`[]CountsExact`), `NoDivisionByZero` (`[]RateDivisorPositive`), `IdleFlushed`
  (`[]IdleOutputFlushed`) and `MonitorsLive` (`[]MonitorsOwned`).

`CountsExact` is about the increments of the client threads; those that an output of the
supervision thread overlaps (`torn`) and those into a monitor that was freed
(`IncrementFreed`) are excepted. It needs that at most one thread is between the read and the write of a
counter (`HandlerHoldsMutex`) and that what it has read is still there
(`IncrementsFresh`). `RateDivisorPositive` needs that no output time lies in the future
(`TimesPast`). That an idle output is flushed is a matter of counting: every visit of
the merger takes a second, so that packets wait for no more visits than seconds have
passed since its monitor was output (`IdleBounded`); when an interval has passed the
counter is cleared, and the next visit flushes.

`GtpImsiEuaProofs` proves for every size of the table, every timeout and every
set of TEIDs, IMSIs, element types and lengths (`GtpAssumption`: they are naturals,
types are octets) that GtpImsiEua satisfies

* `TableInvariant` (`[]TableInv`), and from it `ImsiTypeCorrect` (`[]ImsiTypeOK`);
* `RightSubscriber`: `ImsiSpec => []AnswersWereRequested`;
* `NoDoubleAnswer`: `ImsiSpec => []AnsweredOnce`;
* `RequestsKept`: `ImsiSpec => []FreshRequestsKept`.

`AnswersWereRequested` speaks of the last answer only; that it stays true when a
response takes an entry needs `EntriesWereCarried` (an entry in use holds a TEID and
an IMSI of one request), and filling an entry needs `ImsiWasHeard` (the local
`imsistr` came in the message being read). Both are about IMSIs that fit (`ImsisFit`): a row
of `imsi_array` is then printed as it was copied (`StringCopied`, `StringPrinted`). One step per action; `IterationType`
and `TableUntouched` carry what all of them have in common. `AnsweredOnce` follows
from `OwedInv`, which counts: there are no more entries with a TEID than answers it is
owed. `FreshRequestsKept` follows from `FreshInv`; that a fresh entry is not taken over
is a pigeonhole argument, with an injection from the entries in use to the requests
that filled them (`EntriesHaveRequests`): if every entry were fresh, there would be more
requests within the timeout than fit into the table.

`GtpFilterProofs` proves for packets of every length and with every combination of
header fields (`CapturesAssumption`, and `LengthsAssumption`: no more is captured than
was sent, and a length fits into an unsigned integer), that `GtpSpec` satisfies

* `HeaderWithinCapture` (`[]HeaderCapturedAfterIp`): an unsigned difference is at most
  the difference, once that is not negative (`ModAtMost`), check by check;
* `Untunnelling` (`[]UntunnelMatchesLayers`): the header found is the one that was sent if
  its end was captured (`HeaderSent`), and then octet by octet what `memmove` leaves
  (`Moved`) is what the layers of the packet say (`FrameFacts`);
* `AddressRestored` (`[]AddressChangesBack`), where the tunnelled IP header was captured;

and for control messages with elements of any types and lengths that `DecodeSpec`
satisfies

* `ColumnsFilledOnce` (`[]FoundMatchesCommas`) and `ValuesInColumns`
  (`[]ColumnsAligned`), which rests on it: before an element of an ordered message the
  columns found are those of smaller types, and as many commas were printed.

`ServerConfigProofs` proves for configuration files of any number of objects and entries
(`ConfigsAssumption`: what the files are made of), that `ConfigSpec` satisfies

* `ConfigInvariant` (`[]ConfigInv`): what main's variables hold at each of its points;
* `ServersOfFile` (`[]ServersAreEntries`), for entries that are complete and in quotes;
* `ServersFromPasses` (`[]ServersCopiedInOrder`): without the condition that entries are
  complete, the k-th server has the host of the k-th entry with a host and the port of
  the k-th entry with a port, which is why equal counts do not make equal servers.

What `get_properties` returns takes an induction over its loop, and the library's
induction theorems cannot be used here, as they have an operator as a parameter. In
their place stands a least-number principle (`LeastNatural`, from the well-foundedness of
the order on the naturals): of the places where an invariant of the loop fails take the
first, and look at the one before. `BoundedInduction` states it for a *set* of places, so
that it can be cited for any loop.

`FilterProgramsProofs` proves about the remaining sequential programs:

* `FilesWithinMax` (`ChunkSpec => []ChunkWithinMax`) and `NeverClosesNothing`
  (`ChunkSpec => []ClosesOpenFile`), for every chunk size and every snapshot length of
  which `MIN_CHUNK_SIZE` holds two packets (`ChunkAssumption`; 1048576 and 65535 in the
  code);
* `MicrosecondsApart` (`StampSpec => []StampsConsecutive`), for every length of a second
  `USEC` (a literal as large as the real one is no constant the prover can compute with);
  the invariant adds that a time that is set was set by a packet;
* `ImsiDecoded`: `imsi2str` gives back the digits of every IMSI of 15 digits, and the string
  fits into its 16 bytes, by `BoundedInduction` over its loop. It does not for 14 digits
  (`FillersLeftOut`);
* `ProgramsTypeCorrect` (`Spec => []ProgramsTypeOK`) and `ProgramsAreCorrect`
  (`Spec => []ProgramsCorrect`, the other properties of the run), as a behaviour of
  FilterPrograms is one of each of the six programs (the lemma `ProgramsIndependent`).

`ChunkInv` relates what is counted to what is written (`file_size + 8 * file_packets =
chunk_used + FILE_HEADER`: eight octets per packet are counted too much, 24 per file
too little), which bounds files of three packets and more; files of one or two are
bounded by the snapshot length. `DumpKeepsInv` is the common part of dumping into
an open and into a new file.

TLC checks the strengthened invariants of the two programs too (`SessionInv` in
`merger_liveness` and `dist_live`). Those of
the other proofs (`FoundMatchesCommas`, `TableInv`, `OwedInv`, `FreshInv`, `MonitorInv`, `ChunkInv`, `ConfigInv`,
`PassInv`) are no properties of a run: what they are for is, and they are proved.

Only model-checked: the liveness properties (`ShutdownTerminates`, `ClientsRestart`,
`LifecycleProgress`, `LostClientsRemoved`), as fairness and ENABLED are out of
the prover's reach. Every invariant a run checks, and both refinements, are proved as well.

## Not modelled

* The contents of the packets that are distributed and the text of any output;
  `pcapfilestats`, which adds up and prints; the table of message types, which is
  names.
* What a string that overruns the last row of `imsi_array` is written over, the same overrun
  of the local buffer of `decodegtp` (`decodegtp.c:119`), which only prints it, and the 0
  written before a value of one character without quotes.
* Monitors in the distributer, where a client's is only touched by the capture
  thread and the supervision thread, as a client's own is in Monitor.
* The parsing of JSON (a library's), `print_filter_config`, the single properties of
  `pcapdistributer`, whose values are constants of its model, logging, and the
  licence check, whose implementation is not in the repository.
* A thread cancelled in the middle of `pcap_close` or `fclose`; failures of
  `accept` other than for want of descriptors.

## Plan

1. *(done)* Session table, supervision, all kinds of session, both programs; the
   safety and liveness properties above; SlotInv and its consequences proved for
   the merger. The table of `gtpimsieua` and the proof about it.
2. *(done)* SessionLifecycle and PcapMerger as its refinement, by TLC; Monitor on top
   of it.
3. *(done)* The sequential programs: GtpPacket, DecodeGtp, UsecTstamp, ChunkPcapFile,
   ServerConfig; the proofs about the two with arithmetic.
4. *(done)* Proofs: the merger's sessions, mutexes and its refinement of
   SessionLifecycle; the distributer's table, sessions and mutexes when clients do not
   connect during an open; the monitors; the rest of `gtpimsieua`; GtpPacket and
   DecodeGtp.
5. *(done)* `PassesBounded`, for every number of passes.
6. *(done)* `get_properties` and `imsi2str` by induction over their loops, and with them
   the composition of the sequential programs; OpeningLifecycle, the lifecycle the
   distributer implements, where a session may be stopped before it is added.
