------------------------------- MODULE Monitor -------------------------------
(***************************************************************************)
(* monitor.h in pcapmerger: client threads count packets into their own    *)
(* monitor and into the merger's, while the supervision thread prints and  *)
(* clears the counters and flushes an output that is idle.                 *)
(*                                                                         *)
(* Sessions come and go as SessionLifecycle allows (PcapMerger is shown to *)
(* implement it), so that only what touches monitors, the merger's dumper  *)
(* and merge_mutex is added here.  One counter, bytes, stands for all of   *)
(* them, and a packet adds one to it.                                      *)
(***************************************************************************)
EXTENDS SessionLifecycle, Integers

CONSTANTS
    LastSlot,                  \* the highest slot; slot 0 is the merger's
    MONITOR_OUTPUT_INTERVAL,
    StartTime,                 \* what time(NULL) says first: long after 0
    MaxTime,                   \* bound: the last second looked at
    MaxPackets,                \* bound: packets received
    MaxStops                   \* bound: sessions stopped

ASSUME MonitorAssumption ==
    /\ LastSlot \in Nat
    /\ Slots = 0 .. LastSlot
    /\ MONITOR_OUTPUT_INTERVAL \in Nat \ {0}
    /\ StartTime \in Nat /\ StartTime >= MONITOR_OUTPUT_INTERVAL
    /\ MaxTime \in Nat /\ MaxPackets \in Nat /\ MaxStops \in Nat

Merger == 0
Clients == Slots \ {Merger}
NoSlot == -1

(* monitor.h is included by each session's source file, and its static     *)
(* monitor_last_output_time is a variable of each of them.                 *)
Units == {"pcapsession", "merger", "client"}
Unit(i) == IF i = Merger THEN "merger" ELSE "client"

VARIABLES
    running,     \* running[i]: the session is RUNNING
    monitor,     \* monitor[i]: the session's monitor; open is FALSE when it is NULL
    tpc,         \* tpc[i]: where the session's thread is
    reg,         \* reg[i]: the counter as the thread's increment has read it
    dumper,      \* whether the merger's pcap_dumper is open
    unflushed,   \* whether packets wait in the buffer of the dumper
    merge_mutex, \* the client whose thread holds merge_mutex
    now,         \* time(NULL)
    monitor_last_output_time,  \* one for each of Units
    spc, si,     \* the supervision thread and the slot it visits
    current_time \* of handle_monitor

(* Histories, for the properties *)
VARIABLES
    uncounted,   \* uncounted[i]: what the increments since the monitor was
                 \* opened add up to, less what was printed
    torn,        \* torn[i]: an output and an increment have overlapped
    idle,        \* visits of the merger that left packets in the buffer, since
                 \* a client thread last did something
    packets, stops

monVars  == <<monitor, uncounted, torn>>
outVars  == <<dumper, unflushed, idle>>
lockVars == <<merge_mutex, packets>>
timeVars == <<now, monitor_last_output_time>>
supVars  == <<spc, si, current_time, stops>>
vars == <<lifeVars, running, monVars, tpc, reg, outVars, lockVars, timeVars,
          supVars>>

NULL == [open |-> FALSE, bytes |-> 0, last_output_time |-> 0]

ThreadPoints == {"none", "run", "open", "dump_open", "loop", "own_add", "merger",
                 "merger_add", "merger_freed", "exited"}

SupervisorPoints == {"visit", "start", "carry_on", "flush", "decide", "print", "clear",
                     "join", "stopper", "close", "sleep"}

(* main has opened the merger and the clients; none is started yet *)
Init ==
    /\ phase = [i \in Slots |-> "waiting"]
    /\ worker = [i \in Slots |-> FALSE]
    /\ alive = TRUE
    /\ running = [i \in Slots |-> FALSE]
    /\ monitor = [i \in Slots |-> NULL]
    /\ tpc = [i \in Slots |-> "none"]
    /\ reg = [i \in Slots |-> 0]
    /\ dumper = FALSE /\ unflushed = FALSE /\ merge_mutex = NoSlot
    /\ now = StartTime
    /\ monitor_last_output_time = [u \in Units |-> 0]
    /\ spc = "visit" /\ si = 0 /\ current_time = 0
    /\ uncounted = [i \in Slots |-> 0]
    /\ torn = [i \in Slots |-> FALSE]
    /\ idle = 0 /\ packets = 0 /\ stops = 0

-----------------------------------------------------------------------------
(* A second passes.  The supervision thread sleeps one between two passes; *)
(* a visit reads the time once, so that it is enough to let seconds pass   *)
(* before it.                                                              *)
Tick ==
    /\ alive
    /\ spc \in {"sleep", "visit"}
    /\ now < MaxTime
    /\ now' = now + 1
    /\ spc' = "visit"
    /\ UNCHANGED <<lifeVars, running, monVars, tpc, reg, outVars, lockVars,
                   monitor_last_output_time, si, current_time, stops>>

-----------------------------------------------------------------------------
(* Session threads *)
ThreadStep(i, a, b) ==
    /\ alive
    /\ tpc[i] = a
    /\ tpc' = [tpc EXCEPT ![i] = b]
    /\ UNCHANGED <<phase, worker, now, supVars>>

RunnerSetsRunning(i) ==
    /\ ThreadStep(i, "run", "open")
    /\ running' = [running EXCEPT ![i] = TRUE]
    /\ UNCHANGED <<alive, monVars, reg, outVars, lockVars, monitor_last_output_time>>

(* monitor_open, by the runner of session i *)
monitor_open(i) ==
    LET last == monitor_last_output_time[Unit(i)]
        time == IF last = 0 THEN now ELSE last
    IN /\ ThreadStep(i, "open", IF i = Merger THEN "dump_open" ELSE "loop")
       /\ monitor_last_output_time' = [monitor_last_output_time EXCEPT ![Unit(i)] = time]
       /\ monitor' = [monitor EXCEPT ![i] = [open |-> TRUE, bytes |-> 0,
                                             last_output_time |-> time]]
       /\ uncounted' = [uncounted EXCEPT ![i] = 0]
       /\ torn' = [torn EXCEPT ![i] = FALSE]
       /\ UNCHANGED <<alive, running, reg, outVars, lockVars>>

(* pcap_dump_open, after which the session is RUNNING no more if it failed *)
MergerDumpOpen ==
    /\ ThreadStep(Merger, "dump_open", "exited")
    /\ dumper' \in BOOLEAN
    /\ running' = [running EXCEPT ![Merger] = @ /\ dumper']
    /\ UNCHANGED <<alive, monVars, reg, unflushed, idle, lockVars,
                   monitor_last_output_time>>

(* A step of the packet handler on the thread of client c *)
HandlerStep(c, a, b) ==
    /\ ThreadStep(c, a, b)
    /\ idle' = 0
    /\ UNCHANGED <<running, dumper, monitor_last_output_time>>

(* Mutant: merge_mutex is not taken *)
HandlerDumps_Unlocked(c) ==
    /\ HandlerStep(c, "loop", "own_add")
    /\ packets < MaxPackets
    /\ packets' = packets + 1
    /\ alive' = dumper
    /\ unflushed' = TRUE
    /\ reg' = [reg EXCEPT ![c] = monitor[c].bytes]
    /\ UNCHANGED <<monVars, merge_mutex>>

(* pcapsession_merger_packet_handler: merge_mutex is locked and the packet *)
(* is dumped; without a dumper the process ends.  The increment of the     *)
(* session's own monitor has read the counter.                             *)
HandlerDumps(c) ==
    /\ HandlerStep(c, "loop", "own_add")
    /\ packets < MaxPackets
    /\ packets' = packets + 1
    /\ merge_mutex = NoSlot
    /\ merge_mutex' = c
    /\ alive' = dumper
    /\ unflushed' = TRUE
    /\ reg' = [reg EXCEPT ![c] = monitor[c].bytes]
    /\ UNCHANGED monVars

(* handle_monitor has printed m and not cleared it yet *)
Outputting(m) == si = m /\ spc = "clear"

(* monitor_increment(m): the counter, read before, is written back *)
IncrementWrites(c, m, a, b) ==
    /\ HandlerStep(c, a, b)
    /\ monitor' = [monitor EXCEPT ![m].bytes = reg[c] + 1]
    /\ uncounted' = [uncounted EXCEPT ![m] = @ + 1]
    /\ torn' = [torn EXCEPT ![m] = @ \/ Outputting(m)]
    /\ reg' = [reg EXCEPT ![c] = 0]
    /\ UNCHANGED <<alive, unflushed, packets>>

Unlock == merge_mutex' = NoSlot /\ UNCHANGED <<unflushed, packets>>

IncrementOwn(c) ==
    IncrementWrites(c, c, "own_add", "merger") /\ UNCHANGED merge_mutex

IncrementReadsMerger(c) ==
    /\ HandlerStep(c, "merger", "merger_add")
    /\ monitor[Merger].open
    /\ reg' = [reg EXCEPT ![c] = monitor[Merger].bytes]
    /\ UNCHANGED <<alive, monVars, unflushed, lockVars>>

IncrementMerger(c) == IncrementWrites(c, Merger, "merger_add", "loop") /\ Unlock

(* The merger has no monitor *)
IncrementNothing(c) ==
    /\ HandlerStep(c, "merger", "loop")
    /\ ~monitor[Merger].open
    /\ Unlock
    /\ UNCHANGED <<alive, monVars, reg>>

(* The monitor was freed since it was read (undefined): the process ends,  *)
(* nothing comes of it, or the merger's next monitor got the memory.       *)
IncrementFreed(c) ==
    /\ HandlerStep(c, "merger_freed", "loop")
    /\ Unlock
    /\ reg' = [reg EXCEPT ![c] = 0]
    /\ \/ alive' \in BOOLEAN /\ UNCHANGED monVars
       \/ /\ monitor[Merger].open
          /\ monitor' = [monitor EXCEPT ![Merger].bytes = reg[c] + 1]
          /\ torn' = [torn EXCEPT ![Merger] = TRUE]
          /\ UNCHANGED <<alive, uncounted>>

SessionThread(i) ==
    \/ RunnerSetsRunning(i) \/ monitor_open(i)
    \/ i = Merger /\ MergerDumpOpen
    \/ i \in Clients /\ (\/ HandlerDumps(i) \/ IncrementOwn(i)
                         \/ IncrementReadsMerger(i) \/ IncrementMerger(i)
                         \/ IncrementNothing(i) \/ IncrementFreed(i))

-----------------------------------------------------------------------------
(* The supervision thread, at point a of its visit to si *)
At(a) == alive /\ spc = a /\ UNCHANGED <<reg, lockVars, now>>

GoTo(b) == spc' = b /\ UNCHANGED <<si, current_time>>

(* Mutant: the loop runs one slot too far *)
NextSlot_OneMore == /\ si' = IF si <= LastSlot THEN si + 1 ELSE 0
                    /\ spc' = IF si <= LastSlot THEN "visit" ELSE "sleep"
                    /\ current_time' = 0

(* continue: the next slot, or the end of the pass *)
NextSlot == /\ si' = IF si < LastSlot THEN si + 1 ELSE 0
            /\ spc' = IF si < LastSlot THEN "visit" ELSE "sleep"
            /\ current_time' = 0

(* What concerns no monitor and no output *)
Elsewhere == UNCHANGED <<monVars, outVars, monitor_last_output_time>>

(* Nothing to start, and nothing RUNNING *)
VisitPasses ==
    /\ At("visit")
    /\ phase[si] # "waiting" /\ ~running[si]
    /\ NextSlot
    /\ Elsewhere
    /\ UNCHANGED <<lifeVars, running, tpc, stops>>

VisitStarts ==
    /\ At("visit")
    /\ Activate(si)
    /\ GoTo("start")
    /\ Elsewhere
    /\ UNCHANGED <<running, tpc, stops>>

StartThread ==
    /\ At("start")
    /\ Spawn(si)
    /\ tpc' = [tpc EXCEPT ![si] = "run"]
    /\ GoTo("carry_on")
    /\ Elsewhere
    /\ UNCHANGED <<running, stops>>

(* "Only allow running sessions to carry on": the runner may be so already *)
CarryOn ==
    /\ At("carry_on")
    /\ IF running[si] THEN GoTo("flush") ELSE NextSlot
    /\ Elsewhere
    /\ UNCHANGED <<lifeVars, running, tpc, stops>>

(* A session lost its descriptor, gave up, timed out or is aborted *)
VisitStops ==
    /\ At("visit")
    /\ stops < MaxStops
    /\ BeginStop(si)
    /\ stops' = stops + 1
    /\ running' = [running EXCEPT ![si] = FALSE]
    /\ GoTo("join")
    /\ Elsewhere
    /\ UNCHANGED tpc

VisitRunning ==
    /\ At("visit")
    /\ phase[si] = "active" /\ running[si]
    /\ GoTo("flush")
    /\ Elsewhere
    /\ UNCHANGED <<lifeVars, running, tpc, stops>>

(* "if the output is idle, flush it": bytes == 0 *)
FlushIdle ==
    /\ At("flush")
    /\ unflushed' = (unflushed /\ ~(/\ si = Merger /\ dumper
                                    /\ monitor[si].open /\ monitor[si].bytes = 0))
    /\ idle' = IF unflushed' THEN (IF si = Merger THEN idle + 1 ELSE idle) ELSE 0
    /\ GoTo("decide")
    /\ UNCHANGED <<lifeVars, running, monVars, tpc, dumper, monitor_last_output_time, stops>>

NoMonitor ==
    /\ At("decide")
    /\ ~monitor[si].open
    /\ NextSlot
    /\ Elsewhere
    /\ UNCHANGED <<lifeVars, running, tpc, stops>>

(* Mutant: a monitor that was just output is output again *)
OutputDue_Again(last) == last >= monitor[si].last_output_time

(* "check if this monitor should be output" *)
OutputDue(last) == last > monitor[si].last_output_time

(* Mutant: the overall time is only ever set once, as in monitor_open *)
OverallTime_Once(last) == IF last = 0 THEN now ELSE last

(* "Check if monitoring should be output or not at an overall level" *)
OverallTime(last) == IF now - last >= MONITOR_OUTPUT_INTERVAL THEN now ELSE last

(* handle_monitor up to its early return *)
handle_monitor ==
    LET last == OverallTime(monitor_last_output_time["pcapsession"])
    IN /\ At("decide")
       /\ monitor[si].open
       /\ monitor_last_output_time' = [monitor_last_output_time EXCEPT !["pcapsession"] = last]
       /\ IF OutputDue(last) THEN spc' = "print" /\ current_time' = now /\ UNCHANGED si
                             ELSE NextSlot
       /\ UNCHANGED <<lifeVars, running, monVars, tpc, outVars, stops>>

(* A thread is between the read and the write of an increment of monitor i *)
Incrementing(i) == \/ tpc[i] = "own_add"
                   \/ i = Merger /\ \E c \in Clients : tpc[c] = "merger_add"

Tear(i) == torn' = [torn EXCEPT ![i] = @ \/ Incrementing(i)]

PrintMonitor ==
    /\ At("print")
    /\ uncounted' = [uncounted EXCEPT ![si] = @ - monitor[si].bytes]
    /\ Tear(si)
    /\ GoTo("clear")
    /\ UNCHANGED <<lifeVars, running, monitor, tpc, outVars, monitor_last_output_time, stops>>

(* "Record output time", "Clear all counters" *)
Cleared(m) ==
    [m EXCEPT !.last_output_time = monitor_last_output_time["pcapsession"], !.bytes = 0]

ClearMonitor ==
    /\ At("clear")
    /\ monitor' = [monitor EXCEPT ![si] = Cleared(@)]
    /\ Tear(si)
    /\ NextSlot
    /\ UNCHANGED <<lifeVars, running, uncounted, tpc, outVars, monitor_last_output_time,
                   stops>>

-----------------------------------------------------------------------------
(* pcapsession_stop.  The thread ends where a cancellation can act, which  *)
(* is nowhere in the packet handler.                                       *)
JoinThread ==
    /\ At("join")
    /\ IF worker[si]
       THEN /\ tpc[si] \in {"run", "open", "dump_open", "loop", "exited"}
            /\ Join(si)
            /\ tpc' = [tpc EXCEPT ![si] = "none"]
       ELSE UNCHANGED <<lifeVars, tpc>>
    /\ GoTo("stopper")
    /\ Elsewhere
    /\ UNCHANGED <<running, stops>>

(* The stopper closes the merger's dumper, which empties its buffer *)
StopperClosesDumper ==
    /\ At("stopper")
    /\ IF si = Merger THEN dumper' = FALSE /\ unflushed' = FALSE /\ idle' = 0
                      ELSE UNCHANGED outVars
    /\ GoTo("close")
    /\ UNCHANGED <<lifeVars, running, monVars, tpc, monitor_last_output_time, stops>>

(* The session is over: given up, or to be started again *)
StopperEnds ==
    /\ At("close")
    /\ EndStop(si)
    /\ running' = [running EXCEPT ![si] = FALSE]
    /\ NextSlot
    /\ UNCHANGED <<outVars, monitor_last_output_time, stops>>

(* Mutant: the stopper leaves the monitor alone *)
monitor_close_Not == StopperEnds /\ UNCHANGED <<monVars, tpc>>

(* The stopper closes the session's monitor; a pointer to it that a client *)
(* thread has read by now dangles.                                         *)
monitor_close ==
    /\ StopperEnds
    /\ monitor' = [monitor EXCEPT ![si] = NULL]
    /\ uncounted' = [uncounted EXCEPT ![si] = 0]
    /\ torn' = [torn EXCEPT ![si] = FALSE]
    /\ tpc' = [c \in Slots |-> IF si = Merger /\ tpc[c] = "merger_add"
                               THEN "merger_freed" ELSE tpc[c]]

Supervise ==
    \/ VisitPasses \/ VisitStarts \/ StartThread \/ CarryOn \/ VisitStops \/ VisitRunning
    \/ FlushIdle \/ NoMonitor \/ handle_monitor \/ PrintMonitor \/ ClearMonitor
    \/ JoinThread \/ StopperClosesDumper \/ monitor_close

(* The process has ended, or the last second looked at has come *)
Over == (~alive \/ now = MaxTime) /\ UNCHANGED vars

Next == \/ Tick \/ Supervise \/ Over
        \/ \E i \in Slots : SessionThread(i)

Spec == Init /\ [][Next]_vars

-----------------------------------------------------------------------------
TypeOK ==
    /\ LifeTypeOK
    /\ running \in [Slots -> BOOLEAN]
    /\ monitor \in [Slots -> [open : BOOLEAN, bytes : Nat, last_output_time : Nat]]
    /\ tpc \in [Slots -> ThreadPoints]
    /\ reg \in [Slots -> Nat]
    /\ dumper \in BOOLEAN /\ unflushed \in BOOLEAN
    /\ merge_mutex \in Clients \cup {NoSlot}
    /\ now \in Nat /\ current_time \in Nat
    /\ monitor_last_output_time \in [Units -> Nat]
    /\ spc \in SupervisorPoints /\ si \in Slots
    /\ uncounted \in [Slots -> Int]
    /\ torn \in [Slots -> BOOLEAN]
    /\ idle \in Nat /\ packets \in Nat /\ stops \in Nat

(* What stands in a counter is what was counted and not printed yet,       *)
(* unless an output overlapped an increment: merge_mutex keeps the         *)
(* increments of several clients into the merger's monitor apart, and      *)
(* nothing else is ever lost, whatever sessions are stopped and restarted. *)
CountsExact ==
    \A i \in Slots :
        monitor[i].open /\ ~torn[i] /\ ~Outputting(i) => monitor[i].bytes = uncounted[i]

(* The rates of handle_monitor are integer divisions by time_since_output: *)
(* it is never zero, whichever unit's copy of the last output time the     *)
(* monitor was opened with (time(NULL) is taken not to go back).           *)
RateDivisorPositive ==
    spc = "print" => current_time > monitor[si].last_output_time

(* Packets stay in the buffer of an output that went idle for no more      *)
(* visits than an output interval has seconds, and one, although bytes     *)
(* also counts what was flushed before.                                    *)
IdleOutputFlushed == alive => idle <= MONITOR_OUTPUT_INTERVAL + 1

(* A session has a monitor only from its start to its stop, none is lost   *)
(* when its runner opens one, and it is not freed under its own thread or  *)
(* under handle_monitor.                                                   *)
MonitorsOwned ==
    /\ \A i \in Slots : /\ phase[i] \notin {"active", "stopping"} => ~monitor[i].open
                        /\ tpc[i] \in {"run", "open"} => ~monitor[i].open
                        /\ tpc[i] \in {"loop", "own_add"} => monitor[i].open
    /\ spc \in {"print", "clear"} => monitor[si].open

(***************************************************************************)
(* The inductive invariant behind these                                    *)
(***************************************************************************)
HandlerPoints == {"own_add", "merger", "merger_add", "merger_freed"}

(* A session has a thread from its start to the join, and no monitor where *)
(* its thread is yet to open one; only clients' threads handle packets     *)
ThreadsFollowPhase ==
    /\ \A i \in Slots : /\ worker[i] <=> tpc[i] # "none"
                        /\ worker[i] => phase[i] \in {"active", "stopping"}
                        /\ tpc[i] \in HandlerPoints => monitor[i].open
    /\ tpc[Merger] \notin HandlerPoints \cup {"loop"}
    /\ spc \in {"start", "stopper", "close"} => ~worker[si]
    /\ spc = "start" => ~monitor[si].open

(* merge_mutex is held throughout the packet handler, and nowhere else *)
HandlerHoldsMutex ==
    \A c \in Clients : tpc[c] \in HandlerPoints <=> merge_mutex = c

(* A counter that an increment has read stays as it is until it is written *)
(* back, and what was printed is made up for, unless the two overlap       *)
IncrementsFresh ==
    /\ \A c \in Clients :
            /\ tpc[c] = "own_add" /\ ~torn[c] => reg[c] = monitor[c].bytes
            /\ tpc[c] = "merger_add" => monitor[Merger].open
            /\ tpc[c] = "merger_add" /\ ~torn[Merger] => reg[c] = monitor[Merger].bytes
    /\ \A i \in Slots : Outputting(i) /\ ~torn[i] => uncounted[i] = 0

(* No output time lies in the future *)
TimesPast ==
    /\ \A u \in Units : monitor_last_output_time[u] <= now
    /\ \A i \in Slots : monitor[i].last_output_time <= now

(* Packets wait only in an open dump, which has a monitor beside it *)
BufferInv ==
    /\ idle > 0 => unflushed
    /\ unflushed => dumper
    /\ dumper => monitor[Merger].open
    /\ tpc[Merger] = "dump_open" => monitor[Merger].open /\ ~dumper
    /\ si = Merger /\ spc = "close" => ~dumper

(* The supervision thread has looked at the merger's output in this second *)
FlushConsidered == si # Merger \/ spc \in {"decide", "sleep"}

(* Packets have waited for no more visits than seconds since the merger's  *)
(* monitor was last output, if that is what they wait for                  *)
IdleBounded ==
    LET m == monitor[Merger]
    IN /\ spc = "sleep" => si = Merger
       /\ idle <= MONITOR_OUTPUT_INTERVAL + 1
       /\ m.bytes # 0 /\ ~(si = Merger /\ spc \in {"print", "clear"}) =>
            /\ idle <= now - m.last_output_time + (IF FlushConsidered THEN 1 ELSE 0)
            /\ (si = Merger /\ spc = "decide") \/ idle <= MONITOR_OUTPUT_INTERVAL

(* Together: threads, merge_mutex, counters, output times and the buffer   *)
(* are in step at every point of the client threads and of the supervision *)
(* thread, which is what the properties above rest on.                     *)
MonitorInv ==
    /\ TypeOK
    /\ MonitorsOwned
    /\ CountsExact
    /\ RateDivisorPositive
    /\ ThreadsFollowPhase
    /\ HandlerHoldsMutex
    /\ IncrementsFresh
    /\ TimesPast
    /\ alive => BufferInv /\ IdleBounded

(* A monitor starts out with the time all monitors were last output: "Set  *)
(* the last output time of this monitor to the overall last output time",  *)
(* says monitor_open.  The first rate printed depends on it.               *)
OpenedWithOverallTime ==
    [][\A i \in Slots : ~monitor[i].open /\ monitor'[i].open =>
            monitor'[i].last_output_time >= monitor_last_output_time["pcapsession"]]_vars
=============================================================================
