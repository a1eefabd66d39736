--------------------------- MODULE MonitorProofs ---------------------------
(***************************************************************************)
(* The monitors of pcapmerger for any number of clients, packets, stops    *)
(* and seconds, and any output interval: MonitorInv is inductive, and with *)
(* it the counts are exact, no rate is divided by zero, an idle output is  *)
(* flushed and no monitor is lost or freed under its users.                *)
(***************************************************************************)
EXTENDS Monitor, TLAPS

LEMMA ConstantFacts ==
    /\ Merger \in Slots
    /\ Slots \subseteq Nat
    /\ LastSlot \in Nat /\ Slots = 0 .. LastSlot
    /\ Clients \subseteq Slots /\ Merger \notin Clients
    /\ \A i \in Slots : i # Merger => i \in Clients
    /\ NoSlot \notin Slots
    /\ MONITOR_OUTPUT_INTERVAL \in Nat /\ MONITOR_OUTPUT_INTERVAL >= 1
    /\ StartTime \in Nat
BY MonitorAssumption DEF Merger, Clients, NoSlot

LEMMA NextSlotFacts ==
    ASSUME si \in Slots, NextSlot
    PROVE  /\ si' \in Slots /\ spc' \in {"visit", "sleep"} /\ current_time' = 0
           /\ spc' = "sleep" => si' = Merger
           /\ spc' = "visit" => si' # Merger
BY ConstantFacts DEF NextSlot, Merger

-----------------------------------------------------------------------------
(* The supervision thread goes on in its visit or to another slot, with    *)
(* nothing printed, flushed, started or stopped                            *)
LEMMA MovesPreserve ==
    ASSUME MonitorInv,
           VisitPasses \/ VisitStarts \/ CarryOn \/ VisitStops \/ VisitRunning \/ NoMonitor
    PROVE  MonitorInv'
<1> USE ConstantFacts DEF MonitorInv, Elsewhere, monVars, outVars, lockVars, lifeVars
<1>1. /\ alive /\ si \in Slots
      /\ UNCHANGED <<worker, alive, monitor, uncounted, torn, tpc, reg, dumper, unflushed, idle,
                     merge_mutex, packets, now, monitor_last_output_time>>
  BY DEF VisitPasses, VisitStarts, CarryOn, VisitStops, VisitRunning, NoMonitor, At, Activate,
         BeginStop, Enters, TypeOK
<1>2. /\ \/ si' = si /\ spc' \in {"start", "flush", "join"}
         \/ si' \in Slots /\ spc' = "sleep" /\ si' = Merger
         \/ si' \in Slots /\ spc' = "visit" /\ si' # Merger
      /\ spc \in {"visit", "carry_on", "decide"}
      /\ spc = "decide" => ~monitor[si].open /\ spc' \in {"visit", "sleep"}
  BY NextSlotFacts
  DEF VisitPasses, VisitStarts, CarryOn, VisitStops, VisitRunning, NoMonitor, At, GoTo, TypeOK
<1>3. TypeOK'
  <2>1. /\ phase \in [Slots -> Phases] /\ running \in [Slots -> BOOLEAN]
        /\ stops \in Nat /\ current_time \in Nat
    BY DEF TypeOK, LifeTypeOK
  <2>2. phase' \in [Slots -> Phases]
    BY <1>1, <2>1
    DEF VisitPasses, VisitStarts, CarryOn, VisitStops, VisitRunning, NoMonitor, Activate,
        BeginStop, Enters, Phases
  <2>3. running' \in [Slots -> BOOLEAN]
    <3>1. UNCHANGED running \/ running' = [running EXCEPT ![si] = FALSE]
      BY DEF VisitPasses, VisitStarts, CarryOn, VisitStops, VisitRunning, NoMonitor
    <3> QED
      BY <2>1, <3>1
  <2>4. stops' \in Nat
    BY <2>1 DEF VisitPasses, VisitStarts, CarryOn, VisitStops, VisitRunning, NoMonitor
  <2>5. current_time' \in Nat
    BY <2>1 DEF VisitPasses, VisitStarts, CarryOn, VisitStops, VisitRunning, NoMonitor, GoTo, NextSlot
  <2> QED
    BY <1>1, <1>2, <2>2, <2>3, <2>4, <2>5 DEF TypeOK, LifeTypeOK, SupervisorPoints
<1>4. \A i \in Slots : phase'[i] = phase[i] \/ phase'[i] \in {"active", "stopping"}
  BY DEF VisitPasses, VisitStarts, CarryOn, VisitStops, VisitRunning, NoMonitor, Activate,
         BeginStop, Enters, TypeOK, LifeTypeOK
<1>5. spc' = "start" => ~worker[si] /\ ~monitor[si].open
  <2>1. spc' = "start" => phase[si] = "waiting"
    BY <1>1, NextSlotFacts
    DEF VisitPasses, VisitStarts, CarryOn, VisitStops, VisitRunning, NoMonitor, Activate, Enters, GoTo
  <2> QED
    BY <1>1, <2>1 DEF ThreadsFollowPhase, MonitorsOwned
<1>6. MonitorsOwned'
  BY <1>1, <1>2, <1>4 DEF MonitorsOwned
<1>7. ThreadsFollowPhase'
  BY <1>1, <1>2, <1>4, <1>5 DEF ThreadsFollowPhase
<1>8. HandlerHoldsMutex' /\ TimesPast'
  BY <1>1 DEF HandlerHoldsMutex, TimesPast
<1>9. \A i \in Slots : ~Outputting(i)' /\ ~Outputting(i)
  BY <1>2 DEF Outputting
<1>10. CountsExact' /\ IncrementsFresh'
  BY <1>1, <1>9 DEF CountsExact, IncrementsFresh
<1>11. RateDivisorPositive'
  BY <1>2 DEF RateDivisorPositive
<1>12. BufferInv'
  BY <1>1, <1>2 DEF BufferInv
<1>13. IdleBounded'
  <2>1. FlushConsidered => FlushConsidered'
    BY <1>1, <1>2 DEF FlushConsidered
  <2>2. /\ idle \in Nat /\ now \in Nat
        /\ monitor[Merger].last_output_time \in Nat
        /\ monitor[Merger].last_output_time <= now
    BY DEF TypeOK, TimesPast
  <2>3. CASE spc = "decide" /\ si = Merger
    <3>1. idle = 0
      BY <1>1, <1>2, <2>2, <2>3 DEF BufferInv
    <3> QED
      BY <1>1, <1>2, <2>2, <2>3, <3>1 DEF IdleBounded
  <2>4. CASE ~(spc = "decide" /\ si = Merger)
    BY <1>1, <1>2, <2>1, <2>2, <2>4 DEF IdleBounded
  <2> QED
    BY <2>3, <2>4
<1> QED
  BY <1>1, <1>3, <1>6, <1>7, <1>8, <1>10, <1>11, <1>12, <1>13

(* The flush of an idle output: packets that wait for another visit have   *)
(* waited for as many as there were seconds since the last output          *)
LEMMA FlushPreserves ==
    ASSUME MonitorInv, FlushIdle
    PROVE  MonitorInv'
<1> USE ConstantFacts DEF MonitorInv, monVars, lockVars, lifeVars
<1>1. /\ alive /\ si \in Slots /\ spc = "flush" /\ spc' = "decide"
      /\ UNCHANGED <<phase, worker, alive, running, monitor, uncounted, torn, tpc, reg, dumper,
                     merge_mutex, packets, now, monitor_last_output_time, si, current_time, stops>>
  BY DEF FlushIdle, At, GoTo, TypeOK
<1>2. /\ idle \in Nat /\ now \in Nat /\ unflushed \in BOOLEAN
      /\ monitor[Merger].last_output_time \in Nat
      /\ monitor[Merger].last_output_time <= now
      /\ monitor[Merger].bytes \in Nat
  BY DEF TypeOK, TimesPast
<1>3. /\ unflushed' \in BOOLEAN /\ (unflushed' => unflushed)
      /\ unflushed' /\ si = Merger => monitor[Merger].bytes # 0
      /\ idle' = IF unflushed' THEN (IF si = Merger THEN idle + 1 ELSE idle) ELSE 0
  BY <1>1 DEF FlushIdle, BufferInv
<1>4. TypeOK'
  <2>1. idle' \in Nat
    BY <1>2, <1>3
  <2> QED
    BY <1>1, <1>3, <2>1 DEF TypeOK, LifeTypeOK, SupervisorPoints
<1>5. MonitorsOwned' /\ ThreadsFollowPhase' /\ HandlerHoldsMutex' /\ TimesPast' /\ RateDivisorPositive'
  BY <1>1 DEF MonitorsOwned, ThreadsFollowPhase, HandlerHoldsMutex, TimesPast, RateDivisorPositive
<1>6. CountsExact' /\ IncrementsFresh'
  BY <1>1 DEF CountsExact, IncrementsFresh, Outputting
<1>7. BufferInv'
  BY <1>1, <1>2, <1>3 DEF BufferInv
<1>8. IdleBounded'
  BY <1>1, <1>2, <1>3 DEF IdleBounded, FlushConsidered
<1> QED
  BY <1>1, <1>4, <1>5, <1>6, <1>7, <1>8

(* handle_monitor: if the merger's monitor is not output, less than an     *)
(* interval has passed since it was, and so have fewer visits              *)
LEMMA DecidePreserves ==
    ASSUME MonitorInv, handle_monitor
    PROVE  MonitorInv'
<1> USE ConstantFacts DEF MonitorInv, monVars, outVars, lockVars, lifeVars
<1> DEFINE last == OverallTime(monitor_last_output_time["pcapsession"])
<1>1. /\ alive /\ si \in Slots /\ spc = "decide" /\ monitor[si].open
      /\ UNCHANGED <<phase, worker, alive, running, monitor, uncounted, torn, tpc, reg, dumper,
                     unflushed, idle, merge_mutex, packets, now, stops>>
      /\ monitor_last_output_time' = [monitor_last_output_time EXCEPT !["pcapsession"] = last]
      /\ IF OutputDue(last) THEN spc' = "print" /\ current_time' = now /\ si' = si ELSE NextSlot
  BY DEF handle_monitor, At, TypeOK
<1>2. /\ idle \in Nat /\ now \in Nat
      /\ monitor_last_output_time \in [Units -> Nat]
      /\ monitor_last_output_time["pcapsession"] \in Nat
      /\ monitor_last_output_time["pcapsession"] <= now
      /\ \A i \in Slots : monitor[i].last_output_time \in Nat
  BY DEF TypeOK, TimesPast, Units
<1>3. /\ last \in Nat /\ last <= now /\ now - last < MONITOR_OUTPUT_INTERVAL
  BY <1>2 DEF OverallTime
<1> HIDE DEF last
<1>4. \/ /\ spc' = "print" /\ current_time' = now /\ si' = si
         /\ last > monitor[si].last_output_time
      \/ /\ si' \in Slots /\ current_time' = 0
         /\ \/ spc' = "sleep" /\ si' = Merger
            \/ spc' = "visit" /\ si' # Merger
         /\ last <= monitor[si].last_output_time
  BY <1>1, <1>2, <1>3, NextSlotFacts DEF OutputDue
<1>5. TypeOK'
  <2>1. monitor_last_output_time' \in [Units -> Nat]
    BY <1>1, <1>2, <1>3
  <2>2. current_time' \in Nat
    BY <1>2, <1>4
  <2>3. si' \in Slots /\ spc' \in SupervisorPoints
    BY <1>1, <1>4 DEF SupervisorPoints
  <2> QED
    BY <1>1, <2>1, <2>2, <2>3 DEF TypeOK, LifeTypeOK
<1>6. MonitorsOwned' /\ ThreadsFollowPhase' /\ HandlerHoldsMutex'
  BY <1>1, <1>4 DEF MonitorsOwned, ThreadsFollowPhase, HandlerHoldsMutex
<1>7. TimesPast'
  BY <1>1, <1>2, <1>3 DEF TimesPast
<1>8. RateDivisorPositive'
  BY <1>1, <1>2, <1>3, <1>4 DEF RateDivisorPositive
<1>9. CountsExact' /\ IncrementsFresh'
  BY <1>1, <1>4 DEF CountsExact, IncrementsFresh, Outputting
<1>10. BufferInv'
  BY <1>1, <1>4 DEF BufferInv
<1>11. IdleBounded'
  <2>1. monitor[Merger].last_output_time \in Nat /\ monitor[Merger].last_output_time <= now
    BY <1>2 DEF TimesPast
  <2> QED
    BY <1>1, <1>2, <1>3, <1>4, <2>1 DEF IdleBounded, FlushConsidered
<1> QED
  BY <1>1, <1>5, <1>6, <1>7, <1>8, <1>9, <1>10, <1>11

(* The output of a monitor: what is printed is taken off the count, and    *)
(* then off the counter; an increment under way meanwhile tears the two    *)
LEMMA OutputPreserves ==
    ASSUME MonitorInv, PrintMonitor \/ ClearMonitor
    PROVE  MonitorInv'
<1> USE ConstantFacts DEF MonitorInv, monVars, outVars, lockVars, lifeVars
<1>1. /\ alive /\ si \in Slots
      /\ UNCHANGED <<phase, worker, alive, running, tpc, reg, dumper, unflushed, idle,
                     merge_mutex, packets, now, monitor_last_output_time, stops>>
      /\ torn' = [torn EXCEPT ![si] = @ \/ Incrementing(si)]
  BY DEF PrintMonitor, ClearMonitor, At, TypeOK, Tear
<1>2. /\ torn \in [Slots -> BOOLEAN] /\ uncounted \in [Slots -> Int]
      /\ monitor \in [Slots -> [open : BOOLEAN, bytes : Nat, last_output_time : Nat]]
      /\ monitor_last_output_time["pcapsession"] \in Nat
      /\ monitor_last_output_time["pcapsession"] <= now
  BY DEF TypeOK, TimesPast, Units
<1>3. /\ torn' \in [Slots -> BOOLEAN]
      /\ \A i \in Slots : torn[i] => torn'[i]
      /\ ~torn'[si] => ~Incrementing(si)
  BY <1>1, <1>2
<1>4. MonitorsOwned /\ monitor[si].open
  BY DEF PrintMonitor, ClearMonitor, At, MonitorsOwned
<1>5. CASE PrintMonitor
  <2>1. /\ spc = "print" /\ spc' = "clear" /\ si' = si
        /\ UNCHANGED <<monitor, current_time>>
        /\ uncounted' = [uncounted EXCEPT ![si] = @ - monitor[si].bytes]
    BY <1>5 DEF PrintMonitor, At, GoTo
  <2>2. TypeOK'
    <3>1. uncounted' \in [Slots -> Int]
      BY <1>1, <1>2, <2>1
    <3> QED
      BY <1>1, <1>3, <2>1, <3>1 DEF TypeOK, LifeTypeOK, SupervisorPoints
  <2>3. MonitorsOwned' /\ ThreadsFollowPhase' /\ HandlerHoldsMutex' /\ TimesPast' /\ RateDivisorPositive'
    BY <1>1, <2>1
    DEF MonitorsOwned, ThreadsFollowPhase, HandlerHoldsMutex, TimesPast, RateDivisorPositive
  <2>4. ~torn'[si] => uncounted'[si] = 0
    BY <1>1, <1>2, <1>3, <1>4, <2>1 DEF CountsExact, Outputting
  <2>5. CountsExact' /\ IncrementsFresh'
    BY <1>1, <1>2, <1>3, <2>1, <2>4 DEF CountsExact, IncrementsFresh, Outputting
  <2>6. BufferInv' /\ IdleBounded'
    BY <1>1, <2>1 DEF BufferInv, IdleBounded, FlushConsidered
  <2> QED
    BY <1>1, <2>2, <2>3, <2>5, <2>6
<1>6. CASE ClearMonitor
  <2>1. /\ spc = "clear" /\ si' \in Slots /\ current_time' = 0
        /\ \/ spc' = "sleep" /\ si' = Merger
           \/ spc' = "visit" /\ si' # Merger
        /\ uncounted' = uncounted
    BY <1>1, <1>6, NextSlotFacts DEF ClearMonitor, At
  <2>2. /\ monitor' \in [Slots -> [open : BOOLEAN, bytes : Nat, last_output_time : Nat]]
        /\ \A i \in Slots : i # si => monitor'[i] = monitor[i]
        /\ monitor'[si].open /\ monitor'[si].bytes = 0
        /\ monitor'[si].last_output_time = monitor_last_output_time["pcapsession"]
    BY <1>1, <1>2, <1>4, <1>6 DEF ClearMonitor, Cleared
  <2>3. TypeOK'
    BY <1>1, <1>3, <2>1, <2>2 DEF TypeOK, LifeTypeOK, SupervisorPoints
  <2>4. MonitorsOwned' /\ ThreadsFollowPhase' /\ HandlerHoldsMutex' /\ RateDivisorPositive'
    BY <1>1, <1>4, <2>1, <2>2
    DEF MonitorsOwned, ThreadsFollowPhase, HandlerHoldsMutex, RateDivisorPositive
  <2>5. TimesPast'
    BY <1>1, <1>2, <2>2 DEF TimesPast
  <2>6. CountsExact'
    <3>1. ~torn'[si] => uncounted'[si] = 0
      BY <1>1, <1>3, <2>1 DEF IncrementsFresh, Outputting
    <3>2. \A i \in Slots : i # si => ~Outputting(i)
      BY DEF Outputting
    <3> QED
      BY <1>1, <1>3, <2>1, <2>2, <3>1, <3>2, ZenonT(60) DEF CountsExact
  <2>7. IncrementsFresh'
    BY <1>1, <1>2, <1>3, <2>1, <2>2, ZenonT(60) DEF IncrementsFresh, Incrementing, Outputting
  <2>8. BufferInv'
    BY <1>1, <2>1, <2>2 DEF BufferInv
  <2>9. IdleBounded'
    BY <1>1, <2>1, <2>2 DEF IdleBounded, FlushConsidered
  <2> QED
    BY <1>1, <2>3, <2>4, <2>5, <2>6, <2>7, <2>8, <2>9
<1> QED
  BY <1>5, <1>6

-----------------------------------------------------------------------------
(* pcapsession_start and pcapsession_stop up to the stopper *)
LEMMA StartAndJoinPreserve ==
    ASSUME MonitorInv, StartThread \/ JoinThread
    PROVE  MonitorInv'
<1> USE ConstantFacts DEF MonitorInv, Elsewhere, monVars, outVars, lockVars, lifeVars
<1>1. /\ alive /\ si \in Slots /\ si' = si
      /\ UNCHANGED <<phase, alive, running, monitor, uncounted, torn, reg, dumper, unflushed, idle,
                     merge_mutex, packets, now, monitor_last_output_time, current_time, stops>>
  BY DEF StartThread, JoinThread, At, GoTo, Spawn, Join, TypeOK
<1>2. tpc \in [Slots -> ThreadPoints] /\ worker \in [Slots -> BOOLEAN]
  BY DEF TypeOK, LifeTypeOK
<1>3. /\ tpc' \in [Slots -> ThreadPoints] /\ worker' \in [Slots -> BOOLEAN]
      /\ \A i \in Slots : i # si => tpc'[i] = tpc[i] /\ worker'[i] = worker[i]
      /\ \/ /\ spc = "start" /\ spc' = "carry_on" /\ phase[si] = "active"
            /\ tpc[si] = "none" /\ tpc'[si] = "run" /\ worker'[si]
         \/ /\ spc = "join" /\ spc' = "stopper"
            /\ tpc[si] \in {"none", "run", "open", "dump_open", "loop", "exited"}
            /\ tpc'[si] = "none" /\ ~worker'[si]
  <2>1. CASE StartThread
    BY <1>1, <1>2, <2>1 DEF StartThread, At, GoTo, Spawn, ThreadPoints, ThreadsFollowPhase
  <2>2. CASE JoinThread /\ worker[si]
    BY <1>1, <1>2, <2>2 DEF JoinThread, At, GoTo, Join, ThreadPoints
  <2>3. CASE JoinThread /\ ~worker[si]
    BY <1>1, <1>2, <2>3 DEF JoinThread, At, GoTo, ThreadsFollowPhase
  <2> QED
    BY <2>1, <2>2, <2>3
<1>4. TypeOK'
  BY <1>1, <1>3 DEF TypeOK, LifeTypeOK, SupervisorPoints
<1>5. MonitorsOwned'
  BY <1>1, <1>3 DEF MonitorsOwned, ThreadsFollowPhase
<1>6. ThreadsFollowPhase'
  BY <1>1, <1>3 DEF ThreadsFollowPhase, HandlerPoints
<1>7. HandlerHoldsMutex'
  BY <1>1, <1>3 DEF HandlerHoldsMutex, HandlerPoints
<1>8. TimesPast' /\ RateDivisorPositive'
  BY <1>1, <1>3 DEF TimesPast, RateDivisorPositive
<1>9. CountsExact' /\ IncrementsFresh'
  BY <1>1, <1>3 DEF CountsExact, IncrementsFresh, Outputting
<1>10. BufferInv'
  BY <1>1, <1>3 DEF BufferInv, ThreadsFollowPhase
<1>11. IdleBounded'
  BY <1>1, <1>3 DEF IdleBounded, FlushConsidered
<1> QED
  BY <1>1, <1>4, <1>5, <1>6, <1>7, <1>8, <1>9, <1>10, <1>11

(* The stopper: the dump is closed, and with it nothing waits, before the  *)
(* monitor is; a client's thread that was to add to it sees it freed       *)
LEMMA StopperPreserves ==
    ASSUME MonitorInv, StopperClosesDumper \/ monitor_close
    PROVE  MonitorInv'
<1> USE ConstantFacts DEF MonitorInv, monVars, outVars, lockVars, lifeVars
<1>1. CASE StopperClosesDumper
  <2>1. /\ alive /\ si \in Slots /\ spc = "stopper" /\ spc' = "close"
        /\ UNCHANGED <<phase, worker, alive, running, monitor, uncounted, torn, tpc, reg,
                       merge_mutex, packets, now, monitor_last_output_time, si, current_time, stops>>
    BY <1>1 DEF StopperClosesDumper, At, GoTo, TypeOK
  <2>2. \/ si = Merger /\ ~dumper' /\ dumper' \in BOOLEAN /\ ~unflushed' /\ unflushed' \in BOOLEAN
           /\ idle' = 0
        \/ si # Merger /\ UNCHANGED <<dumper, unflushed, idle>>
    BY <1>1 DEF StopperClosesDumper
  <2>3. TypeOK'
    <3>1. dumper' \in BOOLEAN /\ unflushed' \in BOOLEAN
      BY <2>2 DEF TypeOK
    <3>2. idle' \in Nat
      BY <2>2, SMTT(30) DEF TypeOK
    <3> QED
      BY <2>1, <3>1, <3>2 DEF TypeOK, LifeTypeOK, SupervisorPoints
  <2>4. MonitorsOwned' /\ ThreadsFollowPhase' /\ HandlerHoldsMutex' /\ TimesPast' /\ RateDivisorPositive'
    BY <2>1
    DEF MonitorsOwned, ThreadsFollowPhase, HandlerHoldsMutex, TimesPast, RateDivisorPositive
  <2>5. CountsExact' /\ IncrementsFresh'
    BY <2>1 DEF CountsExact, IncrementsFresh, Outputting
  <2>6. BufferInv'
    BY <2>1, <2>2 DEF BufferInv
  <2>7. IdleBounded'
    <3>1. /\ now \in Nat /\ monitor[Merger].last_output_time \in Nat
          /\ monitor[Merger].last_output_time <= now
      BY DEF TypeOK, TimesPast
    <3> QED
      BY <2>1, <2>2, <3>1 DEF IdleBounded, FlushConsidered
  <2> QED
    BY <2>1, <2>3, <2>4, <2>5, <2>6, <2>7
<1>2. CASE monitor_close
  <2>1. /\ alive /\ si \in Slots /\ spc = "close" /\ ~worker[si]
        /\ UNCHANGED <<worker, alive, reg, dumper, unflushed, idle,
                       merge_mutex, packets, now, monitor_last_output_time, stops>>
    BY <1>2 DEF monitor_close, StopperEnds, At, EndStop, Enters, TypeOK
  <2>2. /\ si' \in Slots /\ current_time' = 0
        /\ \/ spc' = "sleep" /\ si' = Merger
           \/ spc' = "visit" /\ si' # Merger
    BY <1>2, <2>1, NextSlotFacts DEF monitor_close, StopperEnds
  <2>3. /\ phase' \in [Slots -> Phases]
        /\ \A i \in Slots : i # si => phase'[i] = phase[i]
    BY <1>2, <2>1 DEF monitor_close, StopperEnds, EndStop, Enters, Phases, TypeOK, LifeTypeOK
  <2>4. running' \in [Slots -> BOOLEAN] /\ torn' \in [Slots -> BOOLEAN]
    BY <1>2, <2>1 DEF monitor_close, StopperEnds, TypeOK
  <2>5. /\ uncounted' \in [Slots -> Int]
        /\ uncounted'[si] = 0
        /\ \A i \in Slots : i # si => uncounted'[i] = uncounted[i] /\ torn'[i] = torn[i]
    BY <1>2, <2>1 DEF monitor_close, TypeOK
  <2>6. /\ monitor' \in [Slots -> [open : BOOLEAN, bytes : Nat, last_output_time : Nat]]
        /\ monitor'[si].open = FALSE /\ monitor'[si].bytes = 0
        /\ monitor'[si].last_output_time = 0
        /\ \A i \in Slots : i # si => monitor'[i] = monitor[i]
    BY <1>2, <2>1 DEF monitor_close, TypeOK, NULL
  <2>7. /\ tpc' \in [Slots -> ThreadPoints]
        /\ \A i \in Slots : \/ tpc'[i] = tpc[i]
                            \/ tpc[i] = "merger_add" /\ tpc'[i] = "merger_freed"
        /\ si = Merger => \A i \in Slots : tpc'[i] # "merger_add"
    BY <1>2, <2>1 DEF monitor_close, TypeOK, ThreadPoints
  <2>8. TypeOK'
    BY <2>1, <2>2, <2>3, <2>4, <2>5, <2>6, <2>7 DEF TypeOK, LifeTypeOK, SupervisorPoints
  <2>9. tpc[si] = "none" /\ tpc'[si] = "none"
    BY <2>1, <2>7 DEF ThreadsFollowPhase
  <2>10. MonitorsOwned'
    BY <2>1, <2>2, <2>3, <2>6, <2>7, <2>9 DEF MonitorsOwned
  <2>11. ThreadsFollowPhase'
    <3>1. \A i \in Slots : worker'[i] => phase'[i] \in {"active", "stopping"}
      BY <2>1, <2>3 DEF ThreadsFollowPhase
    <3>2. \A i \in Slots : tpc'[i] \in HandlerPoints => monitor'[i].open
      BY <2>1, <2>6, <2>7, <2>9 DEF ThreadsFollowPhase, HandlerPoints
    <3> QED
      BY <2>1, <2>2, <2>7, <3>1, <3>2 DEF ThreadsFollowPhase, HandlerPoints
  <2>12. HandlerHoldsMutex'
    BY <2>1, <2>7 DEF HandlerHoldsMutex, HandlerPoints
  <2>13. TimesPast' /\ RateDivisorPositive'
    <3>1. 0 <= now
      BY DEF TypeOK
    <3>2. \A i \in Slots : monitor'[i].last_output_time <= now'
      <4>1. now' = now /\ \A i \in Slots : monitor[i].last_output_time <= now
        BY <2>1 DEF TimesPast
      <4> QED
        BY <2>6, <3>1, <4>1, Zenon
    <3>3. \A u \in Units : monitor_last_output_time'[u] <= now'
      BY <2>1 DEF TimesPast
    <3>4. spc' # "print"
      BY <2>2
    <3> QED
      BY <3>2, <3>3, <3>4 DEF TimesPast, RateDivisorPositive
  <2>14. CountsExact'
    BY <2>1, <2>2, <2>5, <2>6 DEF CountsExact, Outputting
  <2>15. IncrementsFresh'
    BY <2>1, <2>2, <2>5, <2>6, <2>7, <2>9, ZenonT(60) DEF IncrementsFresh, Outputting
  <2>16. BufferInv'
    BY <2>1, <2>2, <2>6, <2>7, <2>9 DEF BufferInv
  <2>17. IdleBounded'
    <3>1. /\ now \in Nat /\ monitor[Merger].last_output_time \in Nat /\ idle \in Nat
          /\ monitor[Merger].last_output_time <= now
      BY DEF TypeOK, TimesPast
    <3> QED
      BY <2>1, <2>2, <2>6, <3>1 DEF IdleBounded, FlushConsidered
  <2> QED
    BY <2>1, <2>8, <2>10, <2>11, <2>12, <2>13, <2>14, <2>15, <2>16, <2>17
<1> QED
  BY <1>1, <1>2

-----------------------------------------------------------------------------
(* A step of session thread i that leaves the counters alone *)
LEMMA ThreadStepFacts ==
    ASSUME MonitorInv, NEW i \in Slots, NEW a, NEW b \in ThreadPoints, ThreadStep(i, a, b)
    PROVE  /\ alive /\ tpc[i] = a
           /\ tpc' \in [Slots -> ThreadPoints]
           /\ tpc'[i] = b /\ \A j \in Slots : j # i => tpc'[j] = tpc[j]
           /\ UNCHANGED <<phase, worker, now, spc, si, current_time, stops>>
           /\ si \in Slots
BY DEF MonitorInv, TypeOK, ThreadStep, supVars

(* The runners: a monitor is opened by a thread whose session has none *)
LEMMA RunnersPreserve ==
    ASSUME MonitorInv, NEW i \in Slots,
           RunnerSetsRunning(i) \/ monitor_open(i) \/ (i = Merger /\ MergerDumpOpen)
    PROVE  MonitorInv'
<1> USE ConstantFacts DEF MonitorInv, monVars, outVars, lockVars
<1>1. CASE RunnerSetsRunning(i)
  <2>1. /\ tpc[i] = "run"
        /\ tpc' \in [Slots -> ThreadPoints]
        /\ tpc'[i] = "open" /\ \A j \in Slots : j # i => tpc'[j] = tpc[j]
        /\ UNCHANGED <<phase, worker, now, spc, si, current_time, stops>>
    BY <1>1, ThreadStepFacts DEF RunnerSetsRunning, ThreadPoints
  <2>2. UNCHANGED <<alive, monitor, uncounted, torn, reg, dumper, unflushed, idle, merge_mutex,
                    packets, monitor_last_output_time>>
    BY <1>1 DEF RunnerSetsRunning
  <2>3. TypeOK'
    <3>1. running' \in [Slots -> BOOLEAN]
      BY <1>1 DEF RunnerSetsRunning, TypeOK
    <3> QED
      BY <2>1, <2>2, <3>1 DEF TypeOK, LifeTypeOK
  <2>4. MonitorsOwned' /\ TimesPast' /\ RateDivisorPositive'
    BY <2>1, <2>2 DEF MonitorsOwned, TimesPast, RateDivisorPositive
  <2>5. ThreadsFollowPhase' /\ HandlerHoldsMutex'
    BY <2>1, <2>2 DEF ThreadsFollowPhase, HandlerHoldsMutex, HandlerPoints
  <2>6. CountsExact' /\ IncrementsFresh'
    BY <2>1, <2>2 DEF CountsExact, IncrementsFresh, Outputting
  <2>7. alive => BufferInv' /\ IdleBounded'
    BY <2>1, <2>2 DEF BufferInv, IdleBounded, FlushConsidered
  <2> QED
    BY <2>2, <2>3, <2>4, <2>5, <2>6, <2>7
<1>2. CASE monitor_open(i)
  <2>1. /\ alive /\ si \in Slots /\ tpc[i] = "open"
        /\ tpc' \in [Slots -> ThreadPoints]
        /\ tpc'[i] = IF i = Merger THEN "dump_open" ELSE "loop"
        /\ \A j \in Slots : j # i => tpc'[j] = tpc[j]
        /\ UNCHANGED <<phase, worker, now, spc, si, current_time, stops>>
    BY <1>2, ThreadStepFacts DEF monitor_open, ThreadPoints
  <2>2. UNCHANGED <<alive, running, reg, dumper, unflushed, idle, merge_mutex, packets>>
    BY <1>2 DEF monitor_open
  <2> DEFINE last == monitor_last_output_time[Unit(i)]
             time == IF last = 0 THEN now ELSE last
  <2>3. /\ time \in Nat /\ time <= now
        /\ monitor_last_output_time' = [monitor_last_output_time EXCEPT ![Unit(i)] = time]
        /\ monitor' = [monitor EXCEPT ![i] = [open |-> TRUE, bytes |-> 0,
                                              last_output_time |-> time]]
    <3>1. Unit(i) \in Units
      BY DEF Unit, Units
    <3>2. time \in Nat /\ time <= now
      BY <3>1 DEF TypeOK, TimesPast
    <3> QED
      BY <1>2, <3>2 DEF monitor_open
  <2> HIDE DEF time
  <2>4. /\ monitor_last_output_time' \in [Units -> Nat]
        /\ \A u \in Units : monitor_last_output_time'[u] <= now
    BY <2>3 DEF TypeOK, TimesPast
  <2>5. /\ monitor' \in [Slots -> [open : BOOLEAN, bytes : Nat, last_output_time : Nat]]
        /\ monitor'[i].open = TRUE /\ monitor'[i].bytes = 0
        /\ monitor'[i].last_output_time = time
        /\ \A j \in Slots : j # i => monitor'[j] = monitor[j]
    BY <2>3 DEF TypeOK
  <2>6. /\ uncounted' \in [Slots -> Int] /\ uncounted'[i] = 0
        /\ \A j \in Slots : j # i => uncounted'[j] = uncounted[j]
    BY <1>2 DEF monitor_open, TypeOK
  <2>7. /\ torn' \in [Slots -> BOOLEAN]
        /\ \A j \in Slots : j # i => torn'[j] = torn[j]
    BY <1>2 DEF monitor_open, TypeOK
  <2>8. ~monitor[i].open /\ worker[i] /\ phase[i] \in {"active", "stopping"}
    BY <2>1 DEF MonitorsOwned, ThreadsFollowPhase
  <2>9. spc \in {"print", "clear"} => si # i
    BY <2>8 DEF MonitorsOwned
  <2>10. TypeOK'
    BY <2>1, <2>2, <2>4, <2>5, <2>6, <2>7 DEF TypeOK, LifeTypeOK
  <2>11. MonitorsOwned'
    BY <2>1, <2>5, <2>8 DEF MonitorsOwned
  <2>12. ThreadsFollowPhase' /\ HandlerHoldsMutex'
    <3>1. "open" \notin HandlerPoints /\ tpc'[i] \notin HandlerPoints \cup {"none"}
      BY <2>1 DEF HandlerPoints
    <3>2. i = Merger => tpc'[Merger] # "loop"
      BY <2>1
    <3>3. ThreadsFollowPhase'
      BY <2>1, <2>5, <2>8, <3>1, <3>2, ZenonT(60) DEF ThreadsFollowPhase
    <3> QED
      BY <2>1, <2>2, <3>1, <3>3 DEF HandlerHoldsMutex
  <2>13. TimesPast'
    BY <2>1, <2>3, <2>4, <2>5 DEF TimesPast
  <2>14. RateDivisorPositive'
    BY <2>1, <2>5, <2>9 DEF RateDivisorPositive
  <2>15. CountsExact'
    <3>1. \A j \in Slots : Outputting(j)' <=> Outputting(j)
      BY <2>1 DEF Outputting
    <3> QED
      BY <2>5, <2>6, <2>7, <3>1 DEF CountsExact
  <2>16. IncrementsFresh'
    <3>1. \A j \in Slots : Outputting(j)' => j # i /\ Outputting(j)
      BY <2>1, <2>9 DEF Outputting
    <3>2. \A c \in Clients : /\ tpc'[c] \in {"own_add", "merger_add"} => c # i /\ tpc'[c] = tpc[c]
                             /\ tpc[c] = "merger_add" => i # Merger
      BY <2>1, <2>8 DEF IncrementsFresh
    <3> QED
      BY <2>2, <2>5, <2>6, <2>7, <3>1, <3>2, ZenonT(60) DEF IncrementsFresh
  <2>17. BufferInv'
    BY <2>1, <2>2, <2>5, <2>8 DEF BufferInv
  <2>18. IdleBounded'
    BY <2>1, <2>2, <2>5 DEF IdleBounded, FlushConsidered
  <2> QED
    BY <2>10, <2>11, <2>12, <2>13, <2>14, <2>15, <2>16, <2>17, <2>18
<1>3. CASE i = Merger /\ MergerDumpOpen
  <2>1. /\ alive /\ si \in Slots /\ tpc[Merger] = "dump_open"
        /\ tpc' \in [Slots -> ThreadPoints]
        /\ tpc'[Merger] = "exited" /\ \A j \in Slots : j # Merger => tpc'[j] = tpc[j]
        /\ UNCHANGED <<phase, worker, now, spc, si, current_time, stops>>
    BY <1>3, ThreadStepFacts DEF MergerDumpOpen, ThreadPoints
  <2>2. UNCHANGED <<alive, monitor, uncounted, torn, reg, unflushed, idle, merge_mutex,
                    packets, monitor_last_output_time>>
    BY <1>3 DEF MergerDumpOpen
  <2>3. TypeOK'
    <3>1. dumper' \in BOOLEAN /\ running' \in [Slots -> BOOLEAN]
      BY <1>3 DEF MergerDumpOpen, TypeOK
    <3> QED
      BY <2>1, <2>2, <3>1 DEF TypeOK, LifeTypeOK
  <2>4. MonitorsOwned' /\ TimesPast' /\ RateDivisorPositive'
    BY <2>1, <2>2 DEF MonitorsOwned, TimesPast, RateDivisorPositive
  <2>5. ThreadsFollowPhase' /\ HandlerHoldsMutex'
    BY <2>1, <2>2 DEF ThreadsFollowPhase, HandlerHoldsMutex, HandlerPoints
  <2>6. CountsExact' /\ IncrementsFresh'
    BY <2>1, <2>2 DEF CountsExact, IncrementsFresh, Outputting
  <2>7. BufferInv'
    BY <2>1, <2>2 DEF BufferInv, ThreadsFollowPhase
  <2>8. IdleBounded'
    BY <2>1, <2>2 DEF IdleBounded, FlushConsidered
  <2> QED
    BY <2>2, <2>3, <2>4, <2>5, <2>6, <2>7, <2>8
<1> QED
  BY <1>1, <1>2, <1>3

-----------------------------------------------------------------------------
(* A counter is written *)
LEMMA BytesUpdate ==
    ASSUME monitor \in [Slots -> [open : BOOLEAN, bytes : Nat, last_output_time : Nat]],
           reg \in [Slots -> Nat], NEW m \in Slots, NEW c \in Slots,
           monitor' = [monitor EXCEPT ![m].bytes = reg[c] + 1]
    PROVE  /\ monitor' \in [Slots -> [open : BOOLEAN, bytes : Nat, last_output_time : Nat]]
           /\ \A i \in Slots : /\ monitor'[i].open = monitor[i].open
                               /\ monitor'[i].last_output_time = monitor[i].last_output_time
                               /\ i # m => monitor'[i] = monitor[i]
           /\ monitor'[m].bytes = reg[c] + 1
OBVIOUS

(* The packet handler on the thread of client c, apart from the counts: it *)
(* holds merge_mutex, and opens, closes and dates no monitor               *)
LEMMA HandlerFrame ==
    ASSUME MonitorInv, NEW c \in Clients,
           NEW a \in HandlerPoints \cup {"loop"}, NEW b \in HandlerPoints \cup {"loop"},
           HandlerStep(c, a, b),
           merge_mutex' = IF b \in HandlerPoints THEN c ELSE NoSlot,
           a \in HandlerPoints \/ merge_mutex = NoSlot,
           alive' \in BOOLEAN, unflushed' \in BOOLEAN,
           alive' /\ unflushed' => dumper,
           monitor' \in [Slots -> [open : BOOLEAN, bytes : Nat, last_output_time : Nat]],
           \A i \in Slots : /\ monitor'[i].open = monitor[i].open
                            /\ monitor'[i].last_output_time = monitor[i].last_output_time,
           reg' \in [Slots -> Nat], uncounted' \in [Slots -> Int],
           torn' \in [Slots -> BOOLEAN], packets' \in Nat
    PROVE  /\ TypeOK' /\ MonitorsOwned' /\ RateDivisorPositive' /\ ThreadsFollowPhase'
           /\ HandlerHoldsMutex' /\ TimesPast'
           /\ alive' => BufferInv' /\ IdleBounded'
<1> USE ConstantFacts DEF MonitorInv
<1>1. b \in ThreadPoints
  BY DEF HandlerPoints, ThreadPoints
<1>2. /\ alive /\ si \in Slots /\ tpc[c] = a
      /\ tpc' \in [Slots -> ThreadPoints]
      /\ tpc'[c] = b /\ \A j \in Slots : j # c => tpc'[j] = tpc[j]
      /\ UNCHANGED <<phase, worker, now, spc, si, current_time, stops>>
  BY <1>1, ThreadStepFacts DEF HandlerStep
<1>3. idle' = 0 /\ UNCHANGED <<running, dumper, monitor_last_output_time>>
  BY DEF HandlerStep
<1>4. TypeOK'
  BY <1>2, <1>3 DEF TypeOK, LifeTypeOK
<1>5. a # "none" /\ b \notin {"none", "run", "open", "dump_open"} /\ monitor[c].open
  BY <1>2 DEF HandlerPoints, MonitorsOwned, ThreadsFollowPhase
<1>6. MonitorsOwned'
  BY <1>2, <1>5 DEF MonitorsOwned
<1>7. ThreadsFollowPhase'
  BY <1>2, <1>5 DEF ThreadsFollowPhase
<1>8. HandlerHoldsMutex'
  BY <1>2 DEF HandlerHoldsMutex
<1>9. TimesPast' /\ RateDivisorPositive'
  <2>1. TimesPast'
    BY <1>2, <1>3 DEF TimesPast
  <2>2. RateDivisorPositive'
    BY <1>2, <1>3 DEF RateDivisorPositive
  <2> QED
    BY <2>1, <2>2
<1>10. alive' => BufferInv'
  BY <1>2, <1>3, SMTT(30) DEF BufferInv
<1>11. IdleBounded'
  <2>1. /\ now \in Nat /\ monitor'[Merger].last_output_time \in Nat
        /\ monitor'[Merger].last_output_time <= now
    BY DEF TypeOK, TimesPast
  <2>2. spc' = "sleep" => si' = Merger
    BY <1>2 DEF IdleBounded
  <2>3. 0 <= now - monitor'[Merger].last_output_time + (IF FlushConsidered' THEN 1 ELSE 0)
    <3>1. CASE FlushConsidered'
      BY <2>1, <3>1
    <3>2. CASE ~FlushConsidered'
      BY <2>1, <3>2, SMTT(30)
    <3> QED
      BY <3>1, <3>2
  <2> QED
    BY <1>2, <1>3, <2>2, <2>3 DEF IdleBounded
<1> QED
  BY <1>4, <1>6, <1>7, <1>8, <1>9, <1>10, <1>11

(* A step of the packet handler moves one client's thread *)
LEMMA HandlerStepFacts ==
    ASSUME MonitorInv, NEW c \in Clients, NEW a \in HandlerPoints \cup {"loop"},
           NEW b \in HandlerPoints \cup {"loop"}, HandlerStep(c, a, b)
    PROVE  /\ alive /\ tpc[c] = a /\ si \in Slots
           /\ tpc'[c] = b /\ \A j \in Slots : j # c => tpc'[j] = tpc[j]
           /\ UNCHANGED <<spc, si>>
           /\ a \in HandlerPoints => merge_mutex = c
<1>1. HandlerPoints \cup {"loop"} \subseteq ThreadPoints
  BY DEF HandlerPoints, ThreadPoints
<1> QED
  BY <1>1, ConstantFacts, ThreadStepFacts DEF MonitorInv, HandlerStep, HandlerHoldsMutex

(* monitor_increment, by the one thread inside the packet handler: a       *)
(* counter is written back one higher than it was read                     *)
LEMMA IncrementPreserves ==
    ASSUME MonitorInv, NEW c \in Clients, NEW m \in Slots, NEW a \in HandlerPoints,
           NEW b \in HandlerPoints \cup {"loop"},
           IncrementWrites(c, m, a, b), b # "own_add", b # "merger_add",
           merge_mutex' = IF b = "loop" THEN NoSlot ELSE c,
           ~torn[m] => reg[c] = monitor[m].bytes
    PROVE  MonitorInv'
<1> USE ConstantFacts DEF MonitorInv, monVars, lockVars
<1> DEFINE Monitors == [open : BOOLEAN, bytes : Nat, last_output_time : Nat]
<1>1. /\ monitor \in [Slots -> Monitors] /\ reg \in [Slots -> Nat] /\ packets \in Nat
      /\ uncounted \in [Slots -> Int] /\ torn \in [Slots -> BOOLEAN]
      /\ unflushed \in BOOLEAN /\ dumper \in BOOLEAN
  BY DEF TypeOK
<1>2. /\ alive /\ tpc[c] = a /\ si \in Slots
      /\ tpc'[c] = b /\ \A j \in Slots : j # c => tpc'[j] = tpc[j]
      /\ UNCHANGED <<spc, si>> /\ merge_mutex = c
  BY HandlerStepFacts DEF IncrementWrites
<1>3. {"own_add", "merger", "merger_add", "merger_freed"} = HandlerPoints /\ "loop" \notin HandlerPoints
  BY DEF HandlerPoints
<1>4. \A d \in Clients : tpc[c] \in HandlerPoints /\ d # c => tpc[d] \notin HandlerPoints
  BY DEF HandlerHoldsMutex
<1>5. UNCHANGED <<spc, si>> => \A i \in Slots : Outputting(i)' <=> Outputting(i)
  BY DEF Outputting
<1>6. /\ HandlerStep(c, a, b)
      /\ monitor' = [monitor EXCEPT ![m].bytes = reg[c] + 1]
      /\ uncounted' = [uncounted EXCEPT ![m] = @ + 1]
      /\ torn' = [torn EXCEPT ![m] = @ \/ Outputting(m)]
      /\ reg' = [reg EXCEPT ![c] = 0]
      /\ UNCHANGED <<alive, unflushed, packets>>
  BY DEF IncrementWrites
<1>7. reg' \in [Slots -> Nat] /\ uncounted' \in [Slots -> Int]
  <2>1. reg \in [Slots -> Nat] /\ reg' = [reg EXCEPT ![c] = 0]
    BY <1>1, <1>6
  <2>2. uncounted \in [Slots -> Int] /\ uncounted' = [uncounted EXCEPT ![m] = @ + 1]
    BY <1>1, <1>6
  <2> HIDE DEF MonitorInv
  <2>3. reg' \in [Slots -> Nat]
    BY <2>1
  <2>4. uncounted' \in [Slots -> Int]
    BY <2>2
  <2> QED
    BY <2>3, <2>4
<1>8. torn' \in [Slots -> BOOLEAN]
  BY <1>1, <1>6
<1>9. /\ monitor' \in [Slots -> Monitors]
      /\ \A i \in Slots : /\ monitor'[i].open = monitor[i].open
                          /\ monitor'[i].last_output_time = monitor[i].last_output_time
                          /\ i # m => monitor'[i] = monitor[i]
      /\ monitor'[m].bytes = reg[c] + 1
  <2>1. m \in Slots /\ c \in Slots
    OBVIOUS
  <2>2. monitor' = [monitor EXCEPT ![m].bytes = reg[c] + 1]
    BY <1>6
  <2> HIDE DEF MonitorInv
  <2>3. /\ monitor' \in [Slots -> [open : BOOLEAN, bytes : Nat, last_output_time : Nat]]
        /\ \A i \in Slots : /\ monitor'[i].open = monitor[i].open
                            /\ monitor'[i].last_output_time = monitor[i].last_output_time
                            /\ i # m => monitor'[i] = monitor[i]
        /\ monitor'[m].bytes = reg[c] + 1
    BY <1>1, <2>1, <2>2, BytesUpdate
  <2> QED
    BY <2>3
<1>10. /\ uncounted'[m] = uncounted[m] + 1
       /\ \A i \in Slots : i # m => uncounted'[i] = uncounted[i] /\ torn'[i] = torn[i]
       /\ ~torn'[m] => ~torn[m] /\ ~Outputting(m)
  BY <1>1, <1>6
<1>11. CountsExact'
  <2>1. monitor'[m].open /\ ~torn'[m] => monitor'[m].bytes = uncounted'[m]
    <3>1. SUFFICES ASSUME monitor'[m].open, ~torn'[m]
                   PROVE  monitor'[m].bytes = uncounted'[m]
      OBVIOUS
    <3>2. monitor[m].open
      BY <1>9, <3>1
    <3>3. ~torn[m] /\ ~Outputting(m)
      BY <1>10, <3>1
    <3>4. monitor[m].bytes = uncounted[m]
      BY <3>2, <3>3 DEF CountsExact
    <3> QED
      BY <1>9, <1>10, <3>3, <3>4
  <2> QED
    BY <1>2, <1>5, <1>6, <1>9, <1>10, <2>1 DEF CountsExact
<1>12. IncrementsFresh'
  <2>1. \A d \in Clients : tpc'[d] \notin {"own_add", "merger_add"}
    BY <1>2, <1>3, <1>4, <1>6
  <2> QED
    BY <1>2, <1>5, <1>6, <1>10, <2>1 DEF IncrementsFresh
<1>13. alive' /\ unflushed' => dumper
  BY <1>2, <1>6 DEF BufferInv
<1>14. merge_mutex' = IF b \in HandlerPoints THEN c ELSE NoSlot
  BY <1>3
<1>15. alive' \in BOOLEAN /\ unflushed' \in BOOLEAN /\ packets' \in Nat
  BY <1>1, <1>6 DEF TypeOK, LifeTypeOK
<1> QED
  BY <1>6, <1>7, <1>8, <1>9, <1>11, <1>12, <1>13, <1>14, <1>15, HandlerFrame

(* Increments: a counter is read, and written back one higher, by the one  *)
(* thread inside the packet handler.                                       *)
LEMMA HandlerPreserves ==
    ASSUME MonitorInv, NEW c \in Clients,
           \/ HandlerDumps(c) \/ IncrementOwn(c) \/ IncrementReadsMerger(c)
           \/ IncrementMerger(c) \/ IncrementNothing(c) \/ IncrementFreed(c)
    PROVE  MonitorInv'
<1> USE ConstantFacts DEF MonitorInv, monVars, lockVars
<1> DEFINE Monitors == [open : BOOLEAN, bytes : Nat, last_output_time : Nat]
<1>1. /\ monitor \in [Slots -> Monitors] /\ reg \in [Slots -> Nat] /\ packets \in Nat
      /\ uncounted \in [Slots -> Int] /\ torn \in [Slots -> BOOLEAN]
      /\ unflushed \in BOOLEAN /\ dumper \in BOOLEAN
  BY DEF TypeOK
<1>2. \A a \in HandlerPoints \cup {"loop"} : \A b \in HandlerPoints \cup {"loop"} :
        HandlerStep(c, a, b) =>
            /\ alive /\ tpc[c] = a /\ si \in Slots
            /\ tpc'[c] = b /\ \A j \in Slots : j # c => tpc'[j] = tpc[j]
            /\ UNCHANGED <<spc, si>>
            /\ a \in HandlerPoints => merge_mutex = c
  BY HandlerStepFacts
<1>3. {"own_add", "merger", "merger_add", "merger_freed"} = HandlerPoints /\ "loop" \notin HandlerPoints
  BY DEF HandlerPoints
<1>4. \A d \in Clients : tpc[c] \in HandlerPoints /\ d # c => tpc[d] \notin HandlerPoints
  BY DEF HandlerHoldsMutex
<1>5. UNCHANGED <<spc, si>> => \A i \in Slots : Outputting(i)' <=> Outputting(i)
  BY DEF Outputting
<1>6. CASE HandlerDumps(c)
  <2>1. /\ HandlerStep(c, "loop", "own_add") /\ merge_mutex = NoSlot /\ merge_mutex' = c
        /\ packets' = packets + 1 /\ alive' = dumper /\ unflushed' = TRUE
        /\ reg' = [reg EXCEPT ![c] = monitor[c].bytes]
        /\ UNCHANGED <<monitor, uncounted, torn>>
    BY <1>6 DEF HandlerDumps
  <2>2. reg' \in [Slots -> Nat] /\ packets' \in Nat
    BY <1>1, <2>1, SMTT(30)
  <2>3. CountsExact'
    BY <1>2, <1>3, <1>5, <2>1 DEF CountsExact
  <2>4. IncrementsFresh'
    BY <1>1, <1>2, <1>3, <1>5, <2>1, ZenonT(60) DEF IncrementsFresh
  <2> QED
    BY <1>1, <1>3, <2>1, <2>2, <2>3, <2>4, HandlerFrame
<1>8. CASE IncrementOwn(c)
  <2>1. IncrementWrites(c, c, "own_add", "merger") /\ merge_mutex' = merge_mutex
    BY <1>8 DEF IncrementOwn
  <2>2. merge_mutex = c
    BY <1>2, <1>3, <2>1 DEF IncrementWrites
  <2>3. "own_add" \in HandlerPoints /\ "merger" \in HandlerPoints \cup {"loop"}
    BY <1>3
  <2>4. /\ merge_mutex' = IF "merger" = "loop" THEN NoSlot ELSE c
        /\ "merger" # "own_add" /\ "merger" # "merger_add"
        /\ c \in Slots
    BY <2>1, <2>2
  <2>5. ~torn[c] => reg[c] = monitor[c].bytes
    BY <1>2, <1>3, <2>1 DEF IncrementWrites, IncrementsFresh
  <2> HIDE DEF MonitorInv
  <2> QED
    BY <2>1, <2>3, <2>4, <2>5, IncrementPreserves
<1>9. CASE IncrementMerger(c)
  <2>1. IncrementWrites(c, Merger, "merger_add", "loop") /\ merge_mutex' = NoSlot
    BY <1>9 DEF IncrementMerger, Unlock
  <2>2. ~torn[Merger] => reg[c] = monitor[Merger].bytes
    BY <1>2, <1>3, <2>1 DEF IncrementWrites, IncrementsFresh
  <2> QED
    BY <1>3, <2>1, <2>2, IncrementPreserves
<1>10. CASE IncrementReadsMerger(c)
  <2>1. /\ HandlerStep(c, "merger", "merger_add")
        /\ monitor[Merger].open
        /\ reg' = [reg EXCEPT ![c] = monitor[Merger].bytes]
        /\ UNCHANGED <<alive, monitor, uncounted, torn, unflushed, merge_mutex, packets>>
    BY <1>10 DEF IncrementReadsMerger
  <2>2. reg' \in [Slots -> Nat] /\ merge_mutex = c
    BY <1>1, <1>2, <1>3, <2>1
  <2>6. reg'[c] = monitor[Merger].bytes /\ \A d \in Clients : d # c => reg'[d] = reg[d]
    BY <1>1, <2>1
  <2>7. /\ tpc'[c] = "merger_add" /\ \A d \in Clients : d # c => tpc'[d] = tpc[d]
        /\ UNCHANGED <<spc, si>>
    BY <1>2, <1>3, <2>1
  <2>3. CountsExact'
    BY <1>2, <1>3, <1>5, <2>1 DEF CountsExact
  <2>4. IncrementsFresh'
    BY <1>5, <2>1, <2>6, <2>7 DEF IncrementsFresh
  <2>5. alive' /\ unflushed' => dumper
    BY <1>2, <1>3, <2>1 DEF BufferInv
  <2> QED
    BY <1>1, <1>3, <2>1, <2>2, <2>3, <2>4, <2>5, HandlerFrame DEF TypeOK, LifeTypeOK
<1>11. CASE IncrementNothing(c)
  <2>1. /\ HandlerStep(c, "merger", "loop") /\ merge_mutex' = NoSlot
        /\ UNCHANGED <<alive, monitor, uncounted, torn, reg, unflushed, packets>>
    BY <1>11 DEF IncrementNothing, Unlock
  <2>2. CountsExact'
    BY <1>2, <1>3, <1>5, <2>1 DEF CountsExact
  <2>3. IncrementsFresh'
    BY <1>1, <1>2, <1>3, <1>5, <2>1 DEF IncrementsFresh
  <2>4. alive' /\ unflushed' => dumper
    BY <1>2, <1>3, <2>1 DEF BufferInv
  <2> QED
    BY <1>1, <1>3, <2>1, <2>2, <2>3, <2>4, HandlerFrame DEF TypeOK, LifeTypeOK
<1>12. CASE IncrementFreed(c)
  <2>1. /\ HandlerStep(c, "merger_freed", "loop") /\ merge_mutex' = NoSlot
        /\ reg' = [reg EXCEPT ![c] = 0]
        /\ UNCHANGED <<unflushed, packets>>
        /\ \/ alive' \in BOOLEAN /\ UNCHANGED <<monitor, uncounted, torn>>
           \/ /\ monitor' = [monitor EXCEPT ![Merger].bytes = reg[c] + 1]
              /\ torn' = [torn EXCEPT ![Merger] = TRUE]
              /\ UNCHANGED <<alive, uncounted>>
    BY <1>12 DEF IncrementFreed, Unlock
  <2>2. reg' \in [Slots -> Nat]
    BY <1>1, <2>1
  <2>3. alive' \in BOOLEAN /\ torn' \in [Slots -> BOOLEAN]
    BY <1>1, <2>1 DEF TypeOK, LifeTypeOK
  <2>4. /\ monitor' \in [Slots -> Monitors]
        /\ \A i \in Slots : /\ monitor'[i].open = monitor[i].open
                            /\ monitor'[i].last_output_time = monitor[i].last_output_time
                            /\ torn[i] => torn'[i]
                            /\ ~torn'[i] => monitor'[i] = monitor[i]
        /\ uncounted' = uncounted
    <3>1. CASE UNCHANGED <<monitor, uncounted, torn>>
      BY <1>1, <3>1
    <3>2. CASE /\ monitor' = [monitor EXCEPT ![Merger].bytes = reg[c] + 1]
               /\ torn' = [torn EXCEPT ![Merger] = TRUE]
               /\ UNCHANGED uncounted
      <4>1. /\ monitor' \in [Slots -> Monitors]
            /\ \A i \in Slots : /\ monitor'[i].open = monitor[i].open
                                /\ monitor'[i].last_output_time = monitor[i].last_output_time
                                /\ i # Merger => monitor'[i] = monitor[i]
        <5> HIDE DEF MonitorInv
        <5>1. Merger \in Slots /\ c \in Slots
          OBVIOUS
        <5> QED
          BY <1>1, <3>2, <5>1, BytesUpdate
      <4>2. torn'[Merger] /\ \A i \in Slots : torn[i] => torn'[i]
        BY <1>1, <3>2
      <4> QED
        BY <3>2, <4>1, <4>2
    <3> QED
      BY <2>1, <3>1, <3>2
  <2>5. CountsExact'
    <3>1. \A i \in Slots : Outputting(i)' <=> Outputting(i)
      BY <1>2, <1>3, <1>5, <2>1
    <3> QED
      BY <2>4, <3>1 DEF CountsExact
  <2>6. IncrementsFresh'
    <3>1. \A d \in Clients : tpc'[d] \notin {"own_add", "merger_add"}
      BY <1>2, <1>3, <1>4, <2>1
    <3> QED
      BY <1>2, <1>3, <1>5, <2>1, <2>4, <3>1 DEF IncrementsFresh
  <2>7. alive' /\ unflushed' => dumper
    BY <1>2, <1>3, <2>1 DEF BufferInv
  <2> QED
    BY <1>1, <1>3, <2>1, <2>2, <2>3, <2>4, <2>5, <2>6, <2>7, HandlerFrame
<1> QED
  BY <1>6, <1>8, <1>9, <1>10, <1>11, <1>12

-----------------------------------------------------------------------------
(* A second passes: a visit of the merger may wait for it, and the seconds *)
(* since its last output grow with the visits that the packets wait for.   *)
LEMMA TickPreserves ==
    ASSUME MonitorInv, Tick
    PROVE  MonitorInv'
<1> USE ConstantFacts DEF MonitorInv, monVars, outVars, lockVars, lifeVars
<1>1. /\ alive /\ si \in Slots /\ spc \in {"sleep", "visit"} /\ spc' = "visit"
      /\ now \in Nat /\ now' = now + 1
      /\ UNCHANGED <<phase, worker, alive, running, monitor, uncounted, torn, tpc, reg, dumper,
                     unflushed, idle, merge_mutex, packets, monitor_last_output_time, si,
                     current_time, stops>>
  BY DEF Tick, TypeOK
<1>2. now' \in Nat
  BY <1>1
<1> HIDE DEF Tick
<1>3. TypeOK'
  BY <1>1, <1>2 DEF TypeOK, LifeTypeOK, SupervisorPoints
<1>4. /\ MonitorsOwned' /\ CountsExact' /\ RateDivisorPositive' /\ ThreadsFollowPhase'
      /\ HandlerHoldsMutex' /\ IncrementsFresh' /\ BufferInv'
  BY <1>1 DEF MonitorsOwned, CountsExact, RateDivisorPositive, ThreadsFollowPhase,
              HandlerHoldsMutex, IncrementsFresh, BufferInv, Outputting
<1>5. TimesPast'
  <2>1. \A u \in Units : monitor_last_output_time[u] \in Nat /\ monitor_last_output_time[u] <= now
    BY DEF TimesPast, TypeOK
  <2>2. \A i \in Slots : monitor[i].last_output_time \in Nat /\ monitor[i].last_output_time <= now
    BY DEF TimesPast, TypeOK
  <2> QED
    BY <1>1, <2>1, <2>2 DEF TimesPast
<1>6. IdleBounded'
  <2>1. monitor[Merger].last_output_time \in Nat /\ idle \in Nat
    BY DEF TypeOK
  <2>2. /\ idle <= MONITOR_OUTPUT_INTERVAL + 1
        /\ monitor[Merger].bytes # 0 =>
             /\ idle <= now - monitor[Merger].last_output_time + (IF FlushConsidered THEN 1 ELSE 0)
             /\ idle <= MONITOR_OUTPUT_INTERVAL
    BY <1>1 DEF IdleBounded
  <2>3. monitor[Merger].bytes # 0 =>
            idle' <= now' - monitor[Merger]'.last_output_time + (IF FlushConsidered' THEN 1 ELSE 0)
    <3>1. CASE FlushConsidered'
      BY <1>1, <2>1, <2>2, <3>1
    <3>2. CASE ~FlushConsidered'
      BY <1>1, <2>1, <2>2, <3>2
    <3> QED
      BY <3>1, <3>2
  <2>4. /\ spc' # "sleep" /\ idle' <= MONITOR_OUTPUT_INTERVAL + 1
        /\ monitor[Merger]'.bytes # 0 => idle' <= MONITOR_OUTPUT_INTERVAL
        /\ monitor[Merger]' = monitor[Merger]
    BY <1>1, <2>2
  <2> HIDE DEF MonitorInv
  <2> QED
    BY <2>3, <2>4 DEF IdleBounded
<1> QED
  BY <1>3, <1>4, <1>5, <1>6

LEMMA NextPreserves ==
    ASSUME MonitorInv, [Next]_vars
    PROVE  MonitorInv'
<1>1. CASE Tick
  BY <1>1, TickPreserves
<1>2. CASE Supervise
  BY <1>2, MovesPreserve, FlushPreserves, DecidePreserves, OutputPreserves, StartAndJoinPreserve,
     StopperPreserves
     DEF Supervise
<1>3. ASSUME NEW i \in Slots, SessionThread(i)
      PROVE  MonitorInv'
  BY <1>3, RunnersPreserve, HandlerPreserves DEF SessionThread
<1>4. CASE UNCHANGED vars
  BY <1>4 DEF vars, lifeVars, monVars, outVars, lockVars, timeVars, supVars, MonitorInv, TypeOK,
              LifeTypeOK, MonitorsOwned, CountsExact, RateDivisorPositive, ThreadsFollowPhase,
              HandlerHoldsMutex, IncrementsFresh, TimesPast, BufferInv, IdleBounded,
              FlushConsidered, Outputting
<1> QED
  BY <1>1, <1>2, <1>3, <1>4 DEF Next, Over

LEMMA InitHolds ==
    ASSUME Init
    PROVE  MonitorInv
<1> USE ConstantFacts DEF Init
<1>1. TypeOK
  <2>1. LifeTypeOK
    BY DEF LifeTypeOK, Phases
  <2>2. monitor \in [Slots -> [open : BOOLEAN, bytes : Nat, last_output_time : Nat]]
    BY DEF NULL
  <2>3. /\ running \in [Slots -> BOOLEAN] /\ torn \in [Slots -> BOOLEAN]
        /\ dumper \in BOOLEAN /\ unflushed \in BOOLEAN
    OBVIOUS
  <2>4. /\ reg \in [Slots -> Nat] /\ uncounted \in [Slots -> Int]
        /\ monitor_last_output_time \in [Units -> Nat]
        /\ now \in Nat /\ current_time \in Nat /\ idle \in Nat /\ packets \in Nat /\ stops \in Nat
    OBVIOUS
  <2>5. /\ tpc \in [Slots -> ThreadPoints] /\ spc \in SupervisorPoints
        /\ si \in Slots /\ merge_mutex \in Clients \cup {NoSlot}
    BY DEF ThreadPoints, SupervisorPoints, Merger
  <2> QED
    BY <2>1, <2>2, <2>3, <2>4, <2>5 DEF TypeOK
<1>2. /\ MonitorsOwned /\ CountsExact /\ RateDivisorPositive /\ ThreadsFollowPhase
      /\ HandlerHoldsMutex /\ IncrementsFresh
  BY DEF MonitorsOwned, CountsExact, RateDivisorPositive, ThreadsFollowPhase, HandlerHoldsMutex,
         HandlerPoints, IncrementsFresh, Outputting, NULL
<1>3. TimesPast /\ BufferInv
  BY DEF TimesPast, BufferInv, NULL, Merger
<1>4. IdleBounded
  BY DEF IdleBounded, NULL
<1> QED
  BY <1>1, <1>2, <1>3, <1>4 DEF MonitorInv

-----------------------------------------------------------------------------
(* MonitorInv holds throughout: the threads of the sessions follow their   *)
(* phases, the packet handler is the holder of merge_mutex, an increment   *)
(* writes back what it read, and packets wait in the merger's buffer for   *)
(* no more visits than seconds since its monitor was output.               *)
THEOREM MonitorInvariant == Spec => []MonitorInv
<1>1. Init => MonitorInv
  BY InitHolds
<1>2. MonitorInv /\ [Next]_vars => MonitorInv'
  BY NextPreserves
<1> QED
  BY <1>1, <1>2, PTL DEF Spec

(* The monitors of pcapmerger and what supervises them stay well typed *)
THEOREM TypeCorrect == Spec => []TypeOK
<1>1. MonitorInv => TypeOK
  BY DEF MonitorInv
<1> QED
  BY <1>1, MonitorInvariant, PTL

(* Whatever is counted by any number of client threads and not printed yet *)
(* stands in the counters of monitor_increment, unless an output and an    *)
(* increment overlapped.                                                   *)
THEOREM CountsKept == Spec => []CountsExact
<1>1. MonitorInv => CountsExact
  BY DEF MonitorInv
<1> QED
  BY <1>1, MonitorInvariant, PTL

(* handle_monitor never divides by zero seconds since the last output *)
THEOREM NoDivisionByZero == Spec => []RateDivisorPositive
<1>1. MonitorInv => RateDivisorPositive
  BY DEF MonitorInv
<1> QED
  BY <1>1, MonitorInvariant, PTL

(* The merger's output is flushed once it is idle, within as many visits   *)
(* of the supervision thread as an output interval has seconds, and one.   *)
THEOREM IdleFlushed == Spec => []IdleOutputFlushed
<1>1. MonitorInv => IdleOutputFlushed
  BY DEF MonitorInv, IdleBounded, IdleOutputFlushed
<1> QED
  BY <1>1, MonitorInvariant, PTL

(* monitor_open loses no monitor and monitor_close frees none that the     *)
(* session's own thread or handle_monitor still uses.                      *)
THEOREM MonitorsLive == Spec => []MonitorsOwned
<1>1. MonitorInv => MonitorsOwned
  BY DEF MonitorInv
<1> QED
  BY <1>1, MonitorInvariant, PTL
=============================================================================
