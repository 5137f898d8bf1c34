------------------------- MODULE TelemetryCollector -------------------------
(***************************************************************************)
(* forecasting/telemetry_collector.py: tails the file of states the proxy  *)
(* writes and appends each line to the StateStore.  The writer of the file *)
(* is external: its buffer may cut a line in two, so a line is two cells,  *)
(* and the file may be replaced, removed or truncated between any two      *)
(* system calls of the collector.  A chunk of the reader holds the file.   *)
(***************************************************************************)
EXTENDS StateStore

CONSTANTS
    Garbled,            \* lines that are not the JSON of a state
    Platforms,          \* "posix", "windows"
    Modes,              \* "follow" and "drain": run(follow); "once": ingest_file
    Logged,             \* the lines of the log that are followed, its first ones
    MaxFaults           \* bound on replaced files, truncations and restarts

CollectorAssumption ==
    /\ StoreAssumption
    /\ "run" \in Threads
    /\ Logged = 1 .. Cardinality(Logged) /\ Logged \subseteq Lines /\ Garbled \subseteq Logged
    /\ Platforms \subseteq {"posix", "windows"} /\ Modes \subseteq {"follow", "drain", "once"}
    /\ MaxFaults \in Nat

VARIABLES
    disk, path, written,        \* cells by file, the file at log_path, the cells out so far
    platform, mode,
    pc,                         \* the next statement of run or ingest_file
    running,                    \* _running
    file_obj,                   \* the open file: its file, raw offset and decoded cells ahead
    changed,                    \* os.stat(log_path) differs from what fstat gave at open
    truncations, restarts,
    halved                      \* history: lines a readline cut in two

fsVars  == <<disk, path, written, truncations>>
ctlVars == <<pc, running, file_obj, changed, halved>>
runVars == <<platform, mode, restarts>>

None == 0
Closed == [id |-> None, raw |-> 0, ahead |-> <<>>]
Faults   == Len(disk) + truncations + restarts      \* with the first file
Cells(l) == <<<<l, "begin">>, <<l, "end">>>>        \* the second one has the newline

Init ==
    /\ StoreInit
    /\ disk = <<>> /\ path = None /\ written = 0
    /\ platform \in Platforms /\ mode \in Modes
    /\ pc = "open" /\ running = TRUE /\ file_obj = Closed /\ changed = FALSE
    /\ truncations = 0 /\ restarts = 0 /\ halved = {}

----------------------------------------------------------------------------
\* The file system and the writer of the log.

\* A change of the file at the path: on POSIX st_ctime moves with it, unless it falls in the
\* same tick of the clock; on Windows st_ctime is the creation time.
Touched == changed' \in IF platform = "posix" THEN {changed, TRUE} ELSE {changed}

WriteCell ==
    /\ path # None /\ written < 2 * Cardinality(Logged)
    /\ disk' = [disk EXCEPT ![path] = Append(@, Cells((written \div 2) + 1)[(written % 2) + 1])]
    /\ written' = written + 1
    /\ Touched
    /\ UNCHANGED <<storeVars, runVars, path, truncations, pc, running, file_obj, halved>>

\* The proxy writes as long as it runs: what comes behind the lines followed here is not kept,
\* but it touches the file, however often and between any two calls of the collector.
WriteOn ==
    /\ path # None /\ written = 2 * Cardinality(Logged) /\ SumFunction(appended) < MaxAppends
    /\ Touched
    /\ UNCHANGED <<storeVars, fsVars, runVars, pc, running, file_obj, halved>>

\* The name is taken from the file (rotation by renaming), or given to a new one.
Unlink ==
    /\ path # None
    /\ path' = None
    /\ UNCHANGED <<storeVars, runVars, disk, written, truncations, ctlVars>>
Create ==
    /\ path = None /\ Faults <= MaxFaults
    /\ disk' = Append(disk, <<>>) /\ path' = Len(disk')
    /\ changed' = TRUE
    /\ UNCHANGED <<storeVars, runVars, written, truncations, pc, running, file_obj, halved>>

Truncate ==
    /\ path # None /\ disk[path] # <<>> /\ Faults <= MaxFaults
    /\ disk' = [disk EXCEPT ![path] = <<>>]
    /\ truncations' = truncations + 1
    /\ Touched
    /\ UNCHANGED <<storeVars, runVars, path, written, pc, running, file_obj, halved>>

----------------------------------------------------------------------------
\* The collector.

Goto(label) == pc' = label /\ UNCHANGED running
Opened(f)   == file_obj' = [id |-> f, raw |-> 0, ahead |-> <<>>] /\ changed' = FALSE

\* while self._running, and os.path.exists before the first open
LoopHead ==
    /\ pc = "open"
    /\ \/ ~running /\ mode # "once" /\ Goto("final")
       \/ (running \/ mode = "once") /\ file_obj # Closed /\ Goto("check")
       \/ (running \/ mode = "once") /\ file_obj = Closed
            /\ \/ path # None /\ Goto("opening")
               \/ path = None /\ mode = "once" /\ Goto("ended")
    /\ UNCHANGED <<storeVars, fsVars, runVars, file_obj, changed, halved>>

\* open(): the file may have gone since, which only the finally clause of run sees
Open ==
    /\ pc = "opening"
    /\ \/ path # None /\ Opened(path) /\ Goto(IF mode = "once" THEN "read" ELSE "check")
       \/ path = None /\ Goto(IF mode = "once" THEN "ended" ELSE "final")
            /\ UNCHANGED <<file_obj, changed>>
    /\ UNCHANGED <<storeVars, fsVars, runVars, halved>>

\* st_size < tell(), which counts the cells handed out and not those read ahead
SizeRegressed == Len(disk[path]) < file_obj.raw - Len(file_obj.ahead)

Rotated_InodeOnly == path # file_obj.id /\ platform = "posix"
Rotated == changed \/ (path # file_obj.id /\ platform = "posix") \/ SizeRegressed

\* os.stat, and close() when it tells of a rotation
CheckRotation ==
    /\ pc = "check"
    /\ \/ path = None /\ Goto("read") /\ UNCHANGED file_obj
       \/ path # None /\ ~Rotated /\ Goto("read") /\ UNCHANGED file_obj
       \/ path # None /\ Rotated /\ Goto("reopen") /\ file_obj' = Closed
    /\ UNCHANGED <<storeVars, fsVars, runVars, changed, halved>>

\* The second open: a FileNotFoundError is caught, and leaves a closed file.
Reopen ==
    /\ pc = "reopen"
    /\ \/ path # None /\ Opened(path)
       \/ path = None /\ UNCHANGED <<file_obj, changed>>
    /\ Goto("read")
    /\ UNCHANGED <<storeVars, fsVars, runVars, halved>>

\* readline(): out of the cells read ahead while they hold a newline, else with the rest
HasLine(s) == \E i \in DOMAIN s : s[i][2] = "end"
Rest       == SubSeq(disk[file_obj.id], file_obj.raw + 1, Len(disk[file_obj.id]))
Available  == IF HasLine(file_obj.ahead) THEN file_obj.ahead ELSE file_obj.ahead \o Rest
LineLen(s) == IF HasLine(s) THEN Min({i \in DOMAIN s : s[i][2] = "end"}) ELSE Len(s)

\* parse_line: only a whole line of JSON becomes a state
IsState(s) == \E l \in Logged \ Garbled : s = Cells(l)

readline ==
    /\ pc = "read" /\ file_obj # Closed /\ Available # <<>>
    /\ LET n == LineLen(Available)
           line == SubSeq(Available, 1, n)
       IN /\ file_obj' = [file_obj EXCEPT !.raw = IF HasLine(file_obj.ahead) THEN @ ELSE @ + Len(Rest),
                                          !.ahead = SubSeq(Available, n + 1, Len(Available))]
          /\ IF IsState(line) THEN append(line[1][1]) ELSE UNCHANGED storeVars
          /\ halved' = halved \cup {line[i][1] : i \in {j \in DOMAIN line : line # Cells(line[j][1])}}
    /\ Goto(IF mode = "once" THEN "read" ELSE "due")
    /\ UNCHANGED <<fsVars, runVars, changed>>
\* nothing left, or a line that is not followed
EndOfFile ==
    /\ pc = "read" /\ file_obj # Closed /\ Available = <<>>
    /\ Goto(IF mode = "follow" THEN "due" ELSE "final")
    /\ UNCHANGED <<storeVars, fsVars, runVars, file_obj, changed, halved>>
\* readline on the closed file raises ValueError
ReadClosed ==
    /\ pc = "read" /\ file_obj = Closed
    /\ Goto("final")
    /\ UNCHANGED <<storeVars, fsVars, runVars, file_obj, changed, halved>>

\* Periodic flush: whether the interval is over is up to the clock.
NotDue ==
    /\ pc = "due"
    /\ Goto("open")
    /\ UNCHANGED <<storeVars, fsVars, runVars, file_obj, changed, halved>>

\* flush_to_sqlite of the loop and of the finally clause
FlushCall ==
    /\ pc \in {"due", "final"}
    /\ \/ TakeUnflushed("run") /\ Goto(IF pc = "due" THEN "insert" ELSE "insert_last")
       \/ unflushed = <<>> /\ UNCHANGED storeVars /\ Goto(IF pc = "due" THEN "open" ELSE "ended")
    /\ file_obj' = IF pc = "final" THEN Closed ELSE file_obj
    /\ UNCHANGED <<fsVars, runVars, changed, halved>>
Insert ==
    /\ pc \in {"insert", "insert_last"}
    /\ \/ InsertRows("run") /\ Goto(IF pc = "insert" THEN "open" ELSE "ended")
       \/ InsertFails("run") /\ Goto(IF pc = "insert" THEN "final" ELSE "ended")
    /\ UNCHANGED <<fsVars, runVars, file_obj, changed, halved>>

Ending == {"final", "insert_last", "ended", "dead"}

\* stop() from another thread, and KeyboardInterrupt at any statement
stop ==
    /\ running /\ pc \notin Ending
    /\ running' = FALSE
    /\ UNCHANGED <<storeVars, fsVars, runVars, pc, file_obj, changed, halved>>
KeyboardInterrupt ==
    /\ mode # "once" /\ pc \notin Ending \cup {"insert"}
    /\ Goto("final")
    /\ UNCHANGED <<storeVars, fsVars, runVars, file_obj, changed, halved>>

\* The process is killed; main starts again with an empty store on the same table.
Crash ==
    /\ pc \notin {"ended", "dead"} /\ Faults <= MaxFaults
    /\ Forget
    /\ pc' = "dead" /\ running' = FALSE /\ file_obj' = Closed /\ changed' = FALSE
    /\ UNCHANGED <<fsVars, runVars, halved>>
Restart ==
    /\ pc \in {"ended", "dead"} /\ Faults <= MaxFaults
    /\ restarts' = restarts + 1
    /\ Forget
    /\ pc' = "open" /\ running' = TRUE /\ file_obj' = Closed /\ changed' = FALSE
    /\ UNCHANGED <<fsVars, platform, mode, halved>>

----------------------------------------------------------------------------

Step == \/ LoopHead \/ Open \/ CheckRotation \/ Reopen \/ readline \/ EndOfFile \/ ReadClosed
        \/ NotDue \/ FlushCall \/ Insert

Environment == \/ WriteCell \/ WriteOn \/ Unlink \/ Create \/ Truncate \/ stop \/ KeyboardInterrupt
               \/ Crash \/ Restart

Next == Step \/ Environment

vars == <<storeVars, fsVars, ctlVars, runVars>>

\* The collector's thread keeps being scheduled; the rest of the world owes it nothing.
Spec == Init /\ [][Next]_vars /\ WF_vars(Step)

----------------------------------------------------------------------------

InFile(l) == path # None /\ \E i \in 1 .. Len(disk[path]) - 1 : SubSeq(disk[path], i, i + 1) = Cells(l)
AtHead(l) == path # None /\ IsPrefix(Cells(l), disk[path])

\* The state of a line is in the store, or the collector is excused: the file was rotated or
\* truncated away first, a readline met the line half written, or the collector ends.
Tailed      == mode = "follow" /\ truncations = 0
Ingested(l) == appended[l] > 0 \/ ~InFile(l) \/ l \in halved \/ truncations > 0 \/ pc \in Ending

\* Tailing does not overlook a line (run): a whole line of the file at the path is appended to
\* the store.  However the proxy goes on writing, that holds of the first line, since each time
\* the file is opened at least one is read, and on Windows of every line.  On POSIX it holds of
\* the lines behind the first if st_ctime stops moving at last: a proxy that writes between any
\* two reads makes the collector start over for ever.  Detecting rotations too rarely would
\* leave the collector on a file nobody writes; opening again must not skip what is there.
EveryLineIngested ==
    \A l \in Logged \ Garbled :
        <>[][changed' => changed \/ AtHead(l) \/ platform = "windows"]_vars
            => ((Tailed /\ InFile(l)) ~> Ingested(l))

\* "Tail the telemetry log file and continuously ingest new states": a line is new once.
EachLineOnce == \A l \in Logged : restarts = 0 => appended[l] <= 1
=============================================================================
