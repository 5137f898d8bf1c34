--------------------------- MODULE TrafficLogger ---------------------------
(***************************************************************************)
(* pipeline/logging/traffic_logger.go: JSON lines written through a        *)
(* bufio.Writer, a goroutine that flushes it every second, and Close,      *)
(* which stops that goroutine between two critical sections.  A log line   *)
(* is a run of cells, the last of them its newline, so that a buffer which *)
(* fills up, a write that fails half-way and a process that is killed cut  *)
(* lines in two.                                                           *)
(***************************************************************************)
EXTENDS Integers, Sequences, FiniteSets, SequencesExt

CONSTANTS
    Closers,        \* the callers of Close
    LineCells,      \* cells of each line, the newline included
    LogBufferSize,  \* capacity of the bufio.Writer
    MaxEntries,     \* bound on the number of requests logged
    MaxRestarts     \* bound on the number of times the process starts again

ASSUME LoggerAssumption ==
    /\ LineCells \in [0 .. MaxEntries - 1 -> Nat \ {0, 1}]
    /\ LogBufferSize \in Nat \ {0}      \* 4096 when the configured one is not positive
    /\ MaxEntries \in Nat /\ MaxRestarts \in Nat
    /\ "free" \notin Closers

VARIABLES
    mu,         \* "free", or the closer that holds the mutex across two steps
    closed,
    flushStop,  \* the channel is closed
    flusher,    \* the flush goroutine: "select", "flush" (ticked), "done" (flushDone closed)
    closing,    \* closers: "idle", "waiting" for flushDone, "returned"
    buffer,     \* the cells in the bufio.Writer
    failed,     \* its sticky error: no write is tried after one that failed
    file,       \* the cells on disk
    fileOpen,
    entries,    \* requests logged so far: names the next line
    restarts,
    stream      \* history: what the file was when opened, and the cells accepted since

vars == <<mu, closed, flushStop, flusher, closing, buffer, failed, file, fileOpen,
          entries, restarts, stream>>

\* NewTrafficLogger on the file that is there (O_APPEND).
Opened ==
    /\ mu' = "free" /\ closed' = FALSE /\ flushStop' = FALSE /\ flusher' = "select"
    /\ closing' = [c \in Closers |-> "idle"]
    /\ buffer' = <<>> /\ failed' = FALSE /\ fileOpen' = TRUE

Init ==
    /\ mu = "free" /\ closed = FALSE /\ flushStop = FALSE /\ flusher = "select"
    /\ closing = [c \in Closers |-> "idle"]
    /\ buffer = <<>> /\ failed = FALSE /\ fileOpen = TRUE
    /\ file = <<>> /\ entries = 0 /\ restarts = 0 /\ stream = <<>>

\* A line is the marshalled entry and, written by WriteByte, its newline.
Data(e)    == [i \in 1 .. LineCells[e] - 1 |-> <<e, i>>]
Newline(e) == << <<e, LineCells[e]>> >>
Line(e)    == Data(e) \o Newline(e)

IsNewline(cell) == cell[2] = LineCells[cell[1]]

(***************************************************************************)
(* bufio.Writer.Write on a buffer b: what is in the buffer afterwards, and *)
(* what was handed to the file.  A full buffer is topped up and written    *)
(* out; data larger than an empty buffer is written past it.               *)
(***************************************************************************)
Buffered(b, data) ==
    LET room == LogBufferSize - Len(b)
        rest == IF b = <<>> THEN data ELSE SubSeq(data, room + 1, Len(data))
    IN  IF Len(data) <= room THEN b \o data
        ELSE IF Len(rest) <= LogBufferSize THEN rest
        ELSE <<>>

BufferedLine(e) == Buffered(Buffered(buffer, Data(e)), Newline(e))

HandedOver(e) ==
    LET all == buffer \o Line(e) IN SubSeq(all, 1, Len(all) - Len(BufferedLine(e)))

\* The operating system takes all of the cells, or some of them and fails.
WriteOut(cells) ==
    \/ /\ file' = file \o cells
       /\ UNCHANGED failed
    \/ \E n \in 0 .. Len(cells) - 1 :
         /\ file' = file \o SubSeq(cells, 1, n)
         /\ failed' = TRUE

\* writeEntry, from the end of a request: nothing once closed or failed.
writeEntry_EvenWhenClosed ==
    /\ entries < MaxEntries
    /\ mu = "free"
    /\ entries' = entries + 1
    /\ IF failed
         THEN UNCHANGED <<buffer, failed, file, stream>>
         ELSE /\ stream' = stream \o Line(entries)
              /\ buffer' = BufferedLine(entries)
              /\ WriteOut(HandedOver(entries))
    /\ UNCHANGED <<mu, closed, flushStop, flusher, closing, fileOpen, restarts>>

writeEntry ==
    /\ entries < MaxEntries
    /\ mu = "free"
    /\ entries' = entries + 1
    /\ IF closed \/ failed
         THEN UNCHANGED <<buffer, failed, file, stream>>
         ELSE /\ stream' = stream \o Line(entries)
              /\ buffer' = BufferedLine(entries)
              /\ WriteOut(HandedOver(entries))
    /\ UNCHANGED <<mu, closed, flushStop, flusher, closing, fileOpen, restarts>>

\* writer.Flush(): the whole buffer is written out, unless a write failed before.
FlushWriter_ErrorForgotten ==
    /\ WriteOut(buffer)
    /\ buffer' = <<>>

FlushWriter ==
    IF failed THEN UNCHANGED <<buffer, failed, file>>
    ELSE /\ WriteOut(buffer)
         /\ buffer' = <<>>

\* startPeriodicFlush: the select takes the ticker's case ...
Tick ==
    /\ flusher = "select"
    /\ flusher' = "flush"
    /\ UNCHANGED <<mu, closed, flushStop, closing, buffer, failed, file, fileOpen,
                   entries, restarts, stream>>

\* ... and calls Flush,
Flush_Skipped ==
    /\ flusher = "flush"
    /\ mu = "free"
    /\ flusher' = "select"
    /\ UNCHANGED <<mu, closed, flushStop, closing, buffer, failed, file, fileOpen,
                   entries, restarts, stream>>

Flush ==
    /\ flusher = "flush"
    /\ mu = "free"
    /\ flusher' = "select"
    /\ IF closed THEN UNCHANGED <<buffer, failed, file>> ELSE FlushWriter
    /\ UNCHANGED <<mu, closed, flushStop, closing, fileOpen, entries, restarts, stream>>

\* or it takes the case of the closed channel and the goroutine ends.
FlusherStops ==
    /\ flusher = "select"
    /\ flushStop
    /\ flusher' = "done"
    /\ UNCHANGED <<mu, closed, flushStop, closing, buffer, failed, file, fileOpen,
                   entries, restarts, stream>>

Close_LockHeld(c) ==
    /\ closing[c] = "idle"
    /\ mu = "free"
    /\ IF closed
         THEN /\ closing' = [closing EXCEPT ![c] = "returned"]
              /\ UNCHANGED <<mu, closed, flushStop>>
         ELSE /\ closing' = [closing EXCEPT ![c] = "waiting"]
              /\ closed' = TRUE /\ flushStop' = TRUE /\ mu' = c
    /\ UNCHANGED <<flusher, buffer, failed, file, fileOpen, entries, restarts, stream>>

\* Close, its first critical section; the second caller returns at once.
Close(c) ==
    /\ closing[c] = "idle"
    /\ mu = "free"
    /\ IF closed
         THEN /\ closing' = [closing EXCEPT ![c] = "returned"]
              /\ UNCHANGED <<closed, flushStop>>
         ELSE /\ closing' = [closing EXCEPT ![c] = "waiting"]
              /\ closed' = TRUE /\ flushStop' = TRUE
    /\ UNCHANGED <<mu, flusher, buffer, failed, file, fileOpen, entries, restarts, stream>>

\* Close, after <-flushDone: the last flush, and the file.
CloseFile(c) ==
    /\ closing[c] = "waiting"
    /\ flusher = "done"
    /\ mu \in {"free", c}
    /\ FlushWriter
    /\ fileOpen' = FALSE
    /\ closing' = [closing EXCEPT ![c] = "returned"]
    /\ UNCHANGED <<mu, closed, flushStop, flusher, entries, restarts, stream>>

\* The process ends, wherever it is, and starts again: what was buffered is lost.
Restart ==
    /\ restarts < MaxRestarts
    /\ restarts' = restarts + 1
    /\ Opened
    /\ stream' = file
    /\ UNCHANGED <<file, entries>>

Next ==
    \/ writeEntry
    \/ Tick \/ Flush \/ FlusherStops
    \/ \E c \in Closers : Close(c) \/ CloseFile(c)
    \/ Restart

Spec == Init /\ [][Next]_vars

\* The goroutines go on; a select that keeps finding both cases ready takes
\* each of them in the end.
FairSpec ==
    /\ Spec
    /\ WF_vars(Tick) /\ WF_vars(Flush) /\ SF_vars(FlusherStops)
    /\ \A c \in Closers : WF_vars(CloseFile(c))

----------------------------------------------------------------------------

\* The type invariant.
TypeOK ==
    /\ mu \in {"free"} \cup Closers
    /\ closed \in BOOLEAN /\ flushStop \in BOOLEAN /\ failed \in BOOLEAN /\ fileOpen \in BOOLEAN
    /\ flusher \in {"select", "flush", "done"}
    /\ closing \in [Closers -> {"idle", "waiting", "returned"}]
    /\ buffer \in Seq(Nat \X Nat) /\ Len(buffer) <= LogBufferSize
    /\ file \in Seq(Nat \X Nat)
    /\ entries \in 0 .. MaxEntries /\ restarts \in 0 .. MaxRestarts

(***************************************************************************)
(* Nothing accepted goes missing in the middle: what is on disk is always  *)
(* a prefix of what was accepted, in the order of the writeEntry calls,    *)
(* and while no write has failed the buffer holds all of the rest          *)
(* (traffic_logger.go:158-165,192); and a line runs into the next one only *)
(* where a process ended before it was complete.  Stated with the type     *)
(* invariant.                                                              *)
(***************************************************************************)
BrokenLines ==
    {i \in 1 .. Len(file) - 1 : ~IsNewline(file[i]) /\ file[i + 1] # <<file[i][1], file[i][2] + 1>>}

NoHoles ==
    /\ TypeOK
    /\ IsPrefix(file, stream)
    /\ ~failed => file \o buffer = stream
    /\ Cardinality(BrokenLines) <= restarts

(***************************************************************************)
(* Once the Close that closed the file is back, everything accepted is on  *)
(* disk, whatever the flusher and the requests in flight were doing        *)
(* (traffic_logger.go:196-228).                                            *)
(***************************************************************************)
ClosedMeansFlushed == ~fileOpen /\ ~failed => file = stream

(***************************************************************************)
(* Close never waits for ever for the flusher, even one that has ticked    *)
(* and is about to take the mutex (traffic_logger.go:206-211).             *)
(***************************************************************************)
CloseReturns == \A c \in Closers : closing[c] = "waiting" ~> closing[c] # "waiting"

(***************************************************************************)
(* "periodic flush so low-volume traffic is persisted without sitting in   *)
(* buffer indefinitely" (traffic_logger.go:94).                            *)
(***************************************************************************)
BufferDrains == buffer # <<>> ~> (buffer = <<>> \/ failed)
=============================================================================
