--------------------------- MODULE StateExporter ---------------------------
(***************************************************************************)
(* core/inference/state_export.go: requests hand snapshots to a buffered   *)
(* channel without ever waiting, one worker writes them to a JSONL file    *)
(* through a bufio.Writer, and Close tells the worker to drain the channel *)
(* and waits for it.  Nobody closes the channel itself, so the worker's    *)
(* "!ok" branches are dead code and have no action here.                   *)
(***************************************************************************)
EXTENDS Integers, Sequences, FiniteSets, SequencesExt, Filtering

CONSTANTS
    Closers,        \* the callers of Close
    ChannelSize,    \* DefaultStateExportChannelSize
    Unencodable,    \* the snapshots json.Marshal refuses (a NaN or an infinity)
    MaxSnapshots    \* bound on the number of snapshots

ExporterAssumption ==
    /\ ChannelSize \in Nat \ {0}
    /\ MaxSnapshots \in Nat
    /\ Unencodable \subseteq 1 .. MaxSnapshots

VARIABLES
    ch,         \* the channel's buffer
    hand,       \* what the worker has received and not yet written: none or one
    worker,     \* "select", "drain", "flush" (its last), "exited" (wg.Done)
    writer,     \* snapshots in the bufio.Writer
    file,       \* snapshots on disk
    fileOpen,
    closed,
    done,       \* the done channel is closed
    closing,    \* closers: "idle", "stopping", "waiting", "returned"
    dropped,    \* droppedCount
    exported,   \* ExportSnapshot calls so far: names the next snapshot
    accepted,   \* history: what went into the channel, in order
    promised    \* history: how many of those went in before close(done)

vars == <<ch, hand, worker, writer, file, fileOpen, closed, done, closing, dropped,
          exported, accepted, promised>>

Init ==
    /\ ch = <<>> /\ hand = <<>> /\ worker = "select" /\ writer = <<>>
    /\ file = <<>> /\ fileOpen = TRUE /\ closed = FALSE /\ done = FALSE
    /\ closing = [c \in Closers |-> "idle"]
    /\ dropped = 0 /\ exported = 0 /\ accepted = <<>> /\ promised = 0

HasRoom == Len(ch) < ChannelSize

\* ExportSnapshot: the send, or the default case when the channel is full.
ExportSnapshot ==
    /\ exported < MaxSnapshots
    /\ exported' = exported + 1
    /\ IF HasRoom
         THEN /\ ch' = Append(ch, exported')
              /\ accepted' = Append(accepted, exported')
              /\ promised' = IF done THEN promised ELSE promised + 1
              /\ UNCHANGED dropped
         ELSE /\ dropped' = dropped + 1
              /\ UNCHANGED <<ch, accepted, promised>>
    /\ UNCHANGED <<hand, worker, writer, file, fileOpen, closed, done, closing>>

\* The worker receives, in its select and in the drain loop.
Receive ==
    /\ worker \in {"select", "drain"}
    /\ hand = <<>>
    /\ ch # <<>>
    /\ hand' = <<Head(ch)>>
    /\ ch' = Tail(ch)
    /\ UNCHANGED <<worker, writer, file, fileOpen, closed, done, closing, dropped, exported,
                   accepted, promised>>

Encoded(s) == Filter(s, 1 .. MaxSnapshots \ Unencodable)

(***************************************************************************)
(* What it received goes into the writer, which may by itself write out    *)
(* any part of its buffer; a snapshot that does not marshal is forgotten.  *)
(***************************************************************************)
WriteSnapshot ==
    /\ hand # <<>>
    /\ hand' = <<>>
    /\ \E n \in 0 .. Len(writer \o Encoded(hand)) :
         /\ n > 0 => Encoded(hand) # <<>>
         /\ file' = file \o SubSeq(writer \o Encoded(hand), 1, n)
         /\ writer' = SubSeq(writer \o Encoded(hand), n + 1, Len(writer \o Encoded(hand)))
    /\ UNCHANGED <<ch, worker, fileOpen, closed, done, closing, dropped, exported, accepted,
                   promised>>

FlushWriter_BufferKept ==
    /\ file' = file \o writer
    /\ UNCHANGED writer

\* writer.Flush(), with no write error
FlushWriter ==
    /\ file' = file \o writer
    /\ writer' = <<>>

Tick_NoFlush ==
    /\ worker = "select"
    /\ hand = <<>>
    /\ UNCHANGED vars

\* The ticker's case: a flush.
Tick ==
    /\ worker = "select"
    /\ hand = <<>>
    /\ FlushWriter
    /\ UNCHANGED <<ch, hand, worker, fileOpen, closed, done, closing, dropped, exported,
                   accepted, promised>>

\* The case of the closed done channel: the drain loop.
DoneCase ==
    /\ worker = "select"
    /\ hand = <<>>
    /\ done
    /\ worker' = "drain"
    /\ UNCHANGED <<ch, hand, writer, file, fileOpen, closed, done, closing, dropped, exported,
                   accepted, promised>>

\* The drain loop's default case: the channel is empty at this moment.
Drained ==
    /\ worker = "drain"
    /\ hand = <<>>
    /\ ch = <<>>
    /\ worker' = "flush"
    /\ UNCHANGED <<ch, hand, writer, file, fileOpen, closed, done, closing, dropped, exported,
                   accepted, promised>>

\* It flushes and exits (wg.Done).
Exit ==
    /\ worker = "flush"
    /\ worker' = "exited"
    /\ FlushWriter
    /\ UNCHANGED <<ch, hand, fileOpen, closed, done, closing, dropped, exported, accepted,
                   promised>>

\* Close: the first caller sets closed, the others return.
Close(c) ==
    /\ closing[c] = "idle"
    /\ closing' = [closing EXCEPT ![c] = IF closed THEN "returned" ELSE "stopping"]
    /\ closed' = TRUE
    /\ UNCHANGED <<ch, hand, worker, writer, file, fileOpen, done, dropped, exported, accepted,
                   promised>>

CloseDone_Forgotten(c) ==
    /\ closing[c] = "stopping"
    /\ closing' = [closing EXCEPT ![c] = "waiting"]
    /\ UNCHANGED <<ch, hand, worker, writer, file, fileOpen, closed, done, dropped, exported,
                   accepted, promised>>

\* close(done), outside the mutex
CloseDone(c) ==
    /\ closing[c] = "stopping"
    /\ closing' = [closing EXCEPT ![c] = "waiting"]
    /\ done' = TRUE
    /\ UNCHANGED <<ch, hand, worker, writer, file, fileOpen, closed, dropped, exported, accepted,
                   promised>>

CloseFile_NoWait(c) ==
    /\ closing[c] = "waiting"
    /\ FlushWriter
    /\ fileOpen' = FALSE
    /\ closing' = [closing EXCEPT ![c] = "returned"]
    /\ UNCHANGED <<ch, hand, worker, closed, done, dropped, exported, accepted, promised>>

\* After wg.Wait: one more flush, and the file is closed.
CloseFile(c) ==
    /\ closing[c] = "waiting"
    /\ worker = "exited"
    /\ FlushWriter
    /\ fileOpen' = FALSE
    /\ closing' = [closing EXCEPT ![c] = "returned"]
    /\ UNCHANGED <<ch, hand, worker, closed, done, dropped, exported, accepted, promised>>

Next ==
    \/ ExportSnapshot
    \/ Receive \/ WriteSnapshot \/ Tick \/ DoneCase \/ Drained \/ Exit
    \/ \E c \in Closers : Close(c) \/ CloseDone(c) \/ CloseFile(c)

Spec == Init /\ [][Next]_vars

\* The worker and the closers go on, and its select is fair to every case.
FairSpec ==
    /\ Spec
    /\ SF_vars(Receive) /\ WF_vars(WriteSnapshot) /\ SF_vars(Tick) /\ SF_vars(DoneCase)
    /\ WF_vars(Drained) /\ WF_vars(Exit)
    /\ \A c \in Closers : WF_vars(CloseDone(c)) /\ WF_vars(CloseFile(c))

----------------------------------------------------------------------------

\* The type invariant.
TypeOK ==
    /\ ch \in Seq(1 .. exported) /\ Len(ch) <= ChannelSize
    /\ hand \in Seq(1 .. exported) /\ Len(hand) <= 1
    /\ worker \in {"select", "drain", "flush", "exited"}
    /\ writer \in Seq(1 .. exported) /\ file \in Seq(1 .. exported)
    /\ fileOpen \in BOOLEAN /\ closed \in BOOLEAN /\ done \in BOOLEAN
    /\ closing \in [Closers -> {"idle", "stopping", "waiting", "returned"}]
    /\ dropped \in Nat /\ exported \in 0 .. MaxSnapshots
    /\ promised \in 0 .. Len(accepted)

(***************************************************************************)
(* Every snapshot taken from ExportSnapshot is, once and in order, on      *)
(* disk, in the writer, in the worker's hand or in the channel, except the *)
(* ones that do not marshal (state_export.go:89-93,113-151).  Stated with  *)
(* the type invariant.                                                     *)
(***************************************************************************)
Conserved ==
    /\ TypeOK
    /\ file \o writer \o Encoded(hand \o ch) = Encoded(accepted)

(***************************************************************************)
(* Once Close has closed the file, every snapshot taken before it stopped  *)
(* the worker is on disk, and nobody writes to the closed file any more    *)
(* (state_export.go:135-158,176-182).                                      *)
(***************************************************************************)
ClosedMeansExported ==
    ~fileOpen =>
        /\ IsPrefix(Encoded(SubSeq(accepted, 1, promised)), file)
        /\ worker = "exited" /\ writer = <<>>

(***************************************************************************)
(* Close comes back although requests still export (state_export.go:177).  *)
(***************************************************************************)
CloseReturns == \A c \in Closers : closing[c] = "stopping" ~> closing[c] = "returned"

(***************************************************************************)
(* Without any Close the ticker brings every snapshot to disk              *)
(* (state_export.go:129-132).                                              *)
(***************************************************************************)
EveryPromiseKept ==
    \A s \in 1 .. MaxSnapshots :
        s \in ToSet(SubSeq(accepted, 1, promised)) \ Unencodable ~> s \in ToSet(file)
=============================================================================
