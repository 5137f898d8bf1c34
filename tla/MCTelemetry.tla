---------------------------- MODULE MCTelemetry ----------------------------
(***************************************************************************)
(* The two files the proxy writes, the traffic log and the state export.   *)
(* They share no state, so a behaviour follows one of them and leaves the  *)
(* other as it began.  Lines of three and of six cells go through a buffer *)
(* of four: a line stays in the buffer, is cut by it, or is written past   *)
(* it.  One of the snapshots does not marshal.                             *)
(***************************************************************************)
EXTENDS TrafficLogger

CONSTANTS ChannelSize, Unencodable, MaxSnapshots

VARIABLES ch, hand, worker, writer, exportFile, exportOpen, exportClosed, done,
          exportClosing, dropped, exported, accepted, promised, followed

Exporter == INSTANCE StateExporter
              WITH file <- exportFile, fileOpen <- exportOpen, closed <- exportClosed,
                   closing <- exportClosing

ASSUME ExporterAssumption == Exporter!ExporterAssumption

MCLineCells == [e \in 0 .. MaxEntries - 1 |-> IF e % 2 = 0 THEN 3 ELSE 6]

exportVars == <<ch, hand, worker, writer, exportFile, exportOpen, exportClosed, done,
                exportClosing, dropped, exported, accepted, promised>>
allVars    == <<vars, exportVars, followed>>

MCInit == Init /\ Exporter!Init /\ followed \in {"log", "export"}

Log(A)    == followed = "log" /\ A /\ UNCHANGED <<exportVars, followed>>
Export(A) == followed = "export" /\ A /\ UNCHANGED <<vars, followed>>

\* The fairness of the two components, each where it is followed.
Fairness ==
    /\ WF_allVars(Log(Tick)) /\ WF_allVars(Log(Flush)) /\ SF_allVars(Log(FlusherStops))
    /\ SF_allVars(Export(Exporter!Receive)) /\ WF_allVars(Export(Exporter!WriteSnapshot))
    /\ SF_allVars(Export(Exporter!Tick)) /\ SF_allVars(Export(Exporter!DoneCase))
    /\ WF_allVars(Export(Exporter!Drained)) /\ WF_allVars(Export(Exporter!Exit))
    /\ \A c \in Closers : /\ WF_allVars(Log(CloseFile(c)))
                          /\ WF_allVars(Export(Exporter!CloseDone(c)))
                          /\ WF_allVars(Export(Exporter!CloseFile(c)))

MCSpec == MCInit /\ [][Log(Next) \/ Export(Exporter!Next)]_allVars /\ Fairness

----------------------------------------------------------------------------

\* Snapshots keep their order and none is lost or doubled (module StateExporter).
Conserved == Exporter!Conserved

\* A closed export holds all that was taken before Close (module StateExporter).
ClosedMeansExported == Exporter!ClosedMeansExported

\* Both Close methods come back, whatever their goroutine is doing.
BothCloseReturn == CloseReturns /\ Exporter!CloseReturns

\* What either component has taken reaches its file by its ticker alone.
EventuallyOnDisk == BufferDrains /\ Exporter!EveryPromiseKept
=============================================================================
