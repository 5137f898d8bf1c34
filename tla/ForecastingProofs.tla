------------------------- MODULE ForecastingProofs -------------------------
(***************************************************************************)
(* The Python side, for every size and bound: what training saves and      *)
(* reports, what the sliding windows cover, where the states of the        *)
(* telemetry are, how the stages are labelled, what the Markov chain and   *)
(* the HMM forecast from them, how the loaders split the sequences, and    *)
(* what the evaluation says of warnings and alarms.                        *)
(***************************************************************************)
EXTENDS MCForecasting, DataTheorems, TLAPS

----------------------------------------------------------------------------
\* The parts side by side: while one is followed the others stand still, so a behaviour of
\* MCSpec is one of each part.

\* The training scripts run as by themselves.
LEMMA TrainingAlone == MCSpec => Train!Spec
<1>1. [MCNext]_allVars => [Train!Next]_(Train!vars)
  <2>1. UNCHANGED trainingVars => UNCHANGED Train!vars
    BY DEF trainingVars, Train!vars, Train!memory
  <2>2. [MCNext]_allVars => Train!Next \/ UNCHANGED trainingVars
    BY Zenon DEF MCNext, allVars,
                 Collector, Store, Stage, Feature, Loading, Evaluating, TrainingRun
  <2> QED
    BY <2>1, <2>2
<1>2. MCInit => Train!Init
  BY DEF MCInit
<1> QED
  BY <1>1, <1>2, PTL DEF MCSpec, Train!Spec

\* So does the feature extraction.
LEMMA FeaturesAlone == MCSpec => Features!Spec
<1>1. [MCNext]_allVars => [Features!Next]_(Features!vars)
  BY Zenon DEF MCNext, allVars, featureVars, Features!vars,
               Collector, Store, Stage, Feature, Loading, Evaluating, TrainingRun
<1>2. MCInit => Features!Init
  BY DEF MCInit
<1> QED
  BY <1>1, <1>2, PTL DEF MCSpec, Features!Spec

----------------------------------------------------------------------------
\* The training scripts.

File    == [run : Nat, epoch : Nat]
Trainers == {"lstm", "transformer"}
Directory == [files : [Train!Files -> File], report : [run : Nat, validated : BOOLEAN]]
Scripts == Trainers \cup {"hmm", "export_lstm", "export_transformer"}

\* The steps each script goes through.
InScript ==
    /\ trainPc \in {"scaler", "report"} => script = "lstm"
    /\ trainPc \in {"train", "restore", "save", "evaluate"} => script \in Trainers
    /\ trainPc = "export" => script \in Trainers \cup {"export_lstm", "export_transformer"}
    /\ trainPc \in {"csv", "markov", "hmm"} => script = "hmm"

Training_TypeOK ==
    /\ trainPc \in {"idle", "scaler", "train", "restore", "save", "evaluate", "export", "report",
                    "csv", "markov", "hmm"}
    /\ script \in Scripts \cup {"none"} /\ InScript
    /\ run \in Nat /\ {weights, best_weights} \subseteq Nat /\ history \in Seq(Int)
    /\ onnx_exported \in BOOLEAN /\ models \in Directory

(***************************************************************************)
(* What HonestReport needs: no report is of a later run than the running   *)
(* one; from its scaler on an LSTM training owns the scaler, from its      *)
(* checkpoint on the checkpoint; and a flag that is set vouches for the    *)
(* graph on disk until the report repeats it.                              *)
(***************************************************************************)
ReportInv ==
    /\ Training_TypeOK
    /\ models.report.run <= run
    /\ trainPc # "idle" => models.report.run < run
    /\ models.report.validated => models.report.run > 0
    /\ script = "lstm" /\ trainPc \notin {"idle", "scaler"} => models.files["scaler"].run = run
    /\ script \in Trainers /\ trainPc \in {"evaluate", "export", "report"} =>
          models.files[script] = Train!Saved(weights)
    /\ trainPc \notin {"idle", "report"} => ~onnx_exported
    /\ trainPc = "report" /\ onnx_exported => models.files["lstm_onnx"] = Train!Saved(weights)
    /\ Train!HonestReport

\* The invariant holds at the start.
LEMMA ReportInit == Train!Init => ReportInv
<1> SUFFICES ASSUME Train!Init
             PROVE  ReportInv
  OBVIOUS
<1>1. models \in Directory /\ models.report = [run |-> 0, validated |-> FALSE]
  BY DEF Train!Init, Directory, File, Train!Files, Train!Missing
<1>2. onnx_exported = FALSE
  BY DEF Train!Init
<1>3. onnx_exported \in BOOLEAN
  BY <1>2
<1>4. /\ trainPc = "idle" /\ script = "none" /\ run = 0 /\ weights = 0 /\ best_weights = 0
      /\ history = <<>>
  BY DEF Train!Init, Train!None
<1> QED
  BY <1>1, <1>3, <1>4 DEF ReportInv, Training_TypeOK, InScript, Train!HonestReport

\* The files by name.
LEMMA FileFacts ==
    ASSUME models \in Directory
    PROVE  /\ models.report.run \in Nat /\ models.report.validated \in BOOLEAN
           /\ {"csv", "scaler", "markov", "hmm", "lstm", "transformer", "lstm_onnx",
               "transformer_onnx"} \subseteq Train!Files
           /\ \A f \in Train!Files : /\ models.files[f] \in File
                                     /\ models.files[f].run \in Nat /\ models.files[f].epoch \in Nat
BY DEF Directory, File, Train!Files

\* Writing one file leaves the report and the other files alone.
LEMMA Overwritten ==
    ASSUME models \in Directory, NEW f \in Train!Files, NEW file \in File, Train!Write(f, file)
    PROVE  /\ models'.report = models.report
           /\ models'.files[f] = file
           /\ \A g \in Train!Files \ {f} : models'.files[g] = models.files[g]
           /\ models' \in Directory
BY DEF Directory, Train!Write

\* So does writing a graph, which holds the checkpoint or, cut off, none of its epochs.
LEMMA GraphWritten ==
    ASSUME models \in Directory, NEW f \in Train!Files, NEW checkpoint \in File,
           NEW outcome \in {"raised", "partial", "invalid", "valid"},
           Train!WriteGraph(f, checkpoint, outcome)
    PROVE  /\ models'.report = models.report
           /\ outcome = "valid" => models'.files[f] = checkpoint
           /\ \/ models'.files[f] = models.files[f]
              \/ models'.files[f] = checkpoint
              \/ models'.files[f].run = checkpoint.run /\ models'.files[f].epoch = 0
           /\ \A g \in Train!Files \ {f} : models'.files[g] = models.files[g]
           /\ models' \in Directory
<1>1. CASE outcome = "raised"
  <2>1. models' = models
    BY <1>1 DEF Train!WriteGraph
  <2> QED
    BY <1>1, <2>1
<1>2. CASE outcome = "partial"
  <2> DEFINE file == [checkpoint EXCEPT !.epoch = 0]
  <2>1. Train!Write(f, file)
    BY <1>2 DEF Train!WriteGraph, Train!Torn, Train!Write
  <2>2. file \in File /\ file.run = checkpoint.run /\ file.epoch = 0
    BY DEF File
  <2> HIDE DEF file
  <2> QED
    BY <1>2, <2>1, <2>2, Overwritten
<1>3. CASE outcome \in {"invalid", "valid"}
  <2>1. Train!Write(f, checkpoint)
    BY <1>3 DEF Train!WriteGraph, Train!Write
  <2> QED
    BY <1>3, <2>1, Overwritten
<1> QED
  BY <1>1, <1>2, <1>3

\* Every step of the scripts preserves it.
LEMMA ReportStep == ReportInv /\ [Train!Next]_(Train!vars) => ReportInv'
<1> SUFFICES ASSUME ReportInv, [Train!Next]_(Train!vars)
             PROVE  ReportInv'
  OBVIOUS
<1> USE DEF ReportInv, Training_TypeOK, InScript, Trainers
<1>0. models \in Directory
  OBVIOUS
<1> DEFINE same == UNCHANGED <<script, run, weights, best_weights, history, onnx_exported>>
<1>1. ASSUME NEW s \in Scripts, NEW o, Train!Start(s, o)
      PROVE  ReportInv'
  <2>1. /\ models' = models /\ run' = run + 1 /\ script' = s /\ weights' = 0
        /\ best_weights' = 0 /\ history' = <<>> /\ onnx_exported' = FALSE
    BY <1>1 DEF Train!Start, Train!None
  <2>2. /\ trainPc' \in {"idle", "scaler", "train", "export", "csv"}
        /\ s = "hmm" => trainPc' = "csv"
        /\ s = "lstm" => trainPc' \in {"idle", "scaler"}
        /\ s = "transformer" => trainPc' \in {"idle", "train"}
        /\ s \in {"export_lstm", "export_transformer"} => trainPc' \in {"idle", "export"}
    BY <1>1 DEF Train!Start, Scripts, Train!Exporters
  <2>5. onnx_exported' \in BOOLEAN
    BY <2>1
  <2>3. Training_TypeOK'
    <3>1. script' \in Scripts \cup {"none"} /\ run' \in Nat /\ InScript'
      BY <2>1, <2>2 DEF Scripts
    <3> QED
      BY <2>1, <2>2, <2>5, <3>1
  <2>4. Train!HonestReport'
    BY <2>1 DEF Train!HonestReport
  <2> QED
    BY <1>0, <2>1, <2>2, <2>3, <2>4, FileFacts DEF Scripts
<1>2. CASE Train!SaveScaler
  <2>1. Train!Write("scaler", Train!Saved(1)) /\ Train!Saved(1) \in File /\ Train!Saved(1).run = run
    BY <1>2 DEF Train!SaveScaler, Train!Saved, File
  <2>2. same /\ trainPc = "scaler" /\ trainPc' = "train" /\ script = "lstm"
    BY <1>2 DEF Train!SaveScaler, Train!memory
  <2>3. /\ models'.report = models.report /\ models'.files["scaler"].run = run
        /\ models' \in Directory
    BY <1>0, <2>1, FileFacts, Overwritten
  <2>4. Train!HonestReport'
    BY <1>0, <2>2, <2>3, FileFacts DEF Train!HonestReport
  <2> QED
    BY <2>2, <2>3, <2>4
<1>3. ASSUME NEW loss \in Losses \cup {Train!NaN},
             Train!train_lstm_forecaster(loss) \/ Train!train_transformer_forecaster(loss)
      PROVE  ReportInv'
  <2>1. /\ UNCHANGED <<script, run, models, onnx_exported>> /\ trainPc = "train"
        /\ trainPc' \in {"train", "restore"} /\ weights' = Len(history')
        /\ best_weights' \in {best_weights, weights'}
        /\ history' = Append(history, IF "val" \in opts.empty THEN 0 ELSE loss)
    BY <1>3 DEF Train!train_lstm_forecaster, Train!train_transformer_forecaster, Train!EpochEnd
  <2>2. history' \in Seq(Int) /\ Len(history') \in Nat
    BY <2>1, TrainingAssumed DEF Train!TrainingAssumption, Train!NaN
  <2>3. Train!HonestReport'
    BY <2>1 DEF Train!HonestReport
  <2> QED
    BY <2>1, <2>2, <2>3
<1>4. CASE Train!RestoreBest
  <2>1. /\ UNCHANGED <<script, run, best_weights, history, onnx_exported, models>> /\ trainPc = "restore"
        /\ trainPc' = "save" /\ weights' \in {weights, best_weights}
    BY <1>4 DEF Train!RestoreBest
  <2>2. Train!HonestReport'
    BY <2>1 DEF Train!HonestReport
  <2> QED
    BY <2>1, <2>2
<1>5. CASE Train!save_weights
  <2>1. /\ same /\ trainPc = "save" /\ trainPc' \in {"evaluate", "export"}
        /\ Train!Write(script, Train!Saved(weights)) /\ script \in Trainers
    BY <1>5 DEF Train!save_weights, Train!memory
  <2>2. Train!Saved(weights) \in File /\ Train!Saved(weights)' = Train!Saved(weights)
    BY <2>1 DEF Train!Saved, File
  <2>3. /\ models'.report = models.report /\ models'.files["scaler"] = models.files["scaler"]
        /\ models'.files[script] = Train!Saved(weights) /\ models' \in Directory
        /\ script # "lstm" => UNCHANGED <<models.files["lstm"], models.files["lstm_onnx"]>>
    BY <1>0, <2>1, <2>2, FileFacts, Overwritten
  <2>4. Train!HonestReport'
    BY <1>0, <2>1, <2>3, FileFacts DEF Train!HonestReport
  <2> QED
    BY <2>1, <2>2, <2>3, <2>4
<1>6. CASE Train!evaluate_test_set \/ Train!EvaluateTransformer
  <2>1. /\ same /\ trainPc = "evaluate" /\ trainPc' \in {"idle", "export"} /\ models' = models
        /\ script \in Trainers
    BY <1>6 DEF Train!evaluate_test_set, Train!EvaluateTransformer, Train!memory
  <2>2. Train!HonestReport' /\ Train!Saved(weights)' = Train!Saved(weights)
    BY <2>1 DEF Train!HonestReport, Train!Saved
  <2> QED
    BY <2>1, <2>2
<1>7. CASE Train!SkipExport
  <2>1. /\ same /\ trainPc = "export" /\ trainPc' = "report" /\ models' = models
        /\ script = "lstm"
    BY <1>7 DEF Train!SkipExport, Train!memory
  <2>2. Train!HonestReport' /\ Train!Saved(weights)' = Train!Saved(weights)
    BY <2>1 DEF Train!HonestReport, Train!Saved
  <2> QED
    BY <2>1, <2>2
<1>8. CASE Train!EndTransformer
  <2>1. same /\ trainPc = "export" /\ trainPc' = "idle" /\ models' = models
    BY <1>8 DEF Train!EndTransformer, Train!memory, Train!Exit
  <2>2. Train!HonestReport'
    BY <2>1 DEF Train!HonestReport
  <2> QED
    BY <2>1, <2>2
<1>9. ASSUME NEW outcome \in {"raised", "partial", "invalid", "valid"}, Train!ExportONNX(outcome)
      PROVE  ReportInv'
  <2>1. /\ UNCHANGED <<script, run, weights, best_weights, history>> /\ trainPc = "export" /\ trainPc' = "report"
        /\ script = "lstm" /\ onnx_exported' = (outcome = "valid")
        /\ Train!WriteGraph("lstm_onnx", Train!Saved(weights), outcome)
    BY <1>9 DEF Train!ExportONNX, Train!memory, Train!export_lstm_to_onnx
  <2>2. Train!Saved(weights) \in File /\ Train!Saved(weights)' = Train!Saved(weights)
    BY <2>1 DEF Train!Saved, File
  <2>3. /\ models'.report = models.report /\ models' \in Directory
        /\ UNCHANGED <<models.files["lstm"], models.files["scaler"]>>
        /\ outcome = "valid" => models'.files["lstm_onnx"] = Train!Saved(weights)
    BY <1>0, <2>1, <2>2, FileFacts, GraphWritten
  <2>4. Train!HonestReport'
    BY <1>0, <2>1, <2>3, FileFacts DEF Train!HonestReport
  <2> QED
    BY <2>1, <2>2, <2>3, <2>4
<1>10. ASSUME NEW outcome \in {"raised", "partial", "invalid", "valid"}, Train!ExportLSTMMain(outcome)
       PROVE  ReportInv'
  <2>1. /\ same /\ trainPc = "export" /\ trainPc' = "idle" /\ script = "export_lstm"
        /\ Train!WriteGraph("lstm_onnx", models.files["lstm"], outcome)
    BY <1>10 DEF Train!ExportLSTMMain, Train!memory, Train!Exit, Train!export_lstm_to_onnx
  <2>2. /\ models'.report = models.report /\ models' \in Directory
        /\ UNCHANGED <<models.files["lstm"], models.files["scaler"]>>
        /\ \/ models'.files["lstm_onnx"] = models.files["lstm_onnx"]
           \/ models'.files["lstm_onnx"] = models.files["lstm"]
           \/ /\ models'.files["lstm_onnx"].run = models.files["lstm"].run
              /\ models'.files["lstm_onnx"].epoch = 0
    BY <1>0, <2>1, FileFacts, GraphWritten
  <2>3. Train!HonestReport'
    BY <1>0, <2>1, <2>2, FileFacts DEF Train!HonestReport, Train!Missing, Train!Torn
  <2> QED
    BY <2>1, <2>2, <2>3
<1>11. ASSUME NEW outcome \in {"raised", "partial", "invalid", "valid"},
              Train!ExportTransformerMain(outcome)
       PROVE  ReportInv'
  <2>1. /\ same /\ trainPc = "export" /\ trainPc' = "idle" /\ script = "export_transformer"
        /\ Train!WriteGraph("transformer_onnx", models.files["transformer"], outcome)
    BY <1>11 DEF Train!ExportTransformerMain, Train!memory, Train!Exit,
                 Train!export_transformer_to_onnx
  <2>2. /\ models'.report = models.report /\ models' \in Directory
        /\ UNCHANGED <<models.files["lstm"], models.files["scaler"], models.files["lstm_onnx"]>>
    BY <1>0, <2>1, FileFacts, GraphWritten
  <2>3. Train!HonestReport'
    BY <2>1, <2>2 DEF Train!HonestReport
  <2> QED
    BY <2>1, <2>2, <2>3
<1>12. CASE Train!generate_v3_report
  <2>1. same /\ trainPc = "report" /\ trainPc' = "idle" /\ script = "lstm"
    BY <1>12 DEF Train!generate_v3_report, Train!memory, Train!Exit
  <2>2. CASE models' = models
    <3>1. Train!HonestReport'
      BY <2>2 DEF Train!HonestReport
    <3> QED
      BY <2>1, <2>2, <3>1
  <2>3. CASE models' = [models EXCEPT !.report = [run |-> run, validated |-> onnx_exported]]
    <3>1. models'.files = models.files /\ models'.report = [run |-> run, validated |-> onnx_exported]
      BY <1>0, <2>3 DEF Directory
    <3>2. models' \in Directory
      BY <1>0, <2>3 DEF Directory
    <3>3. Train!Saved(weights).run = run /\ run > 0
      BY <1>0, <2>1, FileFacts DEF Train!Saved
    <3>4. Train!HonestReport'
      BY <2>1, <3>1, <3>3 DEF Train!HonestReport, Train!Missing
    <3> QED
      BY <2>1, <3>1, <3>2, <3>3, <3>4
  <2> QED
    BY <1>12, <2>2, <2>3 DEF Train!generate_v3_report
<1>13. CASE Train!train_and_evaluate
  <2>1. PICK f \in {"csv", "markov", "hmm"} : trainPc = f /\ Train!Write(f, Train!Saved(1))
    BY <1>13 DEF Train!train_and_evaluate
  <2>2. same /\ script = "hmm" /\ trainPc # "idle" /\ trainPc' \in {"markov", "hmm", "idle"}
    BY <1>13 DEF Train!train_and_evaluate, Train!memory, Train!Exit
  <2>3. Train!Saved(1) \in File
    BY DEF Train!Saved, File
  <2>4. /\ models'.report = models.report /\ models' \in Directory
        /\ UNCHANGED <<models.files["lstm"], models.files["scaler"], models.files["lstm_onnx"]>>
    BY <1>0, <2>1, <2>3, FileFacts, Overwritten
  <2>5. Train!HonestReport'
    BY <2>2, <2>4 DEF Train!HonestReport
  <2> QED
    BY <2>2, <2>4, <2>5
<1>14. CASE Train!Crash
  <2>1. same /\ trainPc # "idle" /\ trainPc' = "idle"
    BY <1>14 DEF Train!Crash, Train!memory, Train!Exit
  <2> DEFINE torn == Train!Saved(Train!Torn)
  <2>2. PICK S \in SUBSET Train!Writing :
          models' = [models EXCEPT !.files = [f \in Train!Files |-> IF f \in S THEN torn ELSE @[f]]]
    BY <1>14 DEF Train!Crash
  <2>3. torn \in File /\ torn.run = run /\ torn.epoch = 0
    BY DEF Train!Saved, Train!Torn, File
  <2> HIDE DEF torn
  <2>4. /\ models'.report = models.report /\ models' \in Directory
        /\ \A f \in Train!Files : models'.files[f] = IF f \in S THEN torn ELSE models.files[f]
    BY <1>0, <2>2, <2>3 DEF Directory
  <2>5. "lstm" \in S => script = "lstm" /\ trainPc = "save"
    BY DEF Train!Writing
  <2>6. run > 0 /\ torn # Train!Missing /\ models.report.run # run
    BY <1>0, <2>1, <2>3, FileFacts DEF Train!Missing
  <2>7. ASSUME "scaler" \in S \/ "lstm" \in S PROVE Train!HonestReport'
    <3>1. models'.files["scaler"].run = run
      BY <1>0, <2>3, <2>4, <2>5, <2>7, FileFacts
    <3> QED
      BY <2>4, <2>6, <3>1 DEF Train!HonestReport
  <2>8. ASSUME ~ ("scaler" \in S \/ "lstm" \in S) PROVE Train!HonestReport'
    <3>1. /\ UNCHANGED <<models.files["lstm"], models.files["scaler"]>>
          /\ models'.files["lstm_onnx"] \in {torn, models.files["lstm_onnx"]}
      BY <1>0, <2>4, <2>8, FileFacts
    <3> QED
      BY <2>3, <2>4, <2>6, <3>1 DEF Train!HonestReport, Train!Torn, Train!Missing
  <2>9. Train!HonestReport'
    BY <2>7, <2>8
  <2> QED
    BY <2>1, <2>4, <2>9
<1>15. CASE UNCHANGED Train!vars
  BY <1>15 DEF Train!vars, Train!HonestReport, Train!memory, Train!Saved
<1>16. {"lstm", "transformer", "hmm", "export_lstm", "export_transformer"} = Scripts
  BY DEF Scripts
<1> QED
  BY <1>1, <1>2, <1>3, <1>4, <1>5, <1>6, <1>7, <1>8, <1>9, <1>10, <1>11, <1>12, <1>13, <1>14, <1>15,
     <1>16 DEF Train!Next

\* The report of a validated export is true (train_lstm.py, export), for every order of scripts,
\* failures and kills.
THEOREM ReportsAreHonest ==
    /\ Train!Spec => []Train!HonestReport
    /\ MCSpec => []HonestReport
<1>1. Train!Spec => []ReportInv
  BY ReportInit, ReportStep, PTL DEF Train!Spec
<1>2. ReportInv => Train!HonestReport
  BY DEF ReportInv
<1>3. Train!HonestReport => HonestReport
  BY DEF HonestReport
<1> QED
  BY <1>1, <1>2, <1>3, TrainingAlone, PTL

----------------------------------------------------------------------------
\* Early stopping.

NoLoss == -1
LossValues == Losses \cup {0, NoLoss}

\* Improves and Stalled of any history of losses.
ImprovesIn(h, e) == h[e] # NoLoss /\ \A d \in 1 .. e - 1 : h[d] = NoLoss \/ h[e] < h[d]
StalledIn(h, n) == n >= patience /\ \A e \in n - patience + 1 .. n : ~ImprovesIn(h, e)

\* b is the epoch of the best loss in h, or 0 when none is a number.
IsBest(h, b, loss) ==
    /\ h \in Seq(LossValues) /\ b \in 0 .. Len(h)
    /\ b = 0 => loss = Train!Inf /\ \A e \in 1 .. Len(h) : h[e] = NoLoss
    /\ b > 0 => /\ loss = h[b] /\ ImprovesIn(h, b)
                /\ \A e \in 1 .. Len(h) : h[e] = NoLoss \/ h[b] <= h[e]

\* Losses are numbers, NaN apart, and below infinity.
LEMMA LossFacts ==
    /\ patience \in Nat \ {0} /\ epochs \in Nat \ {0}
    /\ LossValues \subseteq Int /\ Train!Inf \in Nat /\ \A v \in LossValues : v < Train!Inf
<1>1. patience \in Nat \ {0} /\ epochs \in Nat \ {0} /\ Losses \subseteq Nat \ {0} /\ IsFiniteSet(Losses)
  BY TrainingAssumed DEF Train!TrainingAssumption, Train!IsFiniteSet, IsFiniteSet
<1> DEFINE T == Losses \cup {0}
<1>2. T \in SUBSET Nat /\ IsFiniteSet(T) /\ 0 \in T
  BY <1>1, FS_AddElement
<1>3. Max(T) \in T /\ \A n \in T : n <= Max(T)
  <2> HIDE DEF T
  <2> QED
    BY <1>2, LargestOfFinite
<1>4. Train!Inf = 1 + Max(T)
  BY DEF Train!Inf, Train!Max, Max
<1>5. LossValues \subseteq Int /\ \A v \in LossValues : v \in T \/ v = -1
  BY <1>1 DEF LossValues, NoLoss
<1> HIDE DEF T
<1>6. Max(T) \in Nat
  BY <1>2, <1>3
<1>7. ASSUME NEW v \in LossValues PROVE v < 1 + Max(T)
  <2>1. CASE v \in T
    BY <1>2, <1>3, <1>6, <2>1
  <2>2. CASE v = -1
    BY <1>6, <2>2
  <2> QED
    BY <1>5, <2>1, <2>2
<1> QED
  BY <1>1, <1>4, <1>5, <1>6, <1>7

\* An epoch more: the best stays, or the new epoch is it.
LEMMA BestNext ==
    ASSUME NEW h, NEW b, NEW loss, IsBest(h, b, loss), NEW v \in LossValues
    PROVE  IF v # NoLoss /\ v < loss THEN IsBest(Append(h, v), Len(h) + 1, v)
                                     ELSE IsBest(Append(h, v), b, loss)
<1> DEFINE g == Append(h, v)
           n == Len(h)
<1>1. h \in Seq(LossValues) /\ n \in Nat /\ b \in 0 .. n
  BY LenProperties DEF IsBest
<1>2. g \in Seq(LossValues) /\ Len(g) = n + 1 /\ g[n + 1] = v /\ \A e \in 1 .. n : g[e] = h[e]
  BY <1>1, AppendProperties
<1>3. \A e \in 1 .. n : h[e] \in LossValues
  BY <1>1
<1>4. v \in Int /\ (\A e \in 1 .. n : h[e] \in Int) /\ v < Train!Inf
  BY <1>3, LossFacts
<1> HIDE DEF g, n
<1>5. b = 0 => loss = Train!Inf /\ \A e \in 1 .. n : h[e] = NoLoss
  BY DEF IsBest, n
<1>6. b > 0 => /\ loss = h[b] /\ h[b] # NoLoss
               /\ \A d \in 1 .. b - 1 : h[d] = NoLoss \/ h[b] < h[d]
               /\ \A e \in 1 .. n : h[e] = NoLoss \/ h[b] <= h[e]
  BY DEF IsBest, n, ImprovesIn
<1>7. CASE v # NoLoss /\ v < loss
  <2>1. ASSUME NEW e \in 1 .. n PROVE h[e] = NoLoss \/ v < h[e]
    BY <1>1, <1>4, <1>5, <1>6, <1>7
  <2>2. ImprovesIn(g, n + 1)
    BY <1>1, <1>2, <1>7, <2>1 DEF ImprovesIn
  <2>3. \A e \in 1 .. n + 1 : g[e] = NoLoss \/ g[n + 1] <= g[e]
    BY <1>1, <1>2, <1>4, <2>1
  <2> QED
    BY <1>1, <1>2, <1>7, <2>2, <2>3 DEF IsBest, g, n
<1>8. CASE ~ (v # NoLoss /\ v < loss)
  <2>1. CASE b = 0
    <3>1. v = NoLoss
      BY <1>4, <1>5, <1>8, <2>1
    <3>2. \A e \in 1 .. n + 1 : g[e] = NoLoss
      BY <1>1, <1>2, <1>5, <2>1, <3>1
    <3>3. IsBest(g, b, loss)
      BY <1>1, <1>2, <1>5, <2>1, <3>2 DEF IsBest
    <3> QED
      BY <1>8, <3>3 DEF g
  <2>2. CASE b > 0
    <3>1. ImprovesIn(g, b)
      BY <1>1, <1>2, <1>6, <2>2 DEF ImprovesIn
    <3>2. \A e \in 1 .. n + 1 : g[e] = NoLoss \/ g[b] <= g[e]
      BY <1>1, <1>2, <1>4, <1>6, <1>8, <2>2
    <3>3. IsBest(g, b, loss)
      BY <1>1, <1>2, <1>6, <2>2, <3>1, <3>2 DEF IsBest
    <3> QED
      BY <1>8, <3>3 DEF g
  <2> QED
    BY <1>1, <2>1, <2>2
<1> QED
  BY <1>7, <1>8

\* Training has stalled exactly when the best epoch is patience epochs ago.
LEMMA StalledWhen ==
    ASSUME NEW h, NEW b, NEW loss, IsBest(h, b, loss), Len(h) > 0
    PROVE  StalledIn(h, Len(h)) <=> Len(h) - b >= patience
<1> DEFINE n == Len(h)
<1>1. h \in Seq(LossValues) /\ n \in Nat /\ b \in 0 .. n /\ n > 0
  BY LenProperties DEF IsBest
<1>2. patience \in Nat \ {0} /\ \A e \in 1 .. n : h[e] \in Int
  <2>1. \A e \in 1 .. n : h[e] \in LossValues
    BY <1>1
  <2> QED
    BY <2>1, LossFacts
<1> HIDE DEF n
<1>3. b = 0 => \A e \in 1 .. n : h[e] = NoLoss
  BY DEF IsBest, n
<1>4. b > 0 => /\ h[b] # NoLoss /\ ImprovesIn(h, b)
               /\ \A e \in 1 .. n : h[e] = NoLoss \/ h[b] <= h[e]
  BY DEF IsBest, n, ImprovesIn
<1>5. ASSUME NEW e \in b + 1 .. n PROVE ~ImprovesIn(h, e)
  <2>1. CASE b = 0
    BY <1>1, <1>3, <2>1 DEF ImprovesIn
  <2>2. CASE b > 0
    <3>1. b \in 1 .. e - 1 /\ e \in 1 .. n /\ b \in 1 .. n
      BY <1>1, <2>2
    <3>2. h[e] = NoLoss \/ ~ (h[e] < h[b])
      BY <1>2, <1>4, <2>2, <3>1
    <3> QED
      BY <1>4, <2>2, <3>1, <3>2 DEF ImprovesIn
  <2> QED
    BY <1>1, <2>1, <2>2
<1>6. ASSUME n - b >= patience PROVE StalledIn(h, n)
  <2>1. \A e \in n - patience + 1 .. n : e \in b + 1 .. n
    BY <1>1, <1>2, <1>6
  <2> QED
    BY <1>1, <1>2, <1>5, <1>6, <2>1 DEF StalledIn
<1>7. ASSUME StalledIn(h, n), ~ (n - b >= patience) PROVE FALSE
  <2>1. n >= patience /\ \A e \in n - patience + 1 .. n : ~ImprovesIn(h, e)
    BY <1>7 DEF StalledIn
  <2>2. b > 0 /\ b \in n - patience + 1 .. n
    BY <1>1, <1>2, <1>7, <2>1
  <2> QED
    BY <1>4, <2>1, <2>2
<1> QED
  BY <1>6, <1>7 DEF n

\* The best epoch is the first of those with the lowest loss.
LEMMA BestIsFirst ==
    ASSUME NEW h, NEW b, NEW loss, IsBest(h, b, loss)
    PROVE  LET numbers == {e \in DOMAIN h : h[e] # NoLoss}
           IN  /\ b = 0 <=> numbers = {}
               /\ b > 0 => b = Min({e \in numbers : \A d \in numbers : h[e] <= h[d]})
<1> DEFINE numbers == {e \in DOMAIN h : h[e] # NoLoss}
           lowest == {e \in numbers : \A d \in numbers : h[e] <= h[d]}
<1>1. h \in Seq(LossValues) /\ Len(h) \in Nat /\ b \in 0 .. Len(h) /\ DOMAIN h = 1 .. Len(h)
  BY LenProperties DEF IsBest
<1>2. \A e \in 1 .. Len(h) : h[e] \in Int
  <2>1. \A e \in 1 .. Len(h) : h[e] \in LossValues
    BY <1>1
  <2> QED
    BY <2>1, LossFacts
<1>3. CASE b = 0
  BY <1>1, <1>3 DEF IsBest
<1>4. CASE b > 0
  <2>1. /\ h[b] # NoLoss /\ \A d \in 1 .. b - 1 : h[d] = NoLoss \/ h[b] < h[d]
        /\ \A e \in 1 .. Len(h) : h[e] = NoLoss \/ h[b] <= h[e]
    BY <1>4 DEF IsBest, ImprovesIn
  <2>2. b \in 1 .. Len(h)
    BY <1>1, <1>4
  <2>3. b \in lowest
    BY <1>1, <2>1, <2>2
  <2>4. ASSUME NEW e \in lowest PROVE e \in Nat /\ b <= e
    <3>1. e \in 1 .. Len(h) /\ h[e] # NoLoss /\ h[e] <= h[b]
      BY <1>1, <2>1, <2>2
    <3> QED
      BY <1>1, <1>2, <2>1, <2>2, <3>1
  <2> HIDE DEF lowest
  <2>5. b = Min(lowest)
    <3>1. Min(lowest) \in lowest /\ \A e \in lowest : Min(lowest) <= e
      BY <2>3, <2>4 DEF Min
    <3>2. Min(lowest) <= b /\ b <= Min(lowest) /\ Min(lowest) \in Nat /\ b \in Nat
      BY <2>3, <2>4, <3>1
    <3> QED
      BY <3>2
  <2>6. b \in numbers
    BY <1>1, <2>1, <2>2
  <2> QED
    BY <1>4, <2>5, <2>6 DEF lowest
<1> QED
  BY <1>1, <1>3, <1>4

(***************************************************************************)
(* While it trains, a script knows the best epoch so far and has not       *)
(* stalled; the counter is the distance to the best epoch.  Once the loop  *)
(* has ended it has stalled for the first time, or done every epoch.       *)
(***************************************************************************)
BestInv ==
    /\ ReportInv
    /\ trainPc \in {"scaler", "train", "restore", "save", "evaluate"} =>
          /\ IsBest(history, best_weights, best_val_loss)
          /\ \A m \in 1 .. Len(history) - 1 : ~StalledIn(history, m)
    /\ trainPc \in {"scaler", "train", "restore"} =>
          weights = Len(history) /\ epochs_no_improve = Len(history) - best_weights
    /\ trainPc \in {"scaler", "train"} =>
          /\ Len(history) < epochs /\ Len(history) - best_weights < patience
          /\ ~StalledIn(history, Len(history))
    /\ trainPc \in {"restore", "save", "evaluate"} =>
          StalledIn(history, Len(history)) \/ Len(history) = epochs
    /\ trainPc \in {"save", "evaluate"} =>
          weights = IF best_weights = 0 THEN Len(history) ELSE best_weights

\* The invariant says what was promised.
LEMMA BestImplies == BestInv => Train!BestWeightsReturned
<1> SUFFICES ASSUME BestInv, trainPc \in {"save", "evaluate"}
             PROVE  Train!BestWeightsReturned
  BY DEF Train!BestWeightsReturned
<1> DEFINE numbers == {e \in DOMAIN history : history[e] # NoLoss}
           first == Min({e \in numbers : \A d \in numbers : history[e] <= history[d]})
<1>1. IsBest(history, best_weights, best_val_loss) /\ best_weights \in Nat
  BY DEF BestInv, ReportInv, Training_TypeOK
<1>2. (best_weights = 0 <=> numbers = {}) /\ (best_weights > 0 => best_weights = first)
  BY <1>1, BestIsFirst
<1> HIDE DEF numbers, first
<1>3. weights = IF numbers = {} THEN Len(history) ELSE first
  BY <1>1, <1>2 DEF BestInv
<1>4. \A e : Train!Improves(e) <=> ImprovesIn(history, e)
  BY DEF Train!Improves, Train!NaN, ImprovesIn, NoLoss
<1>5. \A m : Train!Stalled(m) <=> StalledIn(history, m)
  BY <1>4 DEF Train!Stalled, StalledIn
<1>6. /\ Train!Stalled(Len(history)) \/ Len(history) = epochs
      /\ \A m \in 1 .. Len(history) - 1 : ~Train!Stalled(m)
  BY <1>5 DEF BestInv
<1>7. trainPc = "evaluate" => models.files[script] = Train!Saved(weights)
  BY DEF BestInv, ReportInv, Training_TypeOK, InScript
<1>8. \A S : Train!Min(S) = Min(S)
  BY DEF Train!Min, Min
<1> QED
  BY <1>3, <1>6, <1>7, <1>8 DEF Train!BestWeightsReturned, Train!NaN, NoLoss, numbers, first

\* Every step preserves it.
LEMMA BestStep == BestInv /\ [Train!Next]_(Train!vars) => BestInv'
<1> SUFFICES ASSUME BestInv, [Train!Next]_(Train!vars)
             PROVE  BestInv'
  OBVIOUS
<1>1. ReportInv /\ ReportInv'
  BY ReportStep DEF BestInv
<1> USE DEF BestInv
<1>2. ASSUME NEW s \in Scripts, NEW o, Train!Start(s, o)
      PROVE  BestInv'
  <2>1. /\ weights' = 0 /\ best_weights' = 0 /\ history' = <<>> /\ best_val_loss' = Train!Inf
        /\ epochs_no_improve' = 0
        /\ trainPc' \in {"idle", "scaler", "train", "export", "csv"}
    BY <1>2 DEF Train!Start, Train!None, Scripts, Trainers, Train!Exporters
  <2>2. history' \in Seq(LossValues) /\ Len(history') = 0
    BY <2>1
  <2>3. patience \in Nat \ {0} /\ epochs \in Nat \ {0}
    BY LossFacts
  <2>4. IsBest(history', best_weights', best_val_loss')
    BY <2>1, <2>2 DEF IsBest
  <2>5. ~StalledIn(history', Len(history'))
    BY <2>2, <2>3 DEF StalledIn
  <2> QED
    BY <1>1, <2>1, <2>2, <2>3, <2>4, <2>5
<1>3. ASSUME NEW loss \in Losses \cup {Train!NaN},
             Train!train_lstm_forecaster(loss) \/ Train!train_transformer_forecaster(loss)
      PROVE  BestInv'
  <2> DEFINE v == IF "val" \in opts.empty THEN 0 ELSE loss
             n == Len(history)
  <2>1. v \in LossValues
    BY DEF LossValues, NoLoss, Train!NaN
  <2>2. trainPc = "train" /\ Train!EpochEnd(v)
    BY <1>3 DEF Train!train_lstm_forecaster, Train!train_transformer_forecaster
  <2> HIDE DEF v
  <2>3. /\ IsBest(history, best_weights, best_val_loss) /\ epochs_no_improve = n - best_weights
        /\ n < epochs /\ n - best_weights < patience
        /\ \A m \in 1 .. n : ~StalledIn(history, m)
    <3>1. n \in Nat
      BY <1>1 DEF ReportInv, Training_TypeOK
    <3> QED
      BY <2>2, <3>1
  <2>4. history \in Seq(LossValues) /\ n \in Nat /\ best_weights \in 0 .. n
    BY <2>3, LenProperties DEF IsBest
  <2>5. /\ history' = Append(history, v) /\ weights' = n + 1 /\ Len(history') = n + 1
        /\ \A e \in 1 .. n : history'[e] = history[e]
    BY <2>1, <2>2, <2>4, AppendProperties DEF Train!EpochEnd
  <2>6. /\ IsBest(history', best_weights', best_val_loss')
        /\ epochs_no_improve' = n + 1 - best_weights'
    <3>1. CASE v # NoLoss /\ v < best_val_loss
      <4>1. /\ best_val_loss' = v /\ best_weights' = weights' /\ epochs_no_improve' = 0
        BY <2>2, <3>1 DEF Train!EpochEnd, Train!NaN, NoLoss
      <4>2. IsBest(Append(history, v), n + 1, v)
        BY <2>1, <2>3, <3>1, BestNext
      <4> QED
        BY <2>4, <2>5, <4>1, <4>2
    <3>2. CASE ~ (v # NoLoss /\ v < best_val_loss)
      <4>1. /\ best_val_loss' = best_val_loss /\ best_weights' = best_weights
            /\ epochs_no_improve' = epochs_no_improve + 1
        BY <2>2, <3>2 DEF Train!EpochEnd, Train!NaN, NoLoss
      <4>2. IsBest(Append(history, v), best_weights, best_val_loss)
        BY <2>1, <2>3, <3>2, BestNext
      <4> QED
        BY <2>3, <2>4, <2>5, <4>1, <4>2
    <3> QED
      BY <3>1, <3>2
  <2>7. ASSUME NEW m \in 1 .. n PROVE ~StalledIn(history', m)
    <3>1. patience \in Nat \ {0}
      BY LossFacts
    <3>2. ASSUME NEW e \in 1 .. n PROVE ImprovesIn(history', e) <=> ImprovesIn(history, e)
      BY <2>4, <2>5 DEF ImprovesIn
    <3>3. ASSUME m >= patience, NEW e \in m - patience + 1 .. m PROVE e \in 1 .. n
      BY <2>4, <3>1, <3>3
    <3>4. ~StalledIn(history, m)
      BY <2>3
    <3> QED
      BY <3>2, <3>3, <3>4 DEF StalledIn
  <2>8. StalledIn(history', Len(history')) <=> Len(history') - best_weights' >= patience
    <3>1. Len(history') > 0
      BY <2>4, <2>5
    <3> QED
      BY <2>6, <3>1, StalledWhen
  <2>9. /\ trainPc' = IF epochs_no_improve' >= patience \/ Len(history') = epochs
                      THEN "restore" ELSE "train"
    BY <2>2 DEF Train!EpochEnd
  <2>10. patience \in Nat \ {0} /\ epochs \in Nat \ {0} /\ best_weights' \in Nat
    BY <1>1, LossFacts DEF ReportInv, Training_TypeOK
  <2> HIDE DEF n
  <2> QED
    BY <1>1, <2>3, <2>4, <2>5, <2>6, <2>7, <2>8, <2>9, <2>10 DEF n
<1>4. CASE Train!RestoreBest
  <2>1. /\ UNCHANGED <<best_weights, best_val_loss, history>> /\ trainPc = "restore" /\ trainPc' = "save"
        /\ weights' = IF best_weights = 0 THEN weights ELSE best_weights
    BY <1>4 DEF Train!RestoreBest, Train!None
  <2> QED
    BY <1>1, <2>1
<1>5. CASE /\ UNCHANGED <<history, weights, best_val_loss, best_weights, epochs_no_improve>>
           /\ trainPc' = trainPc \/ <<trainPc, trainPc'>> \in {<<"scaler", "train">>, <<"save", "evaluate">>}
                \/ trainPc' \notin {"scaler", "train", "restore", "save", "evaluate"}
  BY <1>1, <1>5
<1>6. ASSUME Train!SaveScaler \/ Train!save_weights
      PROVE  BestInv'
  <2>1. UNCHANGED <<history, weights, best_val_loss, best_weights, epochs_no_improve>>
    BY <1>6 DEF Train!SaveScaler, Train!save_weights, Train!memory
  <2>2. /\ trainPc' \in {"train", "evaluate", "export"}
        /\ trainPc' = "train" => trainPc = "scaler"
        /\ trainPc' = "evaluate" => trainPc = "save"
    BY <1>6 DEF Train!SaveScaler, Train!save_weights
  <2> QED
    BY <1>5, <2>1, <2>2
<1>7. ASSUME NEW outcome,
             \/ Train!evaluate_test_set \/ Train!EvaluateTransformer \/ Train!SkipExport
             \/ Train!EndTransformer \/ Train!generate_v3_report \/ Train!train_and_evaluate
             \/ Train!Crash \/ Train!ExportONNX(outcome) \/ Train!ExportLSTMMain(outcome)
             \/ Train!ExportTransformerMain(outcome)
      PROVE  BestInv'
  <2>1. UNCHANGED <<history, weights, best_val_loss, best_weights, epochs_no_improve>>
    BY <1>7 DEF Train!evaluate_test_set, Train!EvaluateTransformer, Train!SkipExport,
                Train!EndTransformer, Train!generate_v3_report, Train!train_and_evaluate, Train!Crash,
                Train!ExportONNX, Train!ExportLSTMMain, Train!ExportTransformerMain, Train!memory
  <2>2. trainPc' \in {"idle", "export", "report", "markov", "hmm"}
    BY <1>7 DEF Train!evaluate_test_set, Train!EvaluateTransformer, Train!SkipExport,
                Train!EndTransformer, Train!generate_v3_report, Train!train_and_evaluate, Train!Crash,
                Train!ExportONNX, Train!ExportLSTMMain, Train!ExportTransformerMain, Train!Exit
  <2> QED
    BY <1>5, <2>1, <2>2
<1>8. CASE UNCHANGED Train!vars
  BY <1>1, <1>8 DEF Train!vars, Train!memory
<1>9. {"lstm", "transformer", "hmm", "export_lstm", "export_transformer"} = Scripts
  BY DEF Scripts, Trainers
<1> QED
  BY <1>2, <1>3, <1>4, <1>6, <1>7, <1>8, <1>9 DEF Train!Next

\* A checkpoint holds the weights of the first epoch with the lowest validation loss, and
\* training stops at the first epoch that exhausts its patience (train_lstm_forecaster,
\* train_transformer_forecaster), for any losses, NaN included, patience and number of epochs.
THEOREM EarlyStopping ==
    /\ Train!Spec => []Train!BestWeightsReturned
    /\ MCSpec => []BestWeightsReturned
<1>1. Train!Init => BestInv
  <2> SUFFICES ASSUME Train!Init PROVE BestInv
    OBVIOUS
  <2>1. ReportInv /\ trainPc = "idle"
    BY ReportInit DEF Train!Init
  <2> QED
    BY <2>1 DEF BestInv
<1>2. Train!Spec => []BestInv
  BY <1>1, BestStep, PTL DEF Train!Spec
<1>3. Train!BestWeightsReturned => BestWeightsReturned
  BY DEF BestWeightsReturned
<1> QED
  BY <1>2, <1>3, BestImplies, TrainingAlone, PTL

----------------------------------------------------------------------------
\* The sliding windows.

Entry == [ts : Times \cup {-1}, error : {s.error : s \in Statuses}, ms : {s.ms : s \in Statuses}]
Stamps == {log[i].ts : i \in Features!valid_logs}
Counted(k) == {i \in Features!valid_logs : Features!InWindow(i, window_eval_times[k], SubWindow)}
Covered(i) == \E k \in DOMAIN window_eval_times : Features!InWindow(i, window_eval_times[k], SubWindow)

(***************************************************************************)
(* What the scan has not covered yet is not older than a step before the   *)
(* end of the window it evaluates next; behind a gap that is skipped there *)
(* is nothing.                                                             *)
(***************************************************************************)
CoverInv ==
    /\ log \in Seq(Entry) /\ window_step \in Steps /\ curr_end \in Nat
    /\ window_eval_times \in Seq(Nat) /\ phase \in {"logging", "scan", "rows", "done"}
    /\ phase = "logging" => window_eval_times = <<>>
    /\ phase = "scan" =>
          \A i \in Features!valid_logs : Covered(i) \/ log[i].ts >= curr_end - window_step
    /\ phase = "scan" => Features!valid_logs # {}
    /\ phase \in {"rows", "done"} => \A i \in Features!valid_logs : Covered(i)
    /\ phase = "done" /\ Features!valid_logs # {} =>
          \A k \in DOMAIN window_eval_times :
             Cardinality(Counted(k)) >= BurstMin => k \in DOMAIN dataset /\ dataset[k].label = 1

\* The timestamps of a log, and the first and the last of them.
LEMMA StampFacts ==
    ASSUME log \in Seq(Entry)
    PROVE  /\ Features!valid_logs \in SUBSET (1 .. Len(log)) /\ IsFiniteSet(Features!valid_logs)
           /\ \A i \in Features!valid_logs : log[i].ts \in Times /\ log[i].ts \in Nat
           /\ Stamps \in SUBSET Nat
           /\ Features!valid_logs # {} =>
                /\ Features!t_first \in Nat /\ Features!t_last \in Nat
                /\ \A i \in Features!valid_logs :
                      Features!t_first <= log[i].ts /\ log[i].ts <= Features!t_last
<1>1. Times \subseteq Nat
  BY WindowsAssumed DEF Features!WindowsAssumption
<1>2. DOMAIN log = 1 .. Len(log) /\ Len(log) \in Nat /\ \A i \in 1 .. Len(log) : log[i] \in Entry
  BY LenProperties
<1>3. Features!valid_logs \in SUBSET (1 .. Len(log))
  BY <1>2 DEF Features!valid_logs
<1>4. IsFiniteSet(Features!valid_logs)
  <2>1. IsFiniteSet(1 .. Len(log))
    BY <1>2, FS_Interval
  <2> QED
    BY <1>3, <2>1, FS_Subset
<1>5. \A i \in Features!valid_logs : log[i].ts \in Times /\ log[i].ts \in Nat
  BY <1>1, <1>2, <1>3 DEF Entry, Features!valid_logs, Features!Missing
<1>6. Stamps \in SUBSET Nat
  BY <1>5 DEF Stamps
<1>7. IsFiniteSet(Stamps)
  <2> DEFINE f == [i \in Features!valid_logs |-> log[i].ts]
  <2>1. f \in Surjection(Features!valid_logs, Stamps)
    BY DEF Stamps, Surjection
  <2> QED
    BY <1>4, <2>1, FS_Surjection
<1>8. ASSUME Features!valid_logs # {}
      PROVE  /\ Features!t_first \in Nat /\ Features!t_last \in Nat
             /\ \A i \in Features!valid_logs :
                   Features!t_first <= log[i].ts /\ log[i].ts <= Features!t_last
  <2>1. Stamps # {} /\ \A i \in Features!valid_logs : log[i].ts \in Stamps
    BY <1>8 DEF Stamps
  <2>2. Features!t_first = Min(Stamps) /\ Features!t_last = Max(Stamps)
    BY DEF Features!t_first, Features!t_last, Features!Min, Features!Max, Min, Max, Stamps
  <2>3. Max(Stamps) \in Stamps /\ \A n \in Stamps : n <= Max(Stamps)
    BY <1>6, <1>7, <2>1, LargestOfFinite
  <2>4. PICK m \in Stamps : \A n \in Stamps : m <= n
    BY <1>6, <2>1, LeastNumber
  <2>5. Min(Stamps) \in Stamps /\ \A n \in Stamps : Min(Stamps) <= n
    BY <2>4 DEF Min
  <2> QED
    BY <1>6, <2>1, <2>2, <2>3, <2>5
<1> QED
  BY <1>3, <1>4, <1>5, <1>6, <1>8

\* A step is shorter than the part of a window that is counted, and that than a window.
LEMMA WindowFacts ==
    /\ SubWindow \in Nat /\ window_size \in Nat /\ SubWindow <= window_size /\ BurstMin \in Nat
    /\ \A step \in Steps : step \in Nat /\ step > 0 /\ step <= SubWindow
BY WindowsAssumed DEF Features!WindowsAssumption

\* Every step of the extraction preserves the invariant.
LEMMA CoverStep == CoverInv /\ [Features!Next]_(Features!vars) => CoverInv'
<1> SUFFICES ASSUME CoverInv, [Features!Next]_(Features!vars)
             PROVE  CoverInv'
  OBVIOUS
<1>0. /\ log \in Seq(Entry) /\ window_step \in Steps /\ window_step \in Nat /\ curr_end \in Nat
      /\ window_eval_times \in Seq(Nat) /\ window_step <= SubWindow /\ window_step > 0
  BY WindowFacts DEF CoverInv
<1> DEFINE valid == Features!valid_logs
<1>1. ASSUME NEW ts \in Times \cup {Features!Missing}, NEW status \in Statuses,
             Features!Read(ts, status)
      PROVE  CoverInv'
  <2>1. /\ log' = Append(log, [ts |-> ts, error |-> status.error, ms |-> status.ms])
        /\ UNCHANGED <<window_step, phase, curr_end, window_eval_times, dataset>>
        /\ phase = "logging"
    BY <1>1 DEF Features!Read
  <2>2. [ts |-> ts, error |-> status.error, ms |-> status.ms] \in Entry
    BY DEF Entry, Features!Missing
  <2>3. log' \in Seq(Entry)
    BY <1>0, <2>1, <2>2, AppendProperties
  <2> QED
    BY <2>1, <2>3 DEF CoverInv
<1>2. CASE Features!StartScan
  <2>1. UNCHANGED <<log, window_step, dataset>> /\ phase = "logging"
    BY <1>2 DEF Features!StartScan
  <2>2. valid' = valid /\ \A i : Features!InWindow(i, 0, 0)' <=> Features!InWindow(i, 0, 0)
    BY <2>1 DEF Features!valid_logs, Features!InWindow
  <2>3. CASE valid = {}
    <3>1. phase' = "rows" /\ UNCHANGED <<curr_end, window_eval_times>>
      BY <1>2, <2>3 DEF Features!StartScan
    <3> QED
      BY <2>1, <2>2, <2>3, <3>1 DEF CoverInv
  <2>4. CASE valid # {} /\ Features!t_last - Features!t_first <= window_step
    <3>1. phase' = "rows" /\ curr_end' = curr_end /\ window_eval_times' = <<Features!t_last>>
      BY <1>0, <1>2, <2>4, StampFacts DEF Features!StartScan
    <3>2. ASSUME NEW i \in valid PROVE Covered(i)'
      <4>1. /\ Features!t_last \in Nat /\ Features!t_first \in Nat /\ log[i].ts \in Nat
            /\ Features!t_first <= log[i].ts /\ log[i].ts <= Features!t_last
        BY <1>0, <2>4, StampFacts
      <4>2. 0 <= Features!t_last - log[i].ts /\ Features!t_last - log[i].ts <= SubWindow
        BY <1>0, <2>4, <4>1, WindowFacts
      <4>3. 1 \in DOMAIN window_eval_times' /\ window_eval_times'[1] = Features!t_last
        BY <3>1
      <4> QED
        BY <2>1, <4>2, <4>3 DEF Covered, Features!InWindow
    <3>3. window_eval_times' \in Seq(Nat)
      BY <1>0, <2>4, <3>1, StampFacts
    <3> QED
      BY <1>0, <2>1, <2>2, <3>1, <3>2, <3>3 DEF CoverInv
  <2>5. CASE valid # {} /\ Features!t_last - Features!t_first > window_step
    <3>0. Features!t_last \in Nat /\ Features!t_first \in Nat
      BY <1>0, <2>5, StampFacts
    <3>1. /\ phase' = "scan" /\ curr_end' = Features!t_first + window_step
          /\ window_eval_times' = window_eval_times
      BY <1>0, <1>2, <2>5, <3>0 DEF Features!StartScan
    <3>2. ASSUME NEW i \in valid PROVE log[i].ts >= curr_end' - window_step
      BY <1>0, <2>5, <3>0, <3>1, StampFacts
    <3> QED
      BY <1>0, <2>1, <2>2, <2>5, <3>0, <3>1, <3>2 DEF CoverInv
  <2> QED
    BY <1>2, <2>3, <2>4, <2>5 DEF Features!StartScan
<1>3. CASE Features!ScanWindow
  <2> DEFINE next == {log[i].ts : i \in valid} \cap {t \in Times : t > curr_end}
             inside == \E i \in valid : Features!InWindow(i, curr_end, window_size)
  <2>1. /\ UNCHANGED <<log, window_step, phase, dataset>> /\ phase = "scan"
        /\ window_eval_times' = IF inside THEN Append(window_eval_times, curr_end)
                                ELSE window_eval_times
        /\ curr_end' = Features!NextEnd(next)
    BY <1>3 DEF Features!ScanWindow
  <2>2. valid' = valid
    BY <2>1 DEF Features!valid_logs
  <2>3. \A i \in valid : log[i].ts \in Nat /\ log[i].ts \in Times
    BY <1>0, StampFacts
  <2>4. window_eval_times' \in Seq(Nat)
    BY <1>0, <2>1, AppendProperties
  <2>5. ASSUME NEW i \in valid, Covered(i) PROVE Covered(i)'
    <3>1. PICK k \in DOMAIN window_eval_times : Features!InWindow(i, window_eval_times[k], SubWindow)
      BY <2>5 DEF Covered
    <3>2. k \in DOMAIN window_eval_times' /\ window_eval_times'[k] = window_eval_times[k]
      BY <1>0, <2>1, <3>1, AppendProperties
    <3> QED
      BY <2>1, <3>1, <3>2 DEF Covered, Features!InWindow
  <2>6. ASSUME NEW i \in valid, log[i].ts >= curr_end - window_step, log[i].ts <= curr_end
        PROVE  Covered(i)'
    <3>1. /\ 0 <= curr_end - log[i].ts /\ curr_end - log[i].ts <= SubWindow
          /\ curr_end - log[i].ts <= window_size
      BY <1>0, <2>3, <2>6, WindowFacts
    <3>2. inside
      BY <3>1 DEF Features!InWindow
    <3>3. /\ Len(window_eval_times) + 1 \in DOMAIN window_eval_times'
          /\ window_eval_times'[Len(window_eval_times) + 1] = curr_end
      BY <1>0, <2>1, <3>2, AppendProperties
    <3> QED
      BY <2>1, <3>1, <3>3 DEF Covered, Features!InWindow
  <2>7. /\ curr_end' \in Nat
        /\ \A i \in valid : log[i].ts > curr_end => log[i].ts >= curr_end' - window_step
    <3>1. next \in SUBSET Nat
      BY <2>3
    <3>2. \A i \in valid : log[i].ts > curr_end => log[i].ts \in next
      BY <2>3
    <3> HIDE DEF next
    <3>3. CASE next # {} /\ Min(next) - curr_end > window_size
      <4>1. PICK m \in next : \A n \in next : m <= n
        BY <3>1, <3>3, LeastNumber
      <4>2. Min(next) \in next /\ \A n \in next : Min(next) <= n
        BY <4>1 DEF Min
      <4>3. curr_end' = Min(next) + window_step
        BY <2>1, <3>3 DEF Features!NextEnd, Features!Min, Min
      <4>4. Min(next) \in Nat
        BY <3>1, <4>2
      <4>5. curr_end' \in Nat /\ curr_end' - window_step = Min(next)
        BY <1>0, <4>3, <4>4
      <4>6. ASSUME NEW i \in valid, log[i].ts > curr_end
            PROVE  log[i].ts >= Min(next)
        BY <2>3, <3>2, <4>2, <4>4, <4>6
      <4> QED
        BY <4>5, <4>6
    <3>4. CASE ~ (next # {} /\ Min(next) - curr_end > window_size)
      <4>1. curr_end' = curr_end + window_step
        BY <2>1, <3>4 DEF Features!NextEnd, Features!Min, Min
      <4> QED
        BY <1>0, <2>3, <4>1
    <3> QED
      BY <3>3, <3>4
  <2>8. \A i \in valid : Covered(i)' \/ log'[i].ts >= curr_end' - window_step'
    BY <1>0, <2>1, <2>3, <2>5, <2>6, <2>7 DEF CoverInv
  <2>9. valid # {}
    BY <2>1 DEF CoverInv
  <2> QED
    BY <1>0, <2>1, <2>2, <2>4, <2>7, <2>8, <2>9 DEF CoverInv
<1>4. CASE Features!ScanEnds
  <2>1. /\ UNCHANGED <<log, window_step, curr_end, window_eval_times, dataset>>
        /\ phase = "scan" /\ phase' = "rows" /\ curr_end > Features!t_last + window_step
    BY <1>4 DEF Features!ScanEnds
  <2>2. valid' = valid /\ valid # {} /\ \A i : Covered(i)' <=> Covered(i)
    BY <2>1 DEF Features!valid_logs, Covered, Features!InWindow, CoverInv
  <2>3. ASSUME NEW i \in valid PROVE Covered(i)
    <3>1. /\ Features!t_last \in Nat /\ log[i].ts \in Nat /\ log[i].ts <= Features!t_last
      BY <1>0, <2>2, StampFacts
    <3>2. ~ (log[i].ts >= curr_end - window_step)
      BY <1>0, <2>1, <3>1
    <3> QED
      BY <2>1, <3>2 DEF CoverInv
  <2> QED
    BY <1>0, <2>1, <2>2, <2>3 DEF CoverInv
<1>5. CASE Features!label_dataset
  <2>1. /\ UNCHANGED <<log, window_step, curr_end, window_eval_times>>
        /\ phase = "rows" /\ phase' = "done"
        /\ dataset' = [k \in DOMAIN Features!feature_rows |->
                          [row |-> Features!feature_rows[k],
                           label |-> Features!classify_row(Features!feature_rows[k])]]
    BY <1>5 DEF Features!label_dataset
  <2>2. valid' = valid /\ \A i : Covered(i)' <=> Covered(i)
    BY <2>1 DEF Features!valid_logs, Covered, Features!InWindow
  <2>3. \A k : Counted(k)' = Counted(k)
    BY <2>1 DEF Counted, Features!valid_logs, Features!InWindow
  <2>4. ASSUME valid # {}, NEW k \in DOMAIN window_eval_times, Cardinality(Counted(k)) >= BurstMin
        PROVE  k \in DOMAIN dataset' /\ dataset'[k].label = 1
    <3> DEFINE w60(j) == {i \in valid : Features!InWindow(i, window_eval_times[j], window_size)}
               row(j) == Features!FeatureRow(w60(j), Cardinality(Counted(j)))
    <3>1. Features!feature_rows = [j \in DOMAIN window_eval_times |-> row(j)]
      <4>1. \A S : Features!Cardinality(S) = Cardinality(S)
        BY Zenon DEF Features!Cardinality, Cardinality
      <4> QED
        BY <2>4, <4>1 DEF Features!feature_rows, Counted
    <3>2. row(k).requests_10s = Cardinality(Counted(k))
      BY DEF Features!FeatureRow
    <3> HIDE DEF row
    <3>3. Features!classify_row(row(k)) = 1
      BY <2>4, <3>2 DEF Features!classify_row
    <3> QED
      BY <2>1, <3>1, <3>3
  <2> QED
    BY <1>0, <2>1, <2>2, <2>3, <2>4 DEF CoverInv
<1>6. CASE UNCHANGED Features!vars
  <2>1. UNCHANGED <<log, window_step, phase, curr_end, window_eval_times, dataset>>
    BY <1>6 DEF Features!vars
  <2>2. valid' = valid /\ \A i : Covered(i)' <=> Covered(i)
    BY <2>1 DEF Features!valid_logs, Covered, Features!InWindow
  <2>3. \A k : Counted(k)' = Counted(k)
    BY <2>1 DEF Counted, Features!valid_logs, Features!InWindow
  <2> QED
    BY <2>1, <2>2, <2>3 DEF CoverInv
<1> QED
  BY <1>1, <1>2, <1>3, <1>4, <1>5, <1>6 DEF Features!Next

\* Every request with a timestamp is in the 10-second part of an evaluated window, and a burst
\* at one instant is labelled an attack (extract_features, classify_row), for every log.
THEOREM NoRequestBetweenWindows ==
    /\ Features!Spec => []Features!EveryRequestCovered
    /\ MCSpec => []EveryRequestCovered
<1>1. Features!Init => CoverInv
  <2> SUFFICES ASSUME Features!Init PROVE CoverInv
    OBVIOUS
  <2>1. /\ log = <<>> /\ window_step \in Steps /\ phase = "logging" /\ curr_end = 0
        /\ window_eval_times = <<>>
    BY DEF Features!Init
  <2> QED
    BY <2>1 DEF CoverInv
<1>2. Features!Spec => []CoverInv
  BY <1>1, CoverStep, PTL DEF Features!Spec
<1>3. CoverInv => Features!EveryRequestCovered
  <2> SUFFICES ASSUME CoverInv, phase = "done", NEW i \in Features!valid_logs
               PROVE  /\ Covered(i)
                      /\ Features!Cardinality({j \in Features!valid_logs : log[j].ts = log[i].ts})
                            >= BurstMin => \E k \in DOMAIN dataset : dataset[k].label = 1
    BY DEF Features!EveryRequestCovered, Covered
  <2>1. Covered(i)
    BY DEF CoverInv
  <2> DEFINE burst == {j \in Features!valid_logs : log[j].ts = log[i].ts}
  <2>2. ASSUME Cardinality(burst) >= BurstMin
        PROVE  \E k \in DOMAIN dataset : dataset[k].label = 1
    <3>1. PICK k \in DOMAIN window_eval_times : Features!InWindow(i, window_eval_times[k], SubWindow)
      BY <2>1 DEF Covered
    <3>2. burst \subseteq Counted(k)
      BY <3>1 DEF Counted, Features!InWindow
    <3>3. IsFiniteSet(Counted(k))
      <4>1. IsFiniteSet(Features!valid_logs) /\ Counted(k) \subseteq Features!valid_logs
        BY StampFacts DEF Counted, CoverInv
      <4> QED
        BY <4>1, FS_Subset
    <3> HIDE DEF burst
    <3>4. Cardinality(burst) <= Cardinality(Counted(k))
      BY <3>2, <3>3, FS_Subset
    <3>5. Cardinality(Counted(k)) \in Nat /\ Cardinality(burst) \in Nat
      BY <3>2, <3>3, FS_Subset, FS_CardinalityType
    <3>6. Cardinality(Counted(k)) >= BurstMin
      BY <2>2, <3>4, <3>5, WindowFacts
    <3> QED
      BY <3>6 DEF CoverInv
  <2>3. \A S : Features!Cardinality(S) = Cardinality(S)
    BY Zenon DEF Features!Cardinality, Cardinality
  <2> QED
    BY <2>1, <2>2, <2>3
<1>4. Features!EveryRequestCovered => EveryRequestCovered
  BY DEF EveryRequestCovered
<1> QED
  BY <1>2, <1>3, <1>4, FeaturesAlone, PTL

----------------------------------------------------------------------------
\* The state store.

\* Any step of a thread that uses the store, and the end of the process.
StoreStep ==
    \/ \E l \in Lines : append(l)
    \/ \E t \in Threads : \/ TakeUnflushed(t) \/ InsertRows(t) \/ InsertFails(t) \/ AddLoaded(t)
                          \/ \E limit \in Nat : FetchRows(t, limit)
    \/ Forget

StoreTypeOK ==
    /\ buffer \in Seq(Lines) /\ unflushed \in Seq(Lines) /\ db \in Seq(Lines)
    /\ to_save \in [Threads -> Seq(Lines)] /\ loaded_states \in [Threads -> Seq(Lines)]
    /\ appended \in [Lines -> Nat] /\ lost \in [Lines -> Nat]

\* What the counting of states needs to know of the constants.
LEMMA StoreFacts ==
    /\ IsFiniteSet(Threads) /\ capacity \in Nat \ {0} /\ IndexCapacity \in Nat \ {0}
BY CollectorAssumed DEF CollectorAssumption, StoreAssumption

\* How often a line occurs in a list.
LEMMA CountFacts ==
    ASSUME NEW l \in Lines
    PROVE  /\ \A s \in Seq(Lines) : Count(s, l) \in Nat
           /\ Count(<<>>, l) = 0
           /\ \A s, u \in Seq(Lines) : Count(s \o u, l) = Count(s, l) + Count(u, l)
           /\ \A s \in Seq(Lines), x \in Lines :
                 Count(Append(s, x), l) = IF x = l THEN Count(s, l) + 1 ELSE Count(s, l)
<1>1. ASSUME NEW s \in Seq(Lines)
      PROVE  Count(s, l) = Len(Filter(s, {l})) /\ Filter(s, {l}) \in Seq(Lines)
  <2>1. {i \in 1 .. Len(s) : s[i] \in {l}} = {i \in DOMAIN s : s[i] = l}
    BY LenProperties
  <2>2. Filter(s, {l}) \in Seq(Lines)
    BY FilterPlaces
  <2>3. Len(Filter(s, {l})) = Cardinality({i \in 1 .. Len(s) : s[i] \in {l}})
    BY FilterCounts
  <2> QED
    BY <2>1, <2>2, <2>3 DEF Count
<1>2. ASSUME NEW s \in Seq(Lines)
      PROVE  Count(s, l) \in Nat
  BY <1>1, LenProperties
<1>3. Count(<<>>, l) = 0
  <2>1. {i \in DOMAIN <<>> : <<>>[i] = l} = {}
    OBVIOUS
  <2> QED
    BY <2>1, FS_EmptySet DEF Count
<1>4. ASSUME NEW s \in Seq(Lines), NEW u \in Seq(Lines)
      PROVE  Count(s \o u, l) = Count(s, l) + Count(u, l)
  <2>1. s \o u \in Seq(Lines)
    BY ConcatProperties
  <2>2. Filter(s \o u, {l}) = Filter(s, {l}) \o Filter(u, {l})
    BY FilterConcat
  <2>3. Len(Filter(s, {l}) \o Filter(u, {l})) = Len(Filter(s, {l})) + Len(Filter(u, {l}))
    BY <1>1, ConcatProperties
  <2> QED
    BY <1>1, <2>1, <2>2, <2>3
<1>5. ASSUME NEW s \in Seq(Lines), NEW x \in Lines
      PROVE  Count(Append(s, x), l) = IF x = l THEN Count(s, l) + 1 ELSE Count(s, l)
  <2>1. Append(s, x) \in Seq(Lines)
    BY AppendProperties
  <2>2. Filter(Append(s, x), {l}) = IF x \in {l} THEN Append(Filter(s, {l}), x) ELSE Filter(s, {l})
    BY FilterAppend
  <2>3. Len(Append(Filter(s, {l}), x)) = Len(Filter(s, {l})) + 1
    BY <1>1, AppendProperties
  <2> QED
    BY <1>1, <2>1, <2>2, <2>3
<1> QED
  BY <1>2, <1>3, <1>4, <1>5

\* How often it is in the hands of the threads.
Held(taken, l) == SumFunction([t \in Threads |-> Count(taken[t], l)])

\* One thread puts down what it holds and takes something else.
LEMMA HeldChange ==
    ASSUME NEW taken \in [Threads -> Seq(Lines)], NEW t \in Threads, NEW s \in Seq(Lines),
           NEW l \in Lines
    PROVE  /\ Held(taken, l) \in Nat
           /\ Held([taken EXCEPT ![t] = s], l) + Count(taken[t], l) = Held(taken, l) + Count(s, l)
<1> DEFINE after == [taken EXCEPT ![t] = s]
           w == [u \in Threads |-> Count(taken[u], l)]
           v == [u \in Threads |-> Count(after[u], l)]
           R == Threads \ {t}
<1>1. after \in [Threads -> Seq(Lines)] /\ after[t] = s /\ \A u \in R : after[u] = taken[u]
  OBVIOUS
<1>2. IsFiniteSet(Threads) /\ IsFiniteSet(R)
  BY StoreFacts, FS_Subset
<1>3. DOMAIN w = Threads /\ \A u \in Threads : w[u] = Count(taken[u], l) /\ w[u] \in Nat
  BY CountFacts
<1>4. DOMAIN v = Threads /\ \A u \in Threads : v[u] = Count(after[u], l) /\ v[u] \in Nat
  BY <1>1, CountFacts
<1>5. \A u \in R : v[u] = w[u]
  BY <1>1, <1>3, <1>4
<1>6. Held(taken, l) = SumFunctionOnSet(w, Threads) /\ Held(after, l) = SumFunctionOnSet(v, Threads)
  BY DEF Held, SumFunction
<1> HIDE DEF w, v, after
<1>7. /\ SumFunctionOnSet(w, Threads) \in Nat
      /\ SumFunctionOnSet(w, Threads) = w[t] + SumFunctionOnSet(w, R)
  BY <1>2, <1>3, SumFacts
<1>8. SumFunctionOnSet(v, Threads) = v[t] + SumFunctionOnSet(v, R)
  BY <1>2, <1>4, SumFacts
<1>9. SumFunctionOnSet(w, R) \in Nat
  BY <1>2, <1>3, SumFacts
<1>10. SumFunctionOnSet(v, R) = SumFunctionOnSet(w, R)
  BY <1>2, <1>3, <1>5, SumSameWeights
<1>11. w[t] = Count(taken[t], l) /\ v[t] = Count(s, l) /\ w[t] \in Nat /\ v[t] \in Nat
  BY <1>1, <1>3, <1>4
<1>12. /\ Held(taken, l) \in Nat
       /\ Held(after, l) + Count(taken[t], l) = Held(taken, l) + Count(s, l)
  BY <1>6, <1>7, <1>8, <1>9, <1>10, <1>11
<1> QED
  BY <1>12 DEF after

\* The number is one, with any number of threads.
LEMMA HeldNat ==
    ASSUME NEW taken \in [Threads -> Seq(Lines)], NEW l \in Lines
    PROVE  Held(taken, l) \in Nat
<1> DEFINE w == [t \in Threads |-> Count(taken[t], l)]
<1>1. DOMAIN w = Threads /\ \A t \in Threads : w[t] \in Nat
  BY CountFacts
<1>2. Held(taken, l) = SumFunctionOnSet(w, Threads)
  BY DEF Held, SumFunction
<1> HIDE DEF w
<1> QED
  BY <1>1, <1>2, StoreFacts, SumFacts

\* Nobody holds anything at the start.
LEMMA HeldNone ==
    ASSUME NEW l \in Lines
    PROVE  Held(NoStates, l) = 0
<1> DEFINE w == [t \in Threads |-> Count(NoStates[t], l)]
<1>1. DOMAIN w = Threads /\ \A t \in Threads : w[t] = 0
  BY CountFacts DEF NoStates
<1>2. Held(NoStates, l) = SumFunctionOnSet(w, Threads)
  BY DEF Held, SumFunction
<1> HIDE DEF w
<1> QED
  BY <1>1, <1>2, StoreFacts, SumZero

\* The latest elements of a list, counted from its end.
LEMMA LatestFacts ==
    ASSUME NEW T, NEW s \in Seq(T), NEW n \in Nat
    PROVE  /\ Latest(s, n) \in Seq(T)
           /\ Len(Latest(s, n)) = IF n <= Len(s) THEN n ELSE Len(s)
           /\ Latest(s, n) = SubSeq(s, Len(s) - Len(Latest(s, n)) + 1, Len(s))
<1> DEFINE m == Len(s)
           a == IF n <= m THEN m - n + 1 ELSE 1
<1>1. m \in Nat /\ a \in Nat /\ a >= 1 /\ a <= m + 1
  BY LenProperties
<1>2. Max({1, m - n + 1}) = a
  <2>1. a \in {1, m - n + 1} /\ \A y \in {1, m - n + 1} : a >= y /\ y \in Int
    BY <1>1
  <2> HIDE DEF a
  <2>2. Max({1, m - n + 1}) \in {1, m - n + 1} /\ \A y \in {1, m - n + 1} : Max({1, m - n + 1}) >= y
    BY <2>1 DEF Max
  <2> QED
    BY <1>1, <2>1, <2>2
<1>3. Latest(s, n) = SubSeq(s, a, m)
  BY <1>2 DEF Latest
<1>4. \A i \in a .. m : s[i] \in T
  BY <1>1
<1>5. SubSeq(s, a, m) \in Seq(T) /\ Len(SubSeq(s, a, m)) = m - a + 1
  <2> HIDE DEF a, m
  <2>1. SubSeq(s, a, m) \in Seq(T) /\ Len(SubSeq(s, a, m)) = IF a <= m THEN m - a + 1 ELSE 0
    BY <1>1, <1>4, SubSeqProperties
  <2> QED
    BY <1>1, <2>1
<1>6. m - (m - a + 1) + 1 = a /\ m - a + 1 = IF n <= m THEN n ELSE m
  BY <1>1
<1> QED
  BY <1>3, <1>5, <1>6

\* Steps of the store keep the types ...
LEMMA StoreTypes == StoreTypeOK /\ [StoreStep]_storeVars => StoreTypeOK'
<1> SUFFICES ASSUME StoreTypeOK, [StoreStep]_storeVars
             PROVE  StoreTypeOK'
  OBVIOUS
<1> USE DEF StoreTypeOK
<1>1. \A s \in Seq(Lines), n \in Nat : Latest(s, n) \in Seq(Lines)
  BY LatestFacts
<1>2. capacity \in Nat
  BY StoreFacts
<1>3. ASSUME NEW s \in Seq(Lines), Remember(s)
      PROVE  buffer' \in Seq(Lines)
  BY <1>1, <1>2, <1>3, ConcatProperties DEF Remember
<1>4. ASSUME NEW l \in Lines, append(l)
      PROVE  StoreTypeOK'
  <2>1. Remember(<<l>>) /\ <<l>> \in Seq(Lines)
    BY <1>4 DEF append
  <2>2. unflushed' \in Seq(Lines)
    BY <1>4, AppendProperties DEF append
  <2>3. appended' \in [Lines -> Nat]
    BY <1>4 DEF append
  <2>4. buffer' \in Seq(Lines)
    BY <1>3, <2>1
  <2> QED
    BY <1>4, <2>2, <2>3, <2>4 DEF append
<1>5. ASSUME NEW t \in Threads, TakeUnflushed(t)
      PROVE  StoreTypeOK'
  BY <1>5 DEF TakeUnflushed
<1>6. ASSUME NEW t \in Threads, InsertRows(t)
      PROVE  StoreTypeOK'
  <2>1. db' \in Seq(Lines)
    BY <1>6, ConcatProperties DEF InsertRows
  <2> QED
    BY <1>6, <2>1 DEF InsertRows
<1>7. ASSUME NEW t \in Threads, InsertFails(t)
      PROVE  StoreTypeOK'
  <2>1. \A l \in Lines : lost[l] + Count(to_save[t], l) \in Nat
    <3>1. to_save[t] \in Seq(Lines)
      OBVIOUS
    <3>2. \A l \in Lines : lost[l] \in Nat /\ Count(to_save[t], l) \in Nat
      BY <3>1, CountFacts
    <3> QED
      BY <3>2
  <2> QED
    BY <1>7, <2>1 DEF InsertFails
<1>8. ASSUME NEW t \in Threads, NEW limit \in Nat, FetchRows(t, limit)
      PROVE  StoreTypeOK'
  BY <1>1, <1>8 DEF FetchRows
<1>9. ASSUME NEW t \in Threads, AddLoaded(t)
      PROVE  StoreTypeOK'
  <2>1. Remember(loaded_states[t])
    BY <1>9 DEF AddLoaded
  <2>2. buffer' \in Seq(Lines)
    BY <1>3, <2>1
  <2> QED
    BY <1>9, <2>2 DEF AddLoaded
<1>10. CASE Forget
  <2>1. ASSUME NEW l \in Lines
        PROVE  lost[l] + Count(unflushed, l) + InFlight(l) \in Nat
    <3>1. InFlight(l) \in Nat
      <4>1. InFlight(l) = Held(to_save, l)
        BY DEF Held, InFlight
      <4> QED
        BY <4>1, HeldNat
    <3>2. lost[l] \in Nat /\ unflushed \in Seq(Lines)
      OBVIOUS
    <3>3. Count(unflushed, l) \in Nat
      BY <3>2, CountFacts
    <3> QED
      BY <3>1, <3>2, <3>3
  <2> QED
    BY <1>10, <2>1 DEF Forget, NoStates
<1>11. CASE UNCHANGED storeVars
  BY <1>11 DEF storeVars
<1> QED
  BY <1>4, <1>5, <1>6, <1>7, <1>8, <1>9, <1>10, <1>11 DEF StoreStep

\* ... and the count of every line.
LEMMA StoreCounts ==
    StoreTypeOK /\ NothingForgotten /\ [StoreStep]_storeVars => NothingForgotten'
<1> SUFFICES ASSUME StoreTypeOK, NothingForgotten, [StoreStep]_storeVars, NEW l \in Lines
             PROVE  (appended[l] = Count(unflushed, l) + InFlight(l) + Count(db, l) + lost[l])'
  BY DEF NothingForgotten
<1> USE DEF StoreTypeOK
<1>1. appended[l] = Count(unflushed, l) + InFlight(l) + Count(db, l) + lost[l]
  BY DEF NothingForgotten
<1>2. InFlight(l) = Held(to_save, l) /\ InFlight(l)' = Held(to_save', l)
  BY DEF InFlight, Held, Count
<1>3. Held(to_save, l) \in Nat
  BY HeldNat
<1>4. /\ Count(unflushed, l) \in Nat /\ Count(db, l) \in Nat
      /\ \A t \in Threads : Count(to_save[t], l) \in Nat
      /\ appended[l] \in Nat /\ lost[l] \in Nat /\ Count(<<>>, l) = 0
  BY CountFacts
<1>5. ASSUME NEW x \in Lines, append(x)
      PROVE  (appended[l] = Count(unflushed, l) + InFlight(l) + Count(db, l) + lost[l])'
  <2>1. /\ unflushed' = Append(unflushed, x) /\ appended' = [appended EXCEPT ![x] = @ + 1]
        /\ UNCHANGED <<db, to_save, lost>>
    BY <1>5 DEF append
  <2>2. Count(unflushed', l) = IF x = l THEN Count(unflushed, l) + 1 ELSE Count(unflushed, l)
    BY <2>1, CountFacts
  <2>3. appended'[l] = IF x = l THEN appended[l] + 1 ELSE appended[l]
    BY <2>1
  <2>4. Count(db, l)' = Count(db, l) /\ Held(to_save', l) = Held(to_save, l) /\ lost'[l] = lost[l]
    BY <2>1
  <2> QED
    BY <1>1, <1>2, <1>3, <1>4, <2>2, <2>3, <2>4
<1>6. ASSUME NEW t \in Threads, TakeUnflushed(t)
      PROVE  (appended[l] = Count(unflushed, l) + InFlight(l) + Count(db, l) + lost[l])'
  <2>1. /\ to_save' = [to_save EXCEPT ![t] = unflushed] /\ unflushed' = <<>> /\ to_save[t] = <<>>
        /\ UNCHANGED <<db, appended, lost>>
    BY <1>6 DEF TakeUnflushed
  <2>2. Held(to_save', l) + Count(to_save[t], l) = Held(to_save, l) + Count(unflushed, l)
    BY <2>1, HeldChange
  <2>3. /\ Count(unflushed, l)' = 0 /\ Count(to_save[t], l) = 0
        /\ Count(db, l)' = Count(db, l) /\ lost'[l] = lost[l] /\ appended'[l] = appended[l]
    BY <1>4, <2>1
  <2>4. Held(to_save', l) \in Nat
    BY <2>1, HeldNat
  <2> QED
    BY <1>1, <1>2, <1>3, <1>4, <2>2, <2>3, <2>4
<1>7. ASSUME NEW t \in Threads, InsertRows(t)
      PROVE  (appended[l] = Count(unflushed, l) + InFlight(l) + Count(db, l) + lost[l])'
  <2>1. /\ to_save' = [to_save EXCEPT ![t] = <<>>] /\ db' = db \o to_save[t]
        /\ UNCHANGED <<unflushed, appended, lost>>
    BY <1>7 DEF InsertRows
  <2>2. /\ Held(to_save', l) + Count(to_save[t], l) = Held(to_save, l) + Count(<<>>, l)
        /\ Held(to_save', l) \in Nat
    <3> DEFINE none == <<>>
    <3>1. none \in Seq(Lines) /\ to_save' = [to_save EXCEPT ![t] = none]
      BY <2>1
    <3> HIDE DEF none
    <3>2. to_save' \in [Threads -> Seq(Lines)]
      BY <3>1
    <3>3. Held(to_save', l) + Count(to_save[t], l) = Held(to_save, l) + Count(none, l)
      BY <3>1, HeldChange
    <3>4. Held(to_save', l) \in Nat
      BY <3>2, HeldNat
    <3> QED
      BY <3>3, <3>4 DEF none
  <2>3. Count(db, l)' = Count(db, l) + Count(to_save[t], l)
    BY <2>1, CountFacts
  <2>4. Count(unflushed, l)' = Count(unflushed, l) /\ lost'[l] = lost[l] /\ appended'[l] = appended[l]
    BY <2>1
  <2> QED
    BY <1>1, <1>2, <1>3, <1>4, <2>2, <2>3, <2>4
<1>8. ASSUME NEW t \in Threads, InsertFails(t)
      PROVE  (appended[l] = Count(unflushed, l) + InFlight(l) + Count(db, l) + lost[l])'
  <2>1. /\ to_save' = [to_save EXCEPT ![t] = <<>>] /\ UNCHANGED <<unflushed, appended, db>>
        /\ lost'[l] = lost[l] + Count(to_save[t], l)
    BY <1>8 DEF InsertFails
  <2>2. /\ Held(to_save', l) + Count(to_save[t], l) = Held(to_save, l) + Count(<<>>, l)
        /\ Held(to_save', l) \in Nat
    <3> DEFINE none == <<>>
    <3>1. none \in Seq(Lines) /\ to_save' = [to_save EXCEPT ![t] = none]
      BY <2>1
    <3> HIDE DEF none
    <3>2. to_save' \in [Threads -> Seq(Lines)]
      BY <3>1
    <3>3. Held(to_save', l) + Count(to_save[t], l) = Held(to_save, l) + Count(none, l)
      BY <3>1, HeldChange
    <3>4. Held(to_save', l) \in Nat
      BY <3>2, HeldNat
    <3> QED
      BY <3>3, <3>4 DEF none
  <2>3. /\ Count(unflushed, l)' = Count(unflushed, l) /\ Count(db, l)' = Count(db, l)
        /\ appended'[l] = appended[l] /\ lost'[l] = lost[l] + Count(to_save[t], l)
    BY <2>1
  <2>4. Count(to_save[t], l) \in Nat
    BY <1>4
  <2> DEFINE c == Count(to_save[t], l)
  <2> HIDE DEF c
  <2>5. lost'[l] = lost[l] + c /\ Held(to_save', l) + c = Held(to_save, l) /\ c \in Nat
    BY <1>3, <1>4, <2>2, <2>3, <2>4 DEF c
  <2>6. appended[l] = Count(unflushed, l) + Held(to_save, l) + Count(db, l) + lost[l]
    BY <1>1, <1>2
  <2>7. appended[l] = Count(unflushed, l) + Held(to_save', l) + Count(db, l) + lost'[l]
    <3> DEFINE u == Count(unflushed, l)
               d == Count(db, l)
               h == Held(to_save, l)
               k == Held(to_save', l)
               x == lost[l]
               y == lost'[l]
    <3>1. u \in Nat /\ d \in Nat /\ h \in Nat /\ k \in Nat /\ x \in Nat /\ c \in Nat
      BY <1>3, <1>4, <2>2, <2>5
    <3>2. y = x + c /\ k + c = h /\ appended[l] = u + h + d + x
      BY <2>5, <2>6
    <3> HIDE DEF u, d, h, k, x, y
    <3>3. appended[l] = u + k + d + y
      BY <3>1, <3>2
    <3> QED
      BY <3>3 DEF u, d, k, y
  <2> QED
    BY <1>2, <2>3, <2>7
<1>9. CASE Forget
  <2>1. /\ to_save' = NoStates /\ unflushed' = <<>> /\ UNCHANGED <<appended, db>>
        /\ lost'[l] = lost[l] + Count(unflushed, l) + InFlight(l)
    BY <1>9 DEF Forget
  <2>2. Held(to_save', l) = 0 /\ Count(unflushed, l)' = 0
    BY <1>4, <2>1, HeldNone
  <2>3. Count(db, l)' = Count(db, l) /\ appended'[l] = appended[l]
    BY <2>1
  <2> QED
    BY <1>1, <1>2, <1>3, <1>4, <2>1, <2>2, <2>3
<1>10. ASSUME UNCHANGED <<unflushed, to_save, db, appended, lost>>
       PROVE  (appended[l] = Count(unflushed, l) + InFlight(l) + Count(db, l) + lost[l])'
  BY <1>1, <1>2, <1>10
<1>11. ASSUME NEW t \in Threads, NEW limit, FetchRows(t, limit) \/ AddLoaded(t)
       PROVE  UNCHANGED <<unflushed, to_save, db, appended, lost>>
  BY <1>11 DEF FetchRows, AddLoaded
<1>12. ASSUME UNCHANGED storeVars
       PROVE  UNCHANGED <<unflushed, to_save, db, appended, lost>>
  BY <1>12 DEF storeVars
<1> QED
  BY <1>5, <1>6, <1>7, <1>8, <1>9, <1>10, <1>11, <1>12 DEF StoreStep

\* Every step of the threads that share the store, and of the collector, is one of these.
LEMMA StoreAlone == [StoreNext]_storeVars => [StoreStep]_storeVars
<1>1. \A limit \in 1 .. MaxAppends : limit \in Nat
  OBVIOUS
<1> QED
  BY <1>1 DEF StoreNext, StoreStep

\* The collector appends what it parses, flushes as the thread run, and forgets when it dies.
LEMMA CollectorUsesStore == [Next]_vars => [StoreStep]_storeVars
<1> SUFFICES ASSUME [Next]_vars
             PROVE  [StoreStep]_storeVars
  OBVIOUS
<1>1. "run" \in Threads
  BY CollectorAssumed DEF CollectorAssumption
<1>2. CASE readline
  <2>1. \A line : IsState(line) => line[1][1] \in Lines
    BY CollectorAssumed DEF CollectorAssumption, IsState, Cells
  <2>2. \A line : (IF IsState(line) THEN append(line[1][1]) ELSE UNCHANGED storeVars)
                     => [StoreStep]_storeVars
    BY <2>1, Zenon DEF StoreStep
  <2> QED
    BY <1>2, <2>2, Zenon DEF readline
<1>3. CASE FlushCall
  <2>1. TakeUnflushed("run") \/ UNCHANGED storeVars
    BY <1>3, Zenon DEF FlushCall
  <2> QED
    BY <1>1, <2>1, Zenon DEF StoreStep
<1>4. CASE Insert
  <2>1. InsertRows("run") \/ InsertFails("run")
    BY <1>4, Zenon DEF Insert
  <2> QED
    BY <1>1, <2>1, Zenon DEF StoreStep
<1>5. CASE Crash \/ Restart
  <2>1. Forget
    BY <1>5, Zenon DEF Crash, Restart
  <2> QED
    BY <2>1, Zenon DEF StoreStep
<1>6. CASE LoopHead \/ Open \/ CheckRotation \/ Reopen \/ EndOfFile \/ ReadClosed \/ NotDue
  BY <1>6, Zenon DEF LoopHead, Open, CheckRotation, Reopen, EndOfFile, ReadClosed, NotDue
<1>7. CASE WriteCell \/ WriteOn \/ Unlink \/ Create \/ Truncate \/ stop \/ KeyboardInterrupt
  BY <1>7, Zenon DEF WriteCell, WriteOn, Unlink, Create, Truncate, stop, KeyboardInterrupt
<1>8. CASE UNCHANGED vars
  BY <1>8, Zenon DEF vars
<1> QED
  BY <1>2, <1>3, <1>4, <1>5, <1>6, <1>7, <1>8 DEF Next, Step, Environment

\* And the store sees only such steps, whichever part is followed.
LEMMA StoreFollowed == MCSpec => StoreInit /\ [][StoreStep]_storeVars
<1>1. [MCNext]_allVars => [Next]_vars \/ [StoreNext]_storeVars
  BY Zenon DEF MCNext, allVars, Collector, Store, Stage, Feature, Loading, Evaluating, TrainingRun
<1>2. [MCNext]_allVars => [StoreStep]_storeVars
  BY <1>1, StoreAlone, CollectorUsesStore
<1>3. MCInit => StoreInit
  BY DEF MCInit, Init
<1> QED
  BY <1>2, <1>3, PTL DEF MCSpec

\* An empty store has forgotten nothing.
LEMMA StoreBegins == StoreInit => StoreTypeOK /\ NothingForgotten
<1> SUFFICES ASSUME StoreInit
             PROVE  StoreTypeOK /\ NothingForgotten
  OBVIOUS
<1>1. StoreTypeOK
  BY DEF StoreInit, StoreTypeOK, NoStates
<1>2. ASSUME NEW l \in Lines
      PROVE  appended[l] = Count(unflushed, l) + InFlight(l) + Count(db, l) + lost[l]
  <2>1. unflushed = <<>> /\ db = <<>> /\ to_save = NoStates /\ appended[l] = 0 /\ lost[l] = 0
    BY DEF StoreInit
  <2>2. InFlight(l) = 0
    BY <2>1, HeldNone DEF InFlight, Held
  <2> QED
    BY <2>1, <2>2, CountFacts
<1> QED
  BY <1>1, <1>2 DEF NothingForgotten

\* Whoever uses the store in these steps, no state is forgotten.
LEMMA StoreConserves == StoreInit /\ [][StoreStep]_storeVars => []NothingForgotten
BY StoreBegins, StoreTypes, StoreCounts, PTL

\* A state handed to append is in exactly one place, whatever the collector and the file
\* system do, and whatever threads append, flush and load (append, flush_to_sqlite,
\* load_from_sqlite, run).
THEOREM StatesConserved ==
    /\ Spec => []NothingForgotten
    /\ StoreInit /\ [][StoreNext]_storeVars => []NothingForgotten
    /\ MCSpec => []NothingForgotten
<1>1. Spec => StoreInit /\ [][StoreStep]_storeVars
  BY CollectorUsesStore, PTL DEF Spec, Init
<1>2. StoreInit /\ [][StoreNext]_storeVars => StoreInit /\ [][StoreStep]_storeVars
  BY StoreAlone, PTL
<1> QED
  BY <1>1, <1>2, StoreFollowed, StoreConserves, PTL

----------------------------------------------------------------------------
\* The rings of the store.

\* Counted from their ends, the elements of a agree with those of b, as far as a client's ring
\* can reach.
EndsAlike(a, b) ==
    \A j \in 0 .. IndexCapacity - 1 :
        j < Len(a) => j < Len(b) /\ a[Len(a) - j] = b[Len(b) - j]

\* The j-th latest element stays the j-th latest when a ring drops older ones.
LEMMA LatestFromEnd ==
    ASSUME NEW T, NEW s \in Seq(T), NEW n \in Nat, NEW j \in Nat, j < n, j < Len(s)
    PROVE  j < Len(Latest(s, n)) /\ Latest(s, n)[Len(Latest(s, n)) - j] = s[Len(s) - j]
<1> DEFINE r == Latest(s, n)
           m == Len(s)
           k == Len(r)
           a == m - k + 1
<1>1. m \in Nat /\ k = (IF n <= m THEN n ELSE m) /\ r = SubSeq(s, a, m)
  BY LatestFacts, LenProperties
<1>2. k \in Nat /\ k <= m /\ j < k /\ a \in Int /\ a >= 1
  BY <1>1
<1>3. \A i \in 1 .. m : s[i] \in T
  BY ElementOfSeq
<1> HIDE DEF r, k, m
<1>4. \A i \in a .. m : s[i] \in T
  BY <1>1, <1>2, <1>3
<1> HIDE DEF a
<1>5. \A i \in 1 .. m - a + 1 : SubSeq(s, a, m)[i] = s[a + i - 1]
  BY <1>1, <1>2, <1>4, SubSeqProperties
<1>6. m - a + 1 = k /\ k - j \in 1 .. k /\ a + (k - j) - 1 = m - j
  BY <1>1, <1>2 DEF a
<1>7. r[k - j] = s[m - j]
  BY <1>1, <1>5, <1>6
<1> QED
  BY <1>2, <1>7 DEF r, k, m

\* The j-th latest element of a concatenation.
LEMMA ConcatFromEnd ==
    ASSUME NEW T, NEW s \in Seq(T), NEW t \in Seq(T), NEW j \in Nat, j < Len(s) + Len(t)
    PROVE  (s \o t)[Len(s \o t) - j] = IF j < Len(t) THEN t[Len(t) - j] ELSE s[Len(s) - (j - Len(t))]
<1>1. Len(s) \in Nat /\ Len(t) \in Nat
  BY LenProperties
<1>2. /\ Len(s \o t) = Len(s) + Len(t)
      /\ \A i \in 1 .. Len(s) + Len(t) : (s \o t)[i] = IF i <= Len(s) THEN s[i] ELSE t[i - Len(s)]
  BY ConcatProperties
<1> DEFINE i == Len(s) + Len(t) - j
<1>3. i \in 1 .. Len(s) + Len(t)
  BY <1>1
<1>4. (s \o t)[i] = IF i <= Len(s) THEN s[i] ELSE t[i - Len(s)]
  BY <1>2, <1>3
<1>5. i <= Len(s) <=> ~ (j < Len(t))
  BY <1>1
<1>6. i - Len(s) = Len(t) - j /\ i = Len(s) - (j - Len(t))
  BY <1>1
<1> QED
  BY <1>2, <1>4, <1>5, <1>6

\* A ring that loses its oldest elements, and one that gets the same new ones, stay alike.
LEMMA AlikeStep ==
    ASSUME NEW T, NEW a \in Seq(T), NEW b \in Seq(T), NEW o \in Seq(T),
           NEW p \in Seq(T), NEW r \in Seq(T), p \o r = a \o o, EndsAlike(a, b)
    PROVE  EndsAlike(r, Latest(b \o o, IndexCapacity))
<1> DEFINE u == b \o o
           v == a \o o
<1> SUFFICES ASSUME NEW j \in 0 .. IndexCapacity - 1, j < Len(r)
             PROVE  /\ j < Len(Latest(u, IndexCapacity))
                    /\ r[Len(r) - j] = Latest(u, IndexCapacity)[Len(Latest(u, IndexCapacity)) - j]
  BY DEF EndsAlike
<1>1. /\ Len(a) \in Nat /\ Len(b) \in Nat /\ Len(o) \in Nat /\ Len(p) \in Nat /\ Len(r) \in Nat
      /\ IndexCapacity \in Nat /\ j \in Nat /\ j < IndexCapacity
  BY LenProperties, StoreFacts
<1>2. /\ u \in Seq(T) /\ Len(u) = Len(b) + Len(o)
      /\ Len(v) = Len(a) + Len(o) /\ Len(p \o r) = Len(p) + Len(r)
  BY ConcatProperties
<1>3. Len(p) + Len(r) = Len(a) + Len(o) /\ j < Len(p) + Len(r) /\ j < Len(a) + Len(o)
  BY <1>1, <1>2
<1>4. v[Len(v) - j] = r[Len(r) - j]
  <2>1. (p \o r)[Len(p \o r) - j]
           = IF j < Len(r) THEN r[Len(r) - j] ELSE p[Len(p) - (j - Len(r))]
    BY <1>1, <1>3, ConcatFromEnd
  <2> QED
    BY <2>1
<1>5. v[Len(v) - j] = IF j < Len(o) THEN o[Len(o) - j] ELSE a[Len(a) - (j - Len(o))]
  BY <1>1, <1>3, ConcatFromEnd
<1>6. ASSUME ~ (j < Len(o))
      PROVE  j - Len(o) < Len(b) /\ a[Len(a) - (j - Len(o))] = b[Len(b) - (j - Len(o))]
  <2>1. j - Len(o) \in 0 .. IndexCapacity - 1 /\ j - Len(o) < Len(a)
    BY <1>1, <1>3, <1>6
  <2> QED
    BY <2>1 DEF EndsAlike
<1>7. j < Len(b) + Len(o)
  BY <1>1, <1>6
<1>8. u[Len(u) - j] = IF j < Len(o) THEN o[Len(o) - j] ELSE b[Len(b) - (j - Len(o))]
  BY <1>1, <1>7, ConcatFromEnd
<1>9. u[Len(u) - j] = r[Len(r) - j]
  BY <1>4, <1>5, <1>6, <1>8
<1> HIDE DEF u, v
<1>10. /\ j < Len(Latest(u, IndexCapacity))
       /\ Latest(u, IndexCapacity)[Len(Latest(u, IndexCapacity)) - j] = u[Len(u) - j]
  BY <1>1, <1>2, <1>7, LatestFromEnd
<1> QED
  BY <1>9, <1>10

\* Such a ring ends with what the other has latest.
LEMMA AlikeIsSuffix ==
    ASSUME NEW T, NEW a \in Seq(T), NEW b \in Seq(T), EndsAlike(a, b)
    PROVE  IsSuffix(Latest(a, IndexCapacity), b)
<1> DEFINE s == Latest(a, IndexCapacity)
           k == Len(s)
           m == Len(b)
           x == [i \in 1 .. k |-> s[(k - i) + 1]]
           y == [i \in 1 .. m |-> b[(m - i) + 1]]
<1>1. IndexCapacity \in Nat /\ IndexCapacity >= 1
  BY StoreFacts
<1>2. s \in Seq(T) /\ k = IF IndexCapacity <= Len(a) THEN IndexCapacity ELSE Len(a)
  BY <1>1, LatestFacts
<1>3. Len(a) \in Nat /\ m \in Nat /\ k \in Nat /\ k <= Len(a) /\ k <= IndexCapacity
  BY <1>1, <1>2, LenProperties
<1>4. \A j \in 0 .. k - 1 : j < m /\ s[k - j] = b[m - j]
  <2> SUFFICES ASSUME NEW j \in 0 .. k - 1
               PROVE  j < m /\ s[k - j] = b[m - j]
    OBVIOUS
  <2>1. j \in 0 .. IndexCapacity - 1 /\ j \in Nat /\ j < Len(a) /\ j < IndexCapacity
    BY <1>1, <1>3
  <2>2. j < m /\ a[Len(a) - j] = b[m - j]
    BY <2>1 DEF EndsAlike
  <2>3. s[k - j] = a[Len(a) - j]
    BY <1>1, <2>1, LatestFromEnd
  <2> QED
    BY <2>2, <2>3
<1>5. k <= m
  <2>1. CASE k = 0
    BY <1>3, <2>1
  <2>2. CASE k # 0
    <3>1. k - 1 \in 0 .. k - 1
      BY <1>3, <2>2
    <3> QED
      BY <1>3, <1>4, <3>1
  <2> QED
    BY <2>1, <2>2
<1>6. \A i \in 1 .. k : i \in 1 .. m /\ x[i] = s[(k - i) + 1] /\ y[i] = b[(m - i) + 1] /\ x[i] = y[i]
  <2> SUFFICES ASSUME NEW i \in 1 .. k
               PROVE  i \in 1 .. m /\ s[(k - i) + 1] = b[(m - i) + 1]
    OBVIOUS
  <2>1. i - 1 \in 0 .. k - 1 /\ k - (i - 1) = (k - i) + 1 /\ m - (i - 1) = (m - i) + 1
    BY <1>3
  <2>2. s[k - (i - 1)] = b[m - (i - 1)]
    BY <1>4, <2>1
  <2>3. i \in 1 .. m
    BY <1>3, <1>5
  <2> QED
    BY <2>1, <2>2, <2>3
<1>7. \A i \in 1 .. k : x[i] \in T /\ y[i] \in T
  <2> SUFFICES ASSUME NEW i \in 1 .. k
               PROVE  s[(k - i) + 1] \in T
    BY <1>6
  <2>1. (k - i) + 1 \in 1 .. k
    BY <1>3
  <2> QED
    BY <1>2, <2>1, ElementOfSeq
<1>8. x = Reverse(s) /\ y = Reverse(b)
  BY DEF Reverse
<1>9. Len(x) = k /\ Len(y) = m
  BY <1>3
<1> HIDE DEF s, k, m, x, y
<1>10. /\ SubSeq(x, 1, k) \in Seq(T) /\ Len(SubSeq(x, 1, k)) = k
       /\ \A i \in 1 .. k : SubSeq(x, 1, k)[i] = x[i]
  <2>1. /\ SubSeq(x, 1, k) \in Seq(T) /\ Len(SubSeq(x, 1, k)) = IF 1 <= k THEN k - 1 + 1 ELSE 0
        /\ \A i \in 1 .. k - 1 + 1 : SubSeq(x, 1, k)[i] = x[1 + i - 1]
    BY <1>3, <1>7, SubSeqProperties
  <2> QED
    BY <1>3, <2>1
<1>11. /\ SubSeq(y, 1, k) \in Seq(T) /\ Len(SubSeq(y, 1, k)) = k
       /\ \A i \in 1 .. k : SubSeq(y, 1, k)[i] = y[i]
  <2>1. /\ SubSeq(y, 1, k) \in Seq(T) /\ Len(SubSeq(y, 1, k)) = IF 1 <= k THEN k - 1 + 1 ELSE 0
        /\ \A i \in 1 .. k - 1 + 1 : SubSeq(y, 1, k)[i] = y[1 + i - 1]
    BY <1>3, <1>7, SubSeqProperties
  <2> QED
    BY <1>3, <2>1
<1>12. SubSeq(x, 1, k) = SubSeq(y, 1, k)
  <2>1. \A i \in 1 .. k : SubSeq(x, 1, k)[i] = SubSeq(y, 1, k)[i]
    BY <1>6, <1>10, <1>11
  <2> DEFINE xs == SubSeq(x, 1, k)
             ys == SubSeq(y, 1, k)
  <2>2. xs \in Seq(T) /\ ys \in Seq(T) /\ Len(xs) = Len(ys) /\ \A i \in 1 .. Len(xs) : xs[i] = ys[i]
    BY <1>10, <1>11, <2>1
  <2> HIDE DEF xs, ys
  <2>3. xs = ys
    BY <2>2, SeqEqual
  <2> QED
    BY <2>3 DEF xs, ys
<1>13. IsPrefix(x, y)
  BY <1>5, <1>9, <1>12 DEF IsPrefix
<1> QED
  BY <1>8, <1>13 DEF IsSuffix, s

\* The clients' rings follow the buffer.
FollowInv ==
    /\ ip_index \in [ipHashes -> Seq(Lines)]
    /\ \A ip \in ipHashes : EndsAlike(OfClient(buffer, ip), ip_index[ip])

\* A client's states in a list in two parts.
LEMMA OfClientConcat ==
    ASSUME NEW ip, NEW q \in Seq(Lines), NEW u \in Seq(Lines)
    PROVE  OfClient(q \o u, ip) = OfClient(q, ip) \o OfClient(u, ip)
<1> DEFINE C == {l \in Lines : Owner[l] = ip}
<1> HIDE DEF C
<1>1. Filter(q \o u, C) = Filter(q, C) \o Filter(u, C)
  BY FilterConcat
<1> QED
  BY <1>1, Zenon DEF OfClient, C

\* States come into both kinds of ring together, and each drops its oldest ones.
LEMMA RememberFollows ==
    ASSUME StoreTypeOK, FollowInv, NEW s \in Seq(Lines), Remember(s)
    PROVE  FollowInv'
<1> USE DEF StoreTypeOK
<1> DEFINE all == buffer \o s
           n == Len(all) - Len(buffer')
           older == SubSeq(all, 1, n)
<1>1. all \in Seq(Lines) /\ capacity \in Nat /\ IndexCapacity \in Nat
  BY ConcatProperties, StoreFacts
<1>2. buffer' = Latest(all, capacity)
  BY DEF Remember
<1> HIDE DEF all
<1>3. /\ buffer' \in Seq(Lines) /\ Len(buffer') <= Len(all) /\ Len(all) \in Nat /\ Len(buffer') \in Nat
      /\ buffer' = SubSeq(all, n + 1, Len(all))
  <2>1. /\ buffer' \in Seq(Lines) /\ Len(buffer') = IF capacity <= Len(all) THEN capacity ELSE Len(all)
        /\ buffer' = SubSeq(all, Len(all) - Len(buffer') + 1, Len(all))
    BY <1>1, <1>2, LatestFacts
  <2>2. Len(all) \in Nat
    BY <1>1, LenProperties
  <2>3. Len(buffer') \in Nat /\ Len(buffer') <= Len(all)
    BY <1>1, <2>1, <2>2
  <2> QED
    BY <2>1, <2>2, <2>3, Zenon DEF n
<1>4. n \in 0 .. Len(all)
  BY <1>3
<1> HIDE DEF n
<1>5. older \in Seq(Lines) /\ all = older \o buffer'
  BY <1>1, <1>3, <1>4, SplitAt
<1> HIDE DEF older
<1>6. ASSUME NEW ip \in ipHashes
      PROVE  /\ ip_index'[ip] \in Seq(Lines)
             /\ EndsAlike(OfClient(buffer, ip)', ip_index'[ip])
  <2> DEFINE C == {l \in Lines : Owner[l] = ip}
             a == Filter(buffer, C)
             o == Filter(s, C)
             r == Filter(buffer', C)
             p == Filter(older, C)
             b == ip_index[ip]
  <2>1. a \in Seq(Lines) /\ o \in Seq(Lines) /\ r \in Seq(Lines) /\ p \in Seq(Lines)
    BY <1>3, <1>5, FilterPlaces
  <2>2. b \in Seq(Lines) /\ EndsAlike(a, b)
    BY DEF FollowInv, OfClient
  <2>c. \A q, u \in Seq(Lines) : Filter(q \o u, C) = Filter(q, C) \o Filter(u, C)
    BY OfClientConcat DEF OfClient
  <2>3. Filter(all, C) = a \o o
    BY <2>c, Zenon DEF all
  <2>4. Filter(all, C) = p \o r
    BY <1>3, <1>5, <2>c, Zenon
  <2>5. ip_index'[ip] = Latest(b \o o, IndexCapacity)
    BY DEF Remember, OfClient
  <2>6. OfClient(buffer, ip)' = r
    BY DEF OfClient
  <2> HIDE DEF a, o, r, p, b
  <2>7. EndsAlike(r, Latest(b \o o, IndexCapacity))
    BY <2>1, <2>2, <2>3, <2>4, AlikeStep
  <2>8. Latest(b \o o, IndexCapacity) \in Seq(Lines)
    BY <1>1, <2>1, <2>2, ConcatProperties, LatestFacts
  <2> QED
    BY <2>5, <2>6, <2>7, <2>8
<1>7. ip_index' = [ip \in ipHashes |-> ip_index'[ip]]
  BY DEF Remember
<1> QED
  BY <1>6, <1>7 DEF FollowInv

\* Rings that are both empty are alike.
LEMMA EmptyAlike ==
    \A ip : OfClient(<<>>, ip) = <<>> /\ EndsAlike(<<>>, <<>>)
<1> DEFINE none == <<>>
<1>1. none \in Seq(Lines) /\ Len(none) = 0
  OBVIOUS
<1> HIDE DEF none
<1>2. ASSUME NEW S
      PROVE  Filter(none, S) = <<>>
  <2>1. \A i \in 1 .. Len(none) : none[i] \notin S
    BY <1>1
  <2> QED
    BY <1>1, <2>1, FilterNone
<1>3. EndsAlike(none, none)
  BY <1>1 DEF EndsAlike
<1> QED
  BY <1>2, <1>3 DEF OfClient, none

\* A process that starts again has such rings.
LEMMA EmptyFollows ==
    ASSUME buffer' = <<>>, ip_index' = [ip \in ipHashes |-> <<>>]
    PROVE  FollowInv'
<1>1. ASSUME NEW ip \in ipHashes
      PROVE  OfClient(buffer, ip)' = OfClient(<<>>, ip)
  BY DEF OfClient
<1>2. \A ip \in ipHashes : ip_index'[ip] = <<>>
  OBVIOUS
<1> QED
  BY <1>1, <1>2, EmptyAlike DEF FollowInv

\* Every step of the store keeps them so.
LEMMA StoreFollows == StoreTypeOK /\ FollowInv /\ [StoreStep]_storeVars => FollowInv'
<1> SUFFICES ASSUME StoreTypeOK, FollowInv, [StoreStep]_storeVars
             PROVE  FollowInv'
  OBVIOUS
<1>1. ASSUME NEW l \in Lines, append(l)
      PROVE  FollowInv'
  <2>1. Remember(<<l>>) /\ <<l>> \in Seq(Lines)
    BY <1>1 DEF append
  <2> QED
    BY <2>1, RememberFollows
<1>2. ASSUME NEW t \in Threads, AddLoaded(t)
      PROVE  FollowInv'
  <2>1. Remember(loaded_states[t]) /\ loaded_states[t] \in Seq(Lines)
    BY <1>2 DEF AddLoaded, StoreTypeOK
  <2> QED
    BY <2>1, RememberFollows
<1>3. CASE Forget
  BY <1>3, EmptyFollows DEF Forget
<1>4. ASSUME UNCHANGED <<buffer, ip_index>>
      PROVE  FollowInv'
  BY <1>4 DEF FollowInv, OfClient
<1>5. ASSUME NEW t \in Threads, TakeUnflushed(t) \/ InsertRows(t) \/ InsertFails(t)
      PROVE  UNCHANGED <<buffer, ip_index>>
  BY <1>5 DEF TakeUnflushed, InsertRows, InsertFails
<1>6. ASSUME NEW t \in Threads, NEW limit, FetchRows(t, limit)
      PROVE  UNCHANGED <<buffer, ip_index>>
  BY <1>6 DEF FetchRows
<1>7. ASSUME UNCHANGED storeVars
      PROVE  UNCHANGED <<buffer, ip_index>>
  BY <1>7 DEF storeVars
<1> QED
  BY <1>1, <1>2, <1>3, <1>4, <1>5, <1>6, <1>7 DEF StoreStep

\* So the rings of whoever uses the store tell the same story.
LEMMA StoreAgrees == StoreInit /\ [][StoreStep]_storeVars => []IndexFollowsBuffer
<1>1. StoreInit => StoreTypeOK /\ FollowInv
  <2> SUFFICES ASSUME StoreInit
               PROVE  FollowInv
    BY StoreBegins
  <2> QED
    BY EmptyAlike DEF FollowInv, StoreInit
<1>2. StoreTypeOK /\ FollowInv => IndexFollowsBuffer
  <2> SUFFICES ASSUME StoreTypeOK, FollowInv, NEW ip \in ipHashes
               PROVE  IsSuffix(Latest(OfClient(buffer, ip), IndexCapacity), ip_index[ip])
    BY DEF IndexFollowsBuffer
  <2>1. OfClient(buffer, ip) \in Seq(Lines)
    BY FilterPlaces DEF OfClient, StoreTypeOK
  <2>2. ip_index[ip] \in Seq(Lines) /\ EndsAlike(OfClient(buffer, ip), ip_index[ip])
    BY DEF FollowInv
  <2> QED
    BY <2>1, <2>2, AlikeIsSuffix
<1> QED
  BY <1>1, <1>2, StoreTypes, StoreFollows, PTL

\* A client's latest states in the buffer are the end of its own ring, in the same order,
\* whatever the capacities of the rings, the appends and loads between two flushes and the
\* restarts (append, load_from_sqlite).
THEOREM RingsAgree ==
    /\ Spec => []IndexFollowsBuffer
    /\ StoreInit /\ [][StoreNext]_storeVars => []IndexFollowsBuffer
    /\ MCSpec => []IndexFollowsBuffer
<1>1. Spec => StoreInit /\ [][StoreStep]_storeVars
  BY CollectorUsesStore, PTL DEF Spec, Init
<1>2. StoreInit /\ [][StoreNext]_storeVars => StoreInit /\ [][StoreStep]_storeVars
  BY StoreAlone, PTL
<1> QED
  BY <1>1, <1>2, StoreFollowed, StoreAgrees, PTL

----------------------------------------------------------------------------
\* The labels of the stages.

\* The labelling runs as by itself.
LEMMA StagesAlone == MCSpec => Forecasts!Spec
<1>1. [MCNext]_allVars => [Forecasts!Next]_(Forecasts!vars)
  BY Zenon DEF MCNext, allVars, stageVars, Forecasts!vars,
               Collector, Store, Stage, Feature, Loading, Evaluating, TrainingRun
<1>2. MCInit => Forecasts!Init
  BY DEF MCInit
<1> QED
  BY <1>1, <1>2, PTL DEF MCSpec, Forecasts!Spec

\* i lies in a stretch of at least three steps at surge level up to k.
LongSurge(raw, i, k) ==
    \E a, b \in 1 .. k : /\ a <= i /\ i <= b /\ b - a + 1 >= 3
                         /\ \A m \in a .. b : raw[m] = 3

\* The second pass after k steps: the length of the stretch that ends there, and the steps
\* promoted so far.
PromotedTo(acc, raw, k) ==
    /\ acc.run \in 0 .. k
    /\ \A m \in k - acc.run + 1 .. k : raw[m] = 3
    /\ acc.run < k => raw[k - acc.run] # 3
    /\ \A i \in DOMAIN raw : acc.labels[i] = IF LongSurge(raw, i, k) THEN 4 ELSE raw[i]

\* One step of the second pass of label_sequence keeps what is promoted so far: a stretch that
\* reaches three steps is promoted from its first step on, and only then.
LEMMA PromoteStep ==
    ASSUME NEW n \in Nat, NEW raw \in [1 .. n -> 0 .. 3], NEW k \in 1 .. n,
           NEW acc \in [run : Nat, labels : [1 .. n -> 0 .. 4]],
           PromotedTo(acc, raw, k - 1)
    PROVE  PromotedTo(Forecasts!Promote(acc, k, raw), raw, k)
<1> USE DEF Forecasts!NORMAL, Forecasts!RECON, Forecasts!ESCALATION, Forecasts!SURGE,
            Forecasts!SUSTAINED, Forecasts!SUSTAINED_MIN_CONSECUTIVE_STEPS
<1> DEFINE r == IF raw[k] = 3 THEN acc.run + 1 ELSE 0
           ls == [j \in DOMAIN acc.labels |->
                     IF r >= 3 /\ j \in k - r + 1 .. k THEN 4 ELSE acc.labels[j]]
<1>1. /\ acc.run \in 0 .. k - 1
      /\ \A m \in (k - 1) - acc.run + 1 .. k - 1 : raw[m] = 3
      /\ acc.run < k - 1 => raw[(k - 1) - acc.run] # 3
      /\ \A i \in 1 .. n : acc.labels[i] = IF LongSurge(raw, i, k - 1) THEN 4 ELSE raw[i]
  BY DEF PromotedTo
<1>2. /\ r \in 0 .. k
      /\ \A m \in k - r + 1 .. k : raw[m] = 3
      /\ r < k => raw[k - r] # 3
  BY <1>1
<1> HIDE DEF r
<1>3. ASSUME NEW i \in 1 .. n, r >= 3, i \in k - r + 1 .. k
      PROVE  LongSurge(raw, i, k)
  <2>1. k - r + 1 \in 1 .. k /\ k \in 1 .. k /\ k - (k - r + 1) + 1 >= 3
    BY <1>2, <1>3
  <2>2. \A m \in k - r + 1 .. k : raw[m] = 3
    BY <1>2
  <2> HIDE DEF r
  <2> DEFINE a == k - r + 1
  <2>3. a \in 1 .. k /\ a <= i /\ i <= k /\ k - a + 1 >= 3 /\ \A m \in a .. k : raw[m] = 3
    BY <1>2, <1>3, <2>1, <2>2
  <2> HIDE DEF a
  <2> QED
    BY <2>1, <2>3 DEF LongSurge
<1>4. ASSUME NEW i \in 1 .. n, ~ (r >= 3 /\ i \in k - r + 1 .. k)
      PROVE  LongSurge(raw, i, k) <=> LongSurge(raw, i, k - 1)
  <2>1. ASSUME LongSurge(raw, i, k - 1)
        PROVE  LongSurge(raw, i, k)
    <3>1. PICK a \in 1 .. k - 1, b \in 1 .. k - 1 :
                /\ a <= i /\ i <= b /\ b - a + 1 >= 3 /\ \A m \in a .. b : raw[m] = 3
      BY <2>1 DEF LongSurge
    <3>2. a \in 1 .. k /\ b \in 1 .. k
      BY <3>1
    <3> QED
      BY <3>1, <3>2 DEF LongSurge
  <2>2. ASSUME LongSurge(raw, i, k)
        PROVE  LongSurge(raw, i, k - 1)
    <3>1. PICK a \in 1 .. k, b \in 1 .. k : /\ a <= i /\ i <= b /\ b - a + 1 >= 3
                                            /\ \A m \in a .. b : raw[m] = 3
      BY <2>2 DEF LongSurge
    <3>2. CASE b = k
      <4>1. k - r \notin a .. b
        BY <1>2, <3>1
      <4>2. a > k - r
        BY <1>2, <3>1, <3>2, <4>1
      <4> QED
        BY <1>2, <1>4, <3>1, <3>2, <4>2
    <3>3. CASE b # k
      <4>1. b \in 1 .. k - 1 /\ a \in 1 .. k - 1
        BY <3>1, <3>3
      <4> QED
        BY <3>1, <4>1 DEF LongSurge
    <3> QED
      BY <3>2, <3>3
  <2> QED
    BY <2>1, <2>2
<1>5. ASSUME NEW i \in 1 .. n
      PROVE  ls[i] = IF LongSurge(raw, i, k) THEN 4 ELSE raw[i]
  <2>1. ls[i] = IF r >= 3 /\ i \in k - r + 1 .. k THEN 4 ELSE acc.labels[i]
    OBVIOUS
  <2> HIDE DEF ls
  <2>2. acc.labels[i] = IF LongSurge(raw, i, k - 1) THEN 4 ELSE raw[i]
    BY <1>1
  <2>3. CASE r >= 3 /\ i \in k - r + 1 .. k
    BY <1>3, <2>1, <2>3
  <2>4. CASE ~ (r >= 3 /\ i \in k - r + 1 .. k)
    BY <1>4, <2>1, <2>2, <2>4
  <2> QED
    BY <2>3, <2>4
<1>6. Forecasts!Promote(acc, k, raw) = [run |-> r, labels |-> ls]
  BY DEF Forecasts!Promote, r
<1> HIDE DEF ls
<1> QED
  BY <1>2, <1>5, <1>6 DEF PromotedTo

\* label_sequence is exact.
LEMMA LabelSequence ==
    ASSUME NEW st \in Seq(Int)
    PROVE  LET raw == [i \in DOMAIN st |-> Forecasts!label_state(st[i])]
           IN  /\ raw \in [1 .. Len(st) -> 0 .. 3]
               /\ Forecasts!label_sequence(st) \in [1 .. Len(st) -> 0 .. 4]
               /\ \A i \in 1 .. Len(st) : Forecasts!label_sequence(st)[i]
                                          = IF LongSurge(raw, i, Len(st)) THEN 4 ELSE raw[i]
<1> USE DEF Forecasts!NORMAL, Forecasts!RECON, Forecasts!ESCALATION, Forecasts!SURGE,
            Forecasts!SUSTAINED, Forecasts!SUSTAINED_MIN_CONSECUTIVE_STEPS
<1> DEFINE n   == Len(st)
           raw == [i \in DOMAIN st |-> Forecasts!label_state(st[i])]
           A   == [run : Nat, labels : [1 .. n -> 0 .. 4]]
           b   == [run |-> 0, labels |-> raw]
           F   == [p \in A \X (1 .. n) |-> Forecasts!Promote(p[1], p[2], raw)]
           id  == [i \in DOMAIN raw |-> i]
           Eq(g) == g = [T \in SUBSET (DOMAIN id) |->
                            IF T = {} THEN b
                            ELSE Forecasts!Promote(g[T \ {Forecasts!Max(T)}],
                                                   id[Forecasts!Max(T)], raw)]
<1>0. Forecasts!label_sequence(st) = (CHOOSE g : Eq(g))[DOMAIN id].labels
  BY DEF Forecasts!label_sequence, Forecasts!FoldLeftDomain, Forecasts!FoldLeft,
         Forecasts!MapThenFoldSet
<1>1. n \in Nat /\ DOMAIN st = 1 .. n /\ raw \in [1 .. n -> 0 .. 3]
  BY DEF Forecasts!label_state
<1> HIDE DEF n, raw
<1>2. b \in A
  BY <1>1
<1>3. ASSUME NEW acc \in A, NEW i \in 1 .. n
      PROVE  Forecasts!Promote(acc, i, raw) \in A
  <2>1. acc.run \in Nat /\ acc.labels \in [1 .. n -> 0 .. 4]
    OBVIOUS
  <2> DEFINE r == IF raw[i] = 3 THEN acc.run + 1 ELSE 0
             ls == [j \in DOMAIN acc.labels |->
                       IF r >= 3 /\ j \in i - r + 1 .. i THEN 4 ELSE acc.labels[j]]
  <2>2. r \in Nat
    BY <2>1
  <2>3. ls \in [1 .. n -> 0 .. 4]
    <3> DEFINE lab == acc.labels
               hit(j) == r >= 3 /\ j \in i - r + 1 .. i
    <3>1. lab \in [1 .. n -> 0 .. 4] /\ DOMAIN lab = 1 .. n
      BY <2>1
    <3> HIDE DEF r, lab, hit
    <3>2. [j \in DOMAIN lab |-> IF hit(j) THEN 4 ELSE lab[j]] \in [1 .. n -> 0 .. 4]
      BY <3>1
    <3> QED
      BY <3>2 DEF lab, hit
  <2>4. Forecasts!Promote(acc, i, raw) = [run |-> r, labels |-> ls]
    BY DEF Forecasts!Promote
  <2> HIDE DEF r, ls
  <2> QED
    BY <2>2, <2>3, <2>4
<1>4. F \in [A \X (1 .. n) -> A]
  BY <1>3
<1> HIDE DEF A, b
<1>5. PICK h : IsScan(h, A, b, F, n)
  <2> HIDE DEF F
  <2> QED
    BY <1>1, <1>2, <1>4, ScanExists
<1>6. /\ DOMAIN id = 1 .. n
      /\ \A T \in SUBSET (1 .. n) :
            T # {} => Max(T) \in 1 .. n /\ id[Forecasts!Max(T)] = Max(T)
      /\ \A T : Forecasts!Max(T) = Max(T)
  <2>1. DOMAIN id = 1 .. n /\ \A i \in 1 .. n : id[i] = i
    BY <1>1
  <2>2. \A T \in SUBSET (1 .. n) : T # {} => Max(T) \in 1 .. n
    BY <1>1, PrefixMax
  <2>3. \A T : Forecasts!Max(T) = Max(T)
    BY DEF Forecasts!Max, Max
  <2> QED
    BY <2>1, <2>2, <2>3
<1> HIDE DEF id
<1>7. ASSUME NEW acc \in A, NEW i \in 1 .. n
      PROVE  F[<<acc, i>>] = Forecasts!Promote(acc, i, raw)
  OBVIOUS
<1> HIDE DEF F
<1>8. h \in [SUBSET (1 .. n) -> A] /\ OnSubsets(h, 1 .. n)
  BY <1>5 DEF IsScan, OnSubsets
<1>9. \A T \in SUBSET (1 .. n) :
         h[T] = IF T = {} THEN b ELSE Forecasts!Promote(h[T \ {Max(T)}], Max(T), raw)
  BY <1>5, <1>6, <1>7, <1>8 DEF IsScan
<1>10. Eq(h)
  BY <1>6, <1>8, <1>9 DEF OnSubsets
<1>11. ASSUME NEW g, Eq(g)
       PROVE  g = h
  <2>1. OnSubsets(g, 1 .. n)
    BY <1>6, <1>11 DEF OnSubsets
  <2>2. \A T \in SUBSET (1 .. n) :
         g[T] = IF T = {} THEN b ELSE Forecasts!Promote(g[T \ {Max(T)}], Max(T), raw)
    BY <1>6, <1>11
  <2>3. \A T \in SUBSET (1 .. n) :
              (T # {} => g[T \ {Max(T)}] = h[T \ {Max(T)}]) => g[T] = h[T]
    BY <1>9, <2>2
  <2> QED
    BY <1>1, <1>8, <2>1, <2>3, ScanUnique
<1>12. (CHOOSE g : Eq(g)) = h
  <2> HIDE DEF Eq
  <2> QED
    BY <1>10, <1>11
<1>13. Forecasts!label_sequence(st) = h[1 .. n].labels
  BY <1>0, <1>6, <1>12
<1>14. PromotedTo(h[1 .. 0], raw, 0)
  <2>1. h[1 .. 0] = b
    BY <1>5 DEF IsScan
  <2>2. \A i \in DOMAIN raw : ~ LongSurge(raw, i, 0)
    BY DEF LongSurge
  <2> QED
    BY <1>1, <2>1, <2>2 DEF PromotedTo, b
<1>15. ASSUME NEW k \in 1 .. n, PromotedTo(h[1 .. k - 1], raw, k - 1)
       PROVE  PromotedTo(h[1 .. k], raw, k)
  <2>1. h[1 .. k] = F[<<h[1 .. k - 1], k>>] /\ h[1 .. k - 1] \in A
    <3>1. 1 .. k - 1 \in SUBSET (1 .. n)
      BY <1>1
    <3> QED
      BY <1>5, <1>8, <3>1 DEF IsScan
  <2>2. h[1 .. k] = Forecasts!Promote(h[1 .. k - 1], k, raw)
    BY <1>7, <2>1
  <2> QED
    BY <1>1, <1>15, <2>1, <2>2, PromoteStep DEF A
<1>16. PromotedTo(h[1 .. n], raw, n)
  <2> DEFINE bad == {k \in 0 .. n : ~ PromotedTo(h[1 .. k], raw, k)}
  <2>1. bad = {}
    <3> SUFFICES ASSUME bad # {} PROVE FALSE
      OBVIOUS
    <3>1. bad \in SUBSET Nat
      BY <1>1
    <3>2. PICK m \in bad : \A k \in bad : m <= k
      <4> HIDE DEF bad
      <4> QED
        BY <3>1, LeastNumber
    <3>3. m \in 1 .. n
      BY <1>1, <1>14
    <3>4. m - 1 \in 0 .. n /\ ~ (m <= m - 1)
      BY <1>1, <3>3
    <3>5. PromotedTo(h[1 .. m - 1], raw, m - 1)
      BY <3>2, <3>4
    <3> QED
      BY <1>15, <3>3, <3>5
  <2>2. n \in 0 .. n
    BY <1>1
  <2> QED
    BY <2>1, <2>2
<1>17. \A i \in 1 .. n : h[1 .. n].labels[i] = IF LongSurge(raw, i, n) THEN 4 ELSE raw[i]
  BY <1>1, <1>16 DEF PromotedTo
<1>18. h[1 .. n].labels \in [1 .. n -> 0 .. 4]
  <2>1. 1 .. n \in SUBSET (1 .. n)
    OBVIOUS
  <2> QED
    BY <1>8, <2>1 DEF A
<1> QED
  BY <1>1, <1>13, <1>17, <1>18 DEF n, raw

\* Only SUSTAINED is critical.
LEMMA OnlySustainedCritical ==
    ASSUME NEW l \in 0 .. 4
    PROVE  Forecasts!Severities[Forecasts!max_severity(l)] = "CRITICAL" <=> l = 4
<1> USE DEF Forecasts!NORMAL, Forecasts!RECON, Forecasts!ESCALATION, Forecasts!SURGE,
            Forecasts!SUSTAINED, Forecasts!SUSTAINED_MIN_CONSECUTIVE_STEPS
<1> DEFINE S == {1} \cup {k \in 2 .. 5 : Forecasts!Severities[k]
                                             \in Forecasts!map_stage_to_techniques(l)}
<1>1. \A k \in 1 .. 5 : Forecasts!Severities[k] = "CRITICAL" <=> k = 5
  BY DEF Forecasts!Severities
<1>2. 5 \in S <=> l = 4
  BY <1>1 DEF Forecasts!map_stage_to_techniques
<1>3. S \in SUBSET (0 .. 5) /\ S # {} /\ 0 \notin S
  OBVIOUS
<1>4. Forecasts!max_severity(l) = Max(S)
  BY DEF Forecasts!max_severity, Forecasts!Max, Max
<1> HIDE DEF S
<1>5. Max(S) \in S /\ \A x \in S : x <= Max(S)
  BY <1>3, LargestNumber
<1>6. Max(S) \in 1 .. 5 /\ (Max(S) = 5 <=> 5 \in S)
  <2>1. Max(S) \in 0 .. 5 /\ Max(S) # 0
    BY <1>3, <1>5
  <2>2. Max(S) \in Int /\ (5 \in S => 5 <= Max(S))
    BY <1>5, <2>1
  <2> QED
    BY <1>5, <2>1, <2>2
<1> QED
  BY <1>1, <1>2, <1>4, <1>6

\* The scores observed so far, and their labels.
StagesInv == scores \in Seq(Scores) /\ Forecasts!LabelsExact

\* Whatever the scores and however many, label_sequence calls a step SUSTAINED exactly when it
\* lies in a stretch of at least three steps at surge level, the first two of the stretch too,
\* and exactly these steps get a CRITICAL technique from the MITRE mapping.
THEOREM SurgesLabelled ==
    /\ Forecasts!Spec => []Forecasts!LabelsExact
    /\ MCSpec => []LabelsExact
<1> USE DEF Forecasts!NORMAL, Forecasts!RECON, Forecasts!ESCALATION, Forecasts!SURGE,
            Forecasts!SUSTAINED, Forecasts!SUSTAINED_MIN_CONSECUTIVE_STEPS
<1> USE StagesAssumed DEF Forecasts!StagesAssumption
<1>1. Forecasts!Init => StagesInv
  BY DEF Forecasts!Init, StagesInv, Forecasts!LabelsExact
<1>2. StagesInv /\ [Forecasts!Next]_(Forecasts!vars) => StagesInv'
  <2> SUFFICES ASSUME StagesInv, [Forecasts!Next]_(Forecasts!vars)
               PROVE  StagesInv'
    OBVIOUS
  <2>1. ASSUME NEW score \in Scores, Forecasts!Observe(score)
        PROVE  StagesInv'
    <3>1. scores' \in Seq(Scores) /\ scores' \in Seq(Int)
      <4>1. scores \in Seq(Scores) /\ scores' = Append(scores, score)
        BY <2>1 DEF StagesInv, Forecasts!Observe
      <4>2. Scores \subseteq Int
        OBVIOUS
      <4>3. scores' \in Seq(Scores)
        BY <4>1
      <4> QED
        BY <4>2, <4>3
    <3> DEFINE n   == Len(scores')
               raw == [i \in DOMAIN scores' |-> Forecasts!label_state(scores'[i])]
    <3>2. n \in Nat /\ DOMAIN scores' = 1 .. n /\ \A i \in 1 .. n : scores'[i] \in Int
      BY <3>1
    <3>3. /\ raw \in [1 .. n -> 0 .. 3]
          /\ \A i \in 1 .. n : labels'[i] = IF LongSurge(raw, i, n) THEN 4 ELSE raw[i]
      BY <2>1, <3>1, LabelSequence DEF Forecasts!Observe
    <3>4. \A i \in 1 .. n : (raw[i] = 3 <=> scores'[i] >= 70)
                            /\ raw[i] = Forecasts!label_state(scores'[i])
      BY <3>2 DEF Forecasts!label_state
    <3> HIDE DEF n, raw
    <3>5. ASSUME NEW i \in 1 .. n
          PROVE  LongSurge(raw, i, n) <=> Forecasts!InLongSurge(i)'
      <4>1. \A a, b \in 1 .. n : (\A k \in a .. b : raw[k] = 3)
                                 <=> \A k \in a .. b : scores'[k] >= 70
        BY <3>2, <3>4
      <4>2. LongSurge(raw, i, n) <=> \E a, b \in 1 .. n :
               a <= i /\ i <= b /\ b - a + 1 >= 3 /\ \A k \in a .. b : scores'[k] >= 70
        BY <4>1 DEF LongSurge
      <4> QED
        BY <3>2, <4>2 DEF Forecasts!InLongSurge
    <3>6. ASSUME NEW i \in 1 .. n
          PROVE  /\ labels'[i] = IF Forecasts!InLongSurge(i)' THEN 4
                                 ELSE Forecasts!label_state(scores'[i])
                 /\ Forecasts!Severities[Forecasts!max_severity(labels'[i])] = "CRITICAL"
                       <=> Forecasts!InLongSurge(i)'
      <4>1. labels'[i] \in 0 .. 4 /\ (labels'[i] = 4 <=> LongSurge(raw, i, n))
        BY <3>3
      <4> QED
        BY <3>3, <3>4, <3>5, <4>1, OnlySustainedCritical
    <3> QED
      BY <3>1, <3>2, <3>6 DEF StagesInv, Forecasts!LabelsExact
  <2>2. CASE UNCHANGED Forecasts!vars
    BY <2>2 DEF StagesInv, Forecasts!vars, Forecasts!LabelsExact, Forecasts!InLongSurge
  <2> QED
    BY <2>1, <2>2 DEF Forecasts!Next
<1>3. StagesInv => Forecasts!LabelsExact /\ LabelsExact
  BY DEF StagesInv, LabelsExact
<1>4. Forecasts!Spec => []StagesInv
  BY <1>1, <1>2, PTL DEF Forecasts!Spec
<1> QED
  BY <1>3, <1>4, StagesAlone, PTL

----------------------------------------------------------------------------
\* The path that viterbi decodes.

\* argmax is a place of the greatest value.
LEMMA ArgmaxFacts ==
    ASSUME NEW S \in SUBSET Nat, IsFiniteSet(S), S # {}, NEW f \in [S -> Nat]
    PROVE  Forecasts!argmax(f) \in S /\ \A i \in S : f[i] <= f[Forecasts!argmax(f)]
<1> DEFINE R   == {f[x] : x \in S}
           top == Max(R)
           at  == {i \in S : f[i] = top}
<1>1. Forecasts!argmax(f) = Min(at)
  <2>1. DOMAIN f = S
    OBVIOUS
  <2>2. Forecasts!Range(f) = R
    BY <2>1 DEF Forecasts!Range
  <2>3. Forecasts!Max(R) = top
    BY DEF Forecasts!Max, Max
  <2>4. Forecasts!Min(at) = Min(at)
    BY DEF Forecasts!Min, Min
  <2> HIDE DEF R, top
  <2>5. {i \in DOMAIN f : f[i] = Forecasts!Max(Forecasts!Range(f))} = at
    BY <2>1, <2>2, <2>3
  <2> HIDE DEF at
  <2> QED
    BY <2>4, <2>5 DEF Forecasts!argmax
<1>2. R \in SUBSET Nat /\ R # {} /\ IsFiniteSet(R)
  <2>1. f \in Surjection(S, R)
    BY DEF Surjection
  <2>2. IsFiniteSet(R)
    <3> HIDE DEF R
    <3> QED
      BY <2>1, FS_Surjection
  <2> QED
    BY <2>2
<1> HIDE DEF R
<1>3. top \in R /\ \A n \in R : n <= top
  BY <1>2, LargestOfFinite
<1>4. at \in SUBSET Nat /\ at # {}
  BY <1>3 DEF R
<1>5. Min(at) \in at
  <2> HIDE DEF at
  <2>1. PICK m \in at : \A n \in at : m <= n
    BY <1>4, LeastNumber
  <2> QED
    BY <2>1 DEF Min
<1> QED
  BY <1>1, <1>3, <1>5 DEF R

\* The product of numbers is a multiple of each.
LEMMA ProductFacts ==
    ASSUME NEW S, IsFiniteSet(S), NEW w \in [S -> Nat]
    PROVE  LET product == Forecasts!FoldFunction(LAMBDA r, acc : r * acc, 1, w)
           IN  product \in Nat /\ \A x \in S : \E q \in Nat : product = w[x] * q
<1> DEFINE Pick(T) == CHOOSE x \in T : TRUE
           F == [p \in Nat \X S |-> w[p[2]] * p[1]]
           c == [T \in SUBSET S |-> Pick(T)]
           Eq(g) == g = [T \in SUBSET S |-> IF T = {} THEN 1 ELSE w[Pick(T)] * g[T \ {Pick(T)}]]
<1>1. DOMAIN w = S
  OBVIOUS
<1>2. Forecasts!FoldFunction(LAMBDA r, acc : r * acc, 1, w) = (CHOOSE g : Eq(g))[S]
  BY <1>1 DEF Forecasts!FoldFunction, Forecasts!FoldFunctionOnSet, Forecasts!MapThenFoldSet
<1>3. \A T \in SUBSET S : T # {} => Pick(T) \in T /\ c[T] = Pick(T) /\ T \ {Pick(T)} \in SUBSET S
  OBVIOUS
<1>4. Picks(c, S)
  BY <1>3 DEF Picks
<1>5. F \in [Nat \X S -> Nat] /\ \A a \in Nat, x \in S : F[<<a, x>>] = w[x] * a
  <2>1. \A a \in Nat, x \in S : w[x] * a \in Nat
    BY SMT
  <2> QED
    BY <2>1
<1> HIDE DEF F, c, Pick
<1>6. PICK h : IsFold(h, Nat, 1, F, c, S)
  BY <1>4, <1>5, FoldExists
<1>7. h \in [SUBSET S -> Nat] /\ OnSubsets(h, S)
  BY <1>6 DEF IsFold, OnSubsets
<1>8. \A T \in SUBSET S : h[T] = IF T = {} THEN 1 ELSE w[Pick(T)] * h[T \ {Pick(T)}]
  <2> SUFFICES ASSUME NEW T \in SUBSET S, T # {}
               PROVE  h[T] = w[Pick(T)] * h[T \ {Pick(T)}]
    BY <1>6 DEF IsFold
  <2>1. h[T] = F[<<h[T \ {Pick(T)}], Pick(T)>>]
    BY <1>3, <1>6 DEF IsFold
  <2>2. h[T \ {Pick(T)}] \in Nat /\ Pick(T) \in S
    BY <1>3, <1>7
  <2> QED
    BY <1>5, <2>1, <2>2
<1>9. Eq(h)
  BY <1>7, <1>8 DEF OnSubsets
<1>10. ASSUME NEW g, Eq(g)
       PROVE  g = h
  <2>1. OnSubsets(g, S)
    BY <1>10 DEF OnSubsets
  <2>2. \A T \in SUBSET S : g[T] = IF T = {} THEN 1 ELSE w[Pick(T)] * g[T \ {Pick(T)}]
    BY <1>10
  <2>3. StepAlike(g, h, c, S)
    BY ZenonT(60), <1>3, <1>8, <2>2 DEF StepAlike
  <2> QED
    BY <1>4, <1>7, <2>1, <2>3, FoldUnique
<1>11. (CHOOSE g : Eq(g)) = h
  <2> HIDE DEF Eq
  <2> QED
    BY <1>9, <1>10
<1> DEFINE P == {T \in SUBSET S : \A x \in T : \E q \in Nat : h[T] = w[x] * q}
<1>12. {} \in P
  OBVIOUS
<1> HIDE DEF P
<1>13. ASSUME NEW T \in SUBSET S, T # {}, T \ {Pick(T)} \in P
       PROVE  T \in P
  <2> DEFINE y == Pick(T)
             U == T \ {y}
  <2>1. y \in T /\ U \in SUBSET S /\ h[T] = w[y] * h[U] /\ h[U] \in Nat /\ w[y] \in Nat
    BY <1>3, <1>7, <1>8, <1>13
  <2> HIDE DEF y
  <2>2. ASSUME NEW x \in T
        PROVE  \E q \in Nat : h[T] = w[x] * q
    <3>1. CASE x = y
      BY <2>1, <3>1
    <3>2. CASE x # y
      <4>1. PICK q \in Nat : h[U] = w[x] * q
        BY <1>13, <3>2 DEF P, y
      <4>2. w[x] \in Nat /\ w[y] * (w[x] * q) = w[x] * (w[y] * q) /\ w[y] * q \in Nat
        BY <2>1
      <4> HIDE DEF U
      <4>3. h[T] = w[x] * (w[y] * q)
        BY <2>1, <4>1, <4>2
      <4> QED
        BY <4>2, <4>3
    <3> QED
      BY <3>1, <3>2
  <2> QED
    BY <2>2 DEF P
<1>14. Grows(P, S)
  <2> SUFFICES ASSUME NEW T \in SUBSET S, T # {}
               PROVE  \E x \in T : T \ {x} \in P => T \in P
    BY DEF Grows
  <2> QED
    BY <1>3, <1>13
<1>15. S \in P
  BY <1>12, <1>14, FiniteInduction
<1>16. h[S] \in Nat /\ \A x \in S : \E q \in Nat : h[S] = w[x] * q
  BY <1>7, <1>15 DEF P
<1> QED
  BY <1>2, <1>11, <1>16

\* The states of the chain, and its matrices of whole weights.
Matrices == [Forecasts!States -> [Forecasts!States -> Nat]]
Hmms == [start : [Forecasts!States -> Nat], trans : Matrices]

\* The states of the chain are finitely many numbers.
LEMMA FewStates ==
    /\ Forecasts!States \in SUBSET Nat /\ IsFiniteSet(Forecasts!States)
    /\ Forecasts!States # {} /\ 0 \in Forecasts!States
<1>1. n_states \in Nat /\ n_states >= 1
  BY StagesAssumed DEF Forecasts!StagesAssumption
<1>2. IsFiniteSet(0 .. n_states - 1)
  BY <1>1, FS_Interval
<1> QED
  BY <1>1, <1>2 DEF Forecasts!States

\* The rows of a matrix have the same sum, a distribution's whole.
SameSums(m) == \A i \in Forecasts!States :
                  SumFunctionOnSet(m[i], Forecasts!States) = SumFunctionOnSet(m[0], Forecasts!States)

\* Rows of positive counts are scaled to whole weights, each row to the same sum.
LEMMA NormalisedFacts ==
    ASSUME NEW sm \in [Forecasts!States -> [Forecasts!States -> Nat \ {0}]]
    PROVE  /\ Forecasts!Normalised(sm) \in Matrices
           /\ SameSums(Forecasts!Normalised(sm))
<1> DEFINE S    == Forecasts!States
           sums == [i \in S |-> Forecasts!SumFunction(sm[i])]
           prod == Forecasts!FoldFunction(LAMBDA r, acc : r * acc, 1, sums)
<1>1. S # {} /\ IsFiniteSet(S)
  BY FewStates
<1>2. \A f : Forecasts!SumFunction(f) = SumFunctionOnSet(f, DOMAIN f)
  BY DEF Forecasts!SumFunction, Forecasts!SumFunctionOnSet, SumFunctionOnSet,
         Forecasts!FoldFunctionOnSet, FoldFunctionOnSet, Forecasts!MapThenFoldSet, MapThenFoldSet
<1>3. Forecasts!Normalised(sm) = [i \in S |-> [j \in S |-> sm[i][j] * (prod \div sums[i])]]
  BY DEF Forecasts!Normalised
<1> HIDE DEF S
<1>4. ASSUME NEW i \in S
      PROVE  Forecasts!SumFunction(sm[i]) \in Nat \ {0}
  <2>1. sm[i] \in [S -> Nat \ {0}] /\ DOMAIN sm[i] = S
    BY DEF S
  <2> QED
    BY <1>1, <1>2, <2>1, SumPositive
<1>5. sums \in [S -> Nat \ {0}] /\ sums \in [S -> Nat]
  BY <1>4
<1> HIDE DEF sums
<1>6. prod \in Nat /\ \A i \in S : \E q \in Nat : prod = sums[i] * q
  BY <1>1, <1>5, ProductFacts
<1> HIDE DEF prod
<1> DEFINE m == [i \in S |-> [j \in S |-> sm[i][j] * (prod \div sums[i])]]
<1>7. ASSUME NEW i \in S
      PROVE  m[i] \in [S -> Nat] /\ SumFunctionOnSet(m[i], S) = prod
  <2>1. sums[i] \in Nat \ {0} /\ sm[i] \in [S -> Nat \ {0}]
    BY <1>5 DEF S
  <2>2. PICK q \in Nat : prod = sums[i] * q
    BY <1>6
  <2>3. prod \div sums[i] = q
    BY <2>1, <2>2, QuotientOfProduct
  <2>4. m[i] = [j \in S |-> sm[i][j] * q]
    BY <2>3
  <2> HIDE DEF m
  <2>5. \A j \in S : sm[i][j] \in Nat /\ sm[i][j] * q \in Nat /\ m[i][j] = sm[i][j] * q
    BY <2>1, <2>4
  <2>6. Numbers(sm[i], S) /\ Scaled(m[i], sm[i], q, S)
    BY <2>5 DEF Numbers, Scaled
  <2>7. SumFunctionOnSet(m[i], S) = SumFunctionOnSet(sm[i], S) * q
    BY <1>1, <2>6, SumScaled
  <2>8. SumFunctionOnSet(sm[i], S) = sums[i]
    BY <1>2, <2>1 DEF sums
  <2> QED
    BY <2>2, <2>4, <2>5, <2>7, <2>8
<1>8. 0 \in S
  BY FewStates DEF S
<1>9. m \in [S -> [S -> Nat]]
  BY <1>7
<1> HIDE DEF m
<1>10. \A i \in S : SumFunctionOnSet(m[i], S) = SumFunctionOnSet(m[0], S)
  BY <1>7, <1>8
<1>11. Forecasts!Normalised(sm) = m
  BY <1>3 DEF m
<1> QED
  BY <1>9, <1>10, <1>11 DEF Matrices, SameSums, S

\* The smoothed counts of labelled sequences are positive.
LEMMA CountsTyped ==
    ASSUME NEW seqs \in Seq(Seq(0 .. 4)), NEW i, NEW j
    PROVE  smoothing_alpha + Forecasts!Transitions(seqs, i, j) \in Nat \ {0}
<1> DEFINE D == DOMAIN seqs
           steps(k) == {t \in 1 .. Len(seqs[k]) - 1 : seqs[k][t] = i /\ seqs[k][t + 1] = j}
           w == [k \in D |-> Cardinality(steps(k))]
<1>1. IsFiniteSet(D)
  <2>1. D = 1 .. Len(seqs) /\ Len(seqs) \in Nat
    OBVIOUS
  <2> QED
    BY <2>1, FS_Interval
<1>2. ASSUME NEW k \in D
      PROVE  Cardinality(steps(k)) \in Nat
  <2>1. seqs[k] \in Seq(0 .. 4)
    OBVIOUS
  <2>2. Len(seqs[k]) \in Nat
    BY <2>1
  <2>3. IsFiniteSet(1 .. Len(seqs[k]) - 1)
    BY <2>2, FS_Interval
  <2>4. IsFiniteSet(steps(k))
    BY <2>3, FS_Subset
  <2> QED
    BY <2>4, FS_CardinalityType
<1>3. Forecasts!Transitions(seqs, i, j) = SumFunctionOnSet(w, D)
  <2>1. \A S : Forecasts!Cardinality(S) = Cardinality(S)
    BY Zenon DEF Forecasts!Cardinality, Cardinality
  <2>2. [k \in D |-> Forecasts!Cardinality(steps(k))] = w
    BY <2>1
  <2>3. \A f : Forecasts!SumFunction(f) = SumFunctionOnSet(f, DOMAIN f)
    BY DEF Forecasts!SumFunction, Forecasts!SumFunctionOnSet, SumFunctionOnSet,
           Forecasts!FoldFunctionOnSet, FoldFunctionOnSet, Forecasts!MapThenFoldSet, MapThenFoldSet
  <2>4. Forecasts!Transitions(seqs, i, j) = Forecasts!SumFunction([k \in D |-> Forecasts!Cardinality(steps(k))])
    BY DEF Forecasts!Transitions
  <2>5. DOMAIN w = D
    OBVIOUS
  <2> HIDE DEF w
  <2> QED
    BY <2>2, <2>3, <2>4, <2>5
<1>4. \A k \in D : w[k] \in Nat
  BY <1>2
<1> HIDE DEF w, D
<1>5. SumFunctionOnSet(w, D) \in Nat
  BY <1>1, <1>4, SumFacts
<1> QED
  BY <1>3, <1>5, StagesAssumed DEF Forecasts!StagesAssumption

\* fit of the two models gives matrices of whole weights, their rows with the same sum.
LEMMA FitFacts ==
    ASSUME NEW seqs \in Seq(Seq(0 .. 4))
    PROVE  /\ Forecasts!fit_markov(seqs) \in Matrices /\ SameSums(Forecasts!fit_markov(seqs))
           /\ Forecasts!fit_hmm(seqs) \in Hmms
<1> DEFINE S == Forecasts!States
           sm == [i \in S |-> [j \in S |-> smoothing_alpha + Forecasts!Transitions(seqs, i, j)]]
           first(s) == {k \in DOMAIN seqs : seqs[k] # <<>> /\ seqs[k][1] = s}
           start == [s \in S |-> smoothing_alpha + Forecasts!Cardinality(first(s))]
<1>1. sm \in [S -> [S -> Nat \ {0}]]
  BY CountsTyped
<1>2. Forecasts!fit_markov(seqs) = Forecasts!Normalised(sm)
  BY DEF Forecasts!fit_markov
<1> HIDE DEF sm
<1>3. Forecasts!fit_markov(seqs) \in Matrices /\ SameSums(Forecasts!fit_markov(seqs))
  BY <1>1, <1>2, NormalisedFacts
<1>4. ASSUME NEW s \in S
      PROVE  smoothing_alpha + Forecasts!Cardinality(first(s)) \in Nat
  <2>1. DOMAIN seqs = 1 .. Len(seqs) /\ Len(seqs) \in Nat
    OBVIOUS
  <2>2. IsFiniteSet(DOMAIN seqs)
    BY <2>1, FS_Interval
  <2>3. IsFiniteSet(first(s))
    BY <2>2, FS_Subset
  <2>4. Forecasts!Cardinality(first(s)) = Cardinality(first(s))
    BY Zenon DEF Forecasts!Cardinality, Cardinality
  <2> HIDE DEF first
  <2>5. Cardinality(first(s)) \in Nat
    BY <2>3, FS_CardinalityType
  <2> QED
    BY <2>4, <2>5, StagesAssumed DEF Forecasts!StagesAssumption
<1>5. start \in [S -> Nat]
  BY <1>4
<1>6. Forecasts!fit_hmm(seqs) = [start |-> start, trans |-> Forecasts!fit_markov(seqs)]
  BY DEF Forecasts!fit_hmm
<1> QED
  BY <1>3, <1>5, <1>6 DEF Hmms

\* A row of viterbi's tables, and the first one.
Rows == [Forecasts!States -> [score : Nat, back : Forecasts!States]]
FirstRow(h, o) == [s \in Forecasts!States |-> [score |-> h.start[s] * Emission[s][o], back |-> 0]]

\* The weights of observations are whole and positive.
LEMMA EmissionTyped ==
    ASSUME NEW s \in Forecasts!States, NEW o \in Symbols
    PROVE  Emission[s][o] \in Nat
BY StagesAssumed DEF Forecasts!StagesAssumption, Forecasts!States

\* A row takes each state's best predecessor.
LEMMA RowFacts ==
    ASSUME NEW h \in Hmms, NEW prev \in Rows, NEW o \in Symbols
    PROVE  LET row == Forecasts!ViterbiRow(h, prev, o)
           IN  /\ row \in Rows
               /\ \A s \in Forecasts!States :
                    /\ row[s].score = prev[row[s].back].score * h.trans[row[s].back][s] * Emission[s][o]
                    /\ \A p \in Forecasts!States :
                         prev[p].score * h.trans[p][s] <= prev[row[s].back].score * h.trans[row[s].back][s]
<1> DEFINE S == Forecasts!States
           came(s) == [p \in S |-> prev[p].score * h.trans[p][s]]
           top(s)  == Forecasts!argmax(came(s))
           row == Forecasts!ViterbiRow(h, prev, o)
<1>1. row = [s \in S |-> [score |-> came(s)[top(s)] * Emission[s][o], back |-> top(s)]]
  BY DEF Forecasts!ViterbiRow
<1>2. S \in SUBSET Nat /\ IsFiniteSet(S) /\ S # {}
  BY FewStates
<1>3. \A p, s \in S : prev[p].score \in Nat /\ h.trans[p][s] \in Nat
  BY DEF Rows, Hmms, Matrices
<1>4. \A s \in S : Emission[s][o] \in Nat
  BY EmissionTyped
<1> HIDE DEF S
<1>5. ASSUME NEW s \in S
      PROVE  /\ came(s) \in [S -> Nat]
             /\ \A p \in S : came(s)[p] = prev[p].score * h.trans[p][s]
  BY <1>3
<1> HIDE DEF came
<1>6. ASSUME NEW s \in S
      PROVE  /\ top(s) \in S /\ \A p \in S : came(s)[p] <= came(s)[top(s)]
             /\ came(s)[top(s)] \in Nat
  BY <1>2, <1>5, ArgmaxFacts
<1> HIDE DEF top, row
<1>7. ASSUME NEW s \in S
      PROVE  row[s] = [score |-> came(s)[top(s)] * Emission[s][o], back |-> top(s)]
             /\ row[s] \in [score : Nat, back : S]
  <2>1. row[s] = [score |-> came(s)[top(s)] * Emission[s][o], back |-> top(s)]
    BY <1>1
  <2>2. came(s)[top(s)] * Emission[s][o] \in Nat
    BY <1>4, <1>6
  <2> QED
    BY <1>6, <2>1, <2>2
<1>8. row \in Rows
  BY <1>1, <1>7 DEF Rows, S
<1>9. ASSUME NEW s \in S
      PROVE  /\ row[s].score = prev[row[s].back].score * h.trans[row[s].back][s] * Emission[s][o]
             /\ \A p \in S : prev[p].score * h.trans[p][s]
                               <= prev[row[s].back].score * h.trans[row[s].back][s]
  <2>1. row[s].back = top(s) /\ row[s].score = came(s)[top(s)] * Emission[s][o]
    <3> DEFINE best == came(s)[top(s)] * Emission[s][o]
    <3>1. row[s] = [score |-> best, back |-> top(s)]
      BY <1>7
    <3> HIDE DEF best
    <3>2. row[s].back = top(s) /\ row[s].score = best
      BY <3>1
    <3> QED
      BY <3>2 DEF best
  <2>2. came(s)[top(s)] = prev[top(s)].score * h.trans[top(s)][s]
    BY <1>5, <1>6
  <2> QED
    BY <1>5, <1>6, <2>1, <2>2
<1> QED
  BY <1>8, <1>9 DEF row, S

\* The rows after k observations.
RowsTo(rows, h, obs, k) ==
    /\ rows \in Seq(Rows) /\ Len(rows) = k
    /\ \A t \in 1 .. k : rows[t] = IF t = 1 THEN FirstRow(h, obs[1])
                                   ELSE Forecasts!ViterbiRow(h, rows[t - 1], obs[t])

\* What viterbi_table adds for an observation.
NextRow(h, rows, o) == IF rows = <<>> THEN FirstRow(h, o)
                       ELSE Forecasts!ViterbiRow(h, Forecasts!Last(rows), o)

\* It is a row.
LEMMA NextRowTyped ==
    ASSUME NEW h \in Hmms, NEW rows \in Seq(Rows), NEW o \in Symbols
    PROVE  NextRow(h, rows, o) \in Rows
<1>1. CASE rows = <<>>
  <2>1. ASSUME NEW s \in Forecasts!States
        PROVE  h.start[s] * Emission[s][o] \in Nat
    <3>1. h.start[s] \in Nat
      BY DEF Hmms
    <3> QED
      BY <3>1, EmissionTyped
  <2>2. FirstRow(h, o) \in Rows
    BY <2>1, FewStates DEF FirstRow, Rows
  <2> QED
    BY <1>1, <2>2 DEF NextRow
<1>2. CASE rows # <<>>
  <2>1. Forecasts!Last(rows) \in Rows
    BY <1>2 DEF Forecasts!Last
  <2> QED
    BY <1>2, <2>1, RowFacts DEF NextRow
<1> QED
  BY <1>1, <1>2

\* One observation more.
LEMMA RowsStep ==
    ASSUME NEW h \in Hmms, NEW n \in Nat, NEW obs \in [1 .. n -> Symbols], NEW k \in 1 .. n,
           NEW rows, RowsTo(rows, h, obs, k - 1)
    PROVE  RowsTo(Append(rows, NextRow(h, rows, obs[k])), h, obs, k)
<1> DEFINE row == NextRow(h, rows, obs[k])
           new == Append(rows, row)
<1>1. rows \in Seq(Rows) /\ Len(rows) = k - 1 /\ obs[k] \in Symbols
  BY DEF RowsTo
<1>2. row \in Rows
  BY <1>1, NextRowTyped
<1>3. row = IF k = 1 THEN FirstRow(h, obs[1]) ELSE Forecasts!ViterbiRow(h, rows[k - 1], obs[k])
  <2>1. rows = <<>> <=> k = 1
    BY <1>1
  <2>2. Forecasts!Last(rows) = rows[k - 1]
    BY <1>1 DEF Forecasts!Last
  <2> QED
    BY <2>1, <2>2 DEF NextRow
<1> HIDE DEF row
<1>4. /\ new \in Seq(Rows) /\ Len(new) = k /\ new[k] = row
      /\ \A t \in 1 .. k - 1 : new[t] = rows[t]
  BY <1>1, <1>2
<1> HIDE DEF new
<1>5. ASSUME NEW t \in 1 .. k
      PROVE  new[t] = IF t = 1 THEN FirstRow(h, obs[1])
                      ELSE Forecasts!ViterbiRow(h, new[t - 1], obs[t])
  <2>1. CASE t = k
    <3>1. k # 1 => k - 1 \in 1 .. k - 1
      OBVIOUS
    <3> QED
      BY <1>3, <1>4, <2>1, <3>1
  <2>2. CASE t # k
    <3>1. t \in 1 .. k - 1 /\ (t # 1 => t - 1 \in 1 .. k - 1)
      BY <2>2
    <3> QED
      BY <1>4, <3>1 DEF RowsTo
  <2> QED
    BY <2>1, <2>2
<1> QED
  BY <1>4, <1>5 DEF RowsTo, new, row

\* viterbi_table has a row for every observation, each from the one before.
LEMMA RowsAll ==
    ASSUME NEW h \in Hmms, NEW n \in Nat, NEW obs \in [1 .. n -> Symbols]
    PROVE  RowsTo(Forecasts!viterbi_table(h, obs), h, obs, n)
<1> DEFINE A == Seq(Rows)
           Add(rows, o) == Append(rows, NextRow(h, rows, o))
           F == [p \in A \X (1 .. n) |-> Add(p[1], obs[p[2]])]
           Eq(g) == g = [T \in SUBSET (DOMAIN obs) |->
                            IF T = {} THEN <<>>
                            ELSE Add(g[T \ {Forecasts!Max(T)}], obs[Forecasts!Max(T)])]
<1>0. Forecasts!viterbi_table(h, obs) = (CHOOSE g : Eq(g))[DOMAIN obs]
  BY DEF Forecasts!viterbi_table, Forecasts!FoldLeft, Forecasts!MapThenFoldSet, NextRow, FirstRow
<1>1. DOMAIN obs = 1 .. n
  OBVIOUS
<1>2. <<>> \in A
  OBVIOUS
<1>3. ASSUME NEW rows \in A, NEW i \in 1 .. n
      PROVE  Add(rows, obs[i]) \in A
  <2>1. NextRow(h, rows, obs[i]) \in Rows
    BY NextRowTyped
  <2> QED
    BY <2>1
<1>4. /\ F \in [A \X (1 .. n) -> A]
      /\ \A rows \in A, i \in 1 .. n : F[<<rows, i>>] = Add(rows, obs[i])
  <2> HIDE DEF Add, A
  <2> QED
    BY <1>3
<1> HIDE DEF A, F, Add
<1>5. PICK sc : IsScan(sc, A, <<>>, F, n)
  BY <1>2, <1>4, ScanExists
<1>6. /\ \A T \in SUBSET (1 .. n) : T # {} => Max(T) \in 1 .. n
      /\ \A T : Forecasts!Max(T) = Max(T)
  <2>1. \A T \in SUBSET (1 .. n) : T # {} => Max(T) \in 1 .. n
    BY PrefixMax
  <2>2. \A T : Forecasts!Max(T) = Max(T)
    BY DEF Forecasts!Max, Max
  <2> QED
    BY <2>1, <2>2
<1>7. sc \in [SUBSET (1 .. n) -> A] /\ OnSubsets(sc, 1 .. n)
  BY <1>5 DEF IsScan, OnSubsets
<1>8. \A T \in SUBSET (1 .. n) :
         sc[T] = IF T = {} THEN <<>> ELSE Add(sc[T \ {Max(T)}], obs[Max(T)])
  <2> SUFFICES ASSUME NEW T \in SUBSET (1 .. n), T # {}
               PROVE  sc[T] = Add(sc[T \ {Max(T)}], obs[Max(T)])
    BY <1>5 DEF IsScan
  <2>1. sc[T] = F[<<sc[T \ {Max(T)}], Max(T)>>]
    BY <1>5 DEF IsScan
  <2>2. sc[T \ {Max(T)}] \in A /\ Max(T) \in 1 .. n
    BY <1>6, <1>7
  <2> QED
    BY <1>4, <2>1, <2>2
<1>9. Eq(sc)
  BY <1>1, <1>6, <1>7, <1>8 DEF OnSubsets
<1>10. ASSUME NEW g, Eq(g)
       PROVE  g = sc
  <2>1. OnSubsets(g, 1 .. n)
    BY <1>1, <1>10 DEF OnSubsets
  <2>2. \A T \in SUBSET (1 .. n) :
         g[T] = IF T = {} THEN <<>> ELSE Add(g[T \ {Max(T)}], obs[Max(T)])
    BY <1>1, <1>6, <1>10
  <2>3. \A T \in SUBSET (1 .. n) :
              (T # {} => g[T \ {Max(T)}] = sc[T \ {Max(T)}]) => g[T] = sc[T]
    BY <1>8, <2>2
  <2> QED
    BY <1>7, <2>1, <2>3, ScanUnique
<1>11. (CHOOSE g : Eq(g)) = sc
  <2> HIDE DEF Eq
  <2> QED
    BY <1>9, <1>10
<1>12. RowsTo(sc[1 .. 0], h, obs, 0)
  <2>1. sc[1 .. 0] = <<>>
    BY <1>5 DEF IsScan
  <2> QED
    BY <2>1 DEF RowsTo
<1>13. ASSUME NEW k \in 1 .. n, RowsTo(sc[1 .. k - 1], h, obs, k - 1)
       PROVE  RowsTo(sc[1 .. k], h, obs, k)
  <2>1. sc[1 .. k] = F[<<sc[1 .. k - 1], k>>] /\ sc[1 .. k - 1] \in A
    <3>1. 1 .. k - 1 \in SUBSET (1 .. n)
      OBVIOUS
    <3> QED
      BY <1>5, <1>7, <3>1 DEF IsScan
  <2>2. sc[1 .. k] = Add(sc[1 .. k - 1], obs[k])
    BY <1>4, <2>1
  <2> QED
    BY <1>13, <2>2, RowsStep DEF Add
<1>14. RowsTo(sc[1 .. n], h, obs, n)
  <2> DEFINE bad == {k \in 0 .. n : ~ RowsTo(sc[1 .. k], h, obs, k)}
  <2>1. bad = {}
    <3> SUFFICES ASSUME bad # {} PROVE FALSE
      OBVIOUS
    <3>1. bad \in SUBSET Nat
      OBVIOUS
    <3>2. PICK m \in bad : \A k \in bad : m <= k
      <4> HIDE DEF bad
      <4> QED
        BY <3>1, LeastNumber
    <3>3. m \in 1 .. n
      BY <1>12
    <3>4. m - 1 \in 0 .. n /\ ~ (m <= m - 1)
      BY <3>3
    <3>5. RowsTo(sc[1 .. m - 1], h, obs, m - 1)
      BY <3>2, <3>4
    <3> QED
      BY <1>13, <3>3, <3>5
  <2>2. n \in 0 .. n
    OBVIOUS
  <2> QED
    BY <2>1, <2>2
<1> QED
  BY <1>0, <1>1, <1>11, <1>14

\* The path behind the pointers of the rows from k on.
Backwards(way, s, best, m, k) ==
    /\ way \in Seq(Forecasts!States) /\ Len(way) = m - k + 2
    /\ way[m - k + 2] = best
    /\ \A t \in k .. m : way[t - k + 1] = s[t][way[t - k + 2]].back

\* One row further back.
Prepend(row, way) == <<row[way[1]].back>> \o way

\* The pointer of a row is put before the path.
LEMMA BackwardsStep ==
    ASSUME NEW s \in Seq(Rows), NEW best \in Forecasts!States, NEW k \in 1 .. Len(s), NEW way,
           Backwards(way, s, best, Len(s), k + 1)
    PROVE  Backwards(Prepend(s[k], way), s, best, Len(s), k)
<1> DEFINE m == Len(s)
           first == s[k][way[1]].back
           new == <<first>> \o way
<1>1. m \in Nat /\ k \in 1 .. m /\ s[k] \in Rows
  OBVIOUS
<1>2. /\ way \in Seq(Forecasts!States) /\ Len(way) = m - k + 1 /\ way[m - k + 1] = best
      /\ \A t \in k + 1 .. m : way[t - k] = s[t][way[t - k + 1]].back
  <2>1. /\ m - (k + 1) + 2 = m - k + 1
        /\ \A t \in k + 1 .. m : t - (k + 1) + 1 = t - k /\ t - (k + 1) + 2 = t - k + 1
    BY <1>1
  <2> QED
    BY <2>1 DEF Backwards
<1> HIDE DEF m
<1>3. way[1] \in Forecasts!States
  BY <1>1, <1>2
<1>4. first \in Forecasts!States
  BY <1>1, <1>3 DEF Rows
<1> HIDE DEF first
<1>5. /\ new \in Seq(Forecasts!States) /\ Len(new) = m - k + 2
      /\ new[1] = first /\ \A i \in 2 .. m - k + 2 : new[i] = way[i - 1]
  <2>1. <<first>> \in Seq(Forecasts!States) /\ Len(<<first>>) = 1 /\ <<first>>[1] = first
    BY <1>4
  <2>2. /\ new \in Seq(Forecasts!States) /\ Len(new) = 1 + Len(way)
        /\ \A i \in 1 .. 1 + Len(way) : new[i] = IF i <= 1 THEN <<first>>[i] ELSE way[i - 1]
    BY <1>2, <2>1, ConcatProperties
  <2> HIDE DEF new
  <2> QED
    BY <1>1, <1>2, <2>1, <2>2
<1> HIDE DEF new
<1>6. new[m - k + 2] = best
  BY <1>1, <1>2, <1>5
<1>7. ASSUME NEW t \in k .. m
      PROVE  new[t - k + 1] = s[t][new[t - k + 2]].back
  <2>1. CASE t = k
    <3>1. t - k + 1 = 1 /\ t - k + 2 = 2 /\ 2 \in 2 .. m - k + 2
      BY <1>1, <2>1
    <3>2. new[2] = way[1]
      BY <1>5, <3>1
    <3> QED
      BY <1>5, <2>1, <3>1, <3>2 DEF first
  <2>2. CASE t # k
    <3>1. /\ t - k + 1 \in 2 .. m - k + 2 /\ t - k + 2 \in 2 .. m - k + 2
          /\ (t - k + 1) - 1 = t - k /\ (t - k + 2) - 1 = t - k + 1 /\ t \in k + 1 .. m
      BY <1>1, <2>2
    <3>2. new[t - k + 1] = way[t - k] /\ new[t - k + 2] = way[t - k + 1]
      BY <1>5, <3>1
    <3> QED
      BY <1>2, <3>1, <3>2
  <2> QED
    BY <2>1, <2>2
<1>8. Prepend(s[k], way) = new
  BY DEF Prepend, new, first
<1> QED
  BY <1>5, <1>6, <1>7, <1>8 DEF Backwards, m

\* viterbi follows the pointers back from the best last state.
LEMMA BackwardsAll ==
    ASSUME NEW s \in Seq(Rows), NEW best \in Forecasts!States
    PROVE  Backwards(Forecasts!FoldRight(LAMBDA row, way : <<row[way[1]].back>> \o way,
                                         s, <<best>>), s, best, Len(s), 1)
<1> DEFINE m == Len(s)
           A == {way \in Seq(Forecasts!States) : way # <<>>}
           b == <<best>>
           F == [p \in A \X (1 .. m) |-> Prepend(s[p[2]], p[1])]
           Eq(g) == g = [T \in SUBSET (DOMAIN s) |->
                            IF T = {} THEN b
                            ELSE Prepend(s[Forecasts!Min(T)], g[T \ {Forecasts!Min(T)}])]
<1>0. Forecasts!FoldRight(LAMBDA row, way : <<row[way[1]].back>> \o way, s, b)
        = (CHOOSE g : Eq(g))[DOMAIN s]
  BY DEF Forecasts!FoldRight, Forecasts!MapThenFoldSet, Prepend
<1>1. m \in Nat /\ DOMAIN s = 1 .. m /\ \A i \in 1 .. m : s[i] \in Rows
  OBVIOUS
<1> HIDE DEF m
<1>2. b \in A /\ Backwards(b, s, best, m, m + 1)
  <2>1. b \in Seq(Forecasts!States) /\ Len(b) = 1 /\ b[1] = best /\ b # <<>>
    OBVIOUS
  <2>2. m - (m + 1) + 2 = 1 /\ m + 1 .. m = {}
    BY <1>1
  <2> HIDE DEF b
  <2> QED
    BY <2>1, <2>2 DEF Backwards
<1>3. ASSUME NEW way \in A, NEW i \in 1 .. m
      PROVE  Prepend(s[i], way) \in A
  <2>1. way \in Seq(Forecasts!States) /\ way[1] \in Forecasts!States
    OBVIOUS
  <2>2. s[i][way[1]].back \in Forecasts!States
    BY <1>1, <2>1 DEF Rows
  <2> DEFINE one == <<s[i][way[1]].back>>
  <2>3. one \in Seq(Forecasts!States) /\ Len(one) = 1
    BY <2>2
  <2> HIDE DEF one
  <2>4. one \o way \in Seq(Forecasts!States) /\ Len(one \o way) = 1 + Len(way) /\ Len(way) \in Nat
    <3>1. Len(way) \in Nat
      BY <2>1
    <3>2. one \o way \in Seq(Forecasts!States)
      BY <2>1, <2>3, ConcatProperties
    <3>3. Len(one \o way) = Len(one) + Len(way)
      BY <2>1, <2>3, ConcatProperties
    <3> QED
      BY <2>3, <3>1, <3>2, <3>3
  <2>5. one \o way # <<>>
    BY <2>4
  <2> QED
    BY <2>4, <2>5 DEF Prepend, one
<1>4. /\ F \in [A \X (1 .. m) -> A]
      /\ \A way \in A, i \in 1 .. m : F[<<way, i>>] = Prepend(s[i], way)
  <2> HIDE DEF A
  <2> QED
    BY <1>3
<1> HIDE DEF A, F, b
<1>5. PICK sc : IsScanBack(sc, A, b, F, m)
  BY <1>1, <1>2, <1>4, ScanBackExists
<1>6. /\ \A T \in SUBSET (1 .. m) : T # {} => Min(T) \in 1 .. m
      /\ \A T : Forecasts!Min(T) = Min(T)
  <2>1. \A T \in SUBSET (1 .. m) : T # {} => Min(T) \in 1 .. m
    BY <1>1, SuffixMin
  <2>2. \A T : Forecasts!Min(T) = Min(T)
    BY DEF Forecasts!Min, Min
  <2> QED
    BY <2>1, <2>2
<1>7. sc \in [SUBSET (1 .. m) -> A] /\ OnSubsets(sc, 1 .. m)
  BY <1>5 DEF IsScanBack, OnSubsets
<1>8. \A T \in SUBSET (1 .. m) :
         sc[T] = IF T = {} THEN b ELSE Prepend(s[Min(T)], sc[T \ {Min(T)}])
  <2> SUFFICES ASSUME NEW T \in SUBSET (1 .. m), T # {}
               PROVE  sc[T] = Prepend(s[Min(T)], sc[T \ {Min(T)}])
    BY <1>5 DEF IsScanBack
  <2>1. sc[T] = F[<<sc[T \ {Min(T)}], Min(T)>>]
    BY <1>5 DEF IsScanBack
  <2>2. sc[T \ {Min(T)}] \in A /\ Min(T) \in 1 .. m
    BY <1>6, <1>7
  <2> QED
    BY <1>4, <2>1, <2>2
<1>9. Eq(sc)
  BY <1>1, <1>6, <1>7, <1>8 DEF OnSubsets
<1>10. ASSUME NEW g, Eq(g)
       PROVE  g = sc
  <2>1. OnSubsets(g, 1 .. m)
    BY <1>1, <1>10 DEF OnSubsets
  <2>2. \A T \in SUBSET (1 .. m) :
         g[T] = IF T = {} THEN b ELSE Prepend(s[Min(T)], g[T \ {Min(T)}])
    BY <1>1, <1>6, <1>10
  <2>3. \A T \in SUBSET (1 .. m) :
              (T # {} => g[T \ {Min(T)}] = sc[T \ {Min(T)}]) => g[T] = sc[T]
    BY <1>8, <2>2
  <2> QED
    BY <1>1, <1>7, <2>1, <2>3, ScanBackUnique
<1>11. (CHOOSE g : Eq(g)) = sc
  <2> HIDE DEF Eq
  <2> QED
    BY <1>9, <1>10
<1>12. ASSUME NEW k \in 1 .. m, Backwards(sc[k + 1 .. m], s, best, m, k + 1)
       PROVE  Backwards(sc[k .. m], s, best, m, k)
  <2>1. sc[k .. m] = F[<<sc[k + 1 .. m], k>>] /\ sc[k + 1 .. m] \in A
    <3>1. k + 1 .. m \in SUBSET (1 .. m)
      BY <1>1
    <3> QED
      BY <1>5, <1>7, <3>1 DEF IsScanBack
  <2>2. sc[k .. m] = Prepend(s[k], sc[k + 1 .. m])
    BY <1>4, <2>1
  <2> QED
    BY <1>12, <2>2, BackwardsStep DEF m
<1>13. Backwards(sc[1 .. m], s, best, m, 1)
  <2> DEFINE done(j) == Backwards(sc[m - j + 1 .. m], s, best, m, m - j + 1)
             bad == {j \in 0 .. m : ~ done(j)}
  <2>1. done(0)
    <3>1. m - 0 + 1 = m + 1 /\ sc[m + 1 .. m] = b
      BY <1>1, <1>5 DEF IsScanBack
    <3> QED
      BY <1>2, <3>1
  <2>2. ASSUME NEW j \in 1 .. m, done(j - 1)
        PROVE  done(j)
    <3> DEFINE k == m - j + 1
    <3>1. k \in 1 .. m /\ m - (j - 1) + 1 = k + 1
      BY <1>1
    <3>2. Backwards(sc[k + 1 .. m], s, best, m, k + 1)
      BY <2>2, <3>1
    <3> QED
      BY <1>12, <3>1, <3>2
  <2> HIDE DEF done
  <2>3. bad = {}
    <3> SUFFICES ASSUME bad # {} PROVE FALSE
      OBVIOUS
    <3>1. bad \in SUBSET Nat
      BY <1>1
    <3>2. PICK j \in bad : \A i \in bad : j <= i
      <4> HIDE DEF bad
      <4> QED
        BY <3>1, LeastNumber
    <3>3. j \in 1 .. m
      BY <1>1, <2>1
    <3>4. j - 1 \in 0 .. m /\ ~ (j <= j - 1)
      BY <1>1, <3>3
    <3>5. done(j - 1)
      BY <3>2, <3>4
    <3> QED
      BY <2>2, <3>3, <3>5
  <2>4. m \in 0 .. m /\ m - m + 1 = 1
    BY <1>1
  <2>5. done(m)
    BY <2>3, <2>4
  <2> QED
    BY <2>4, <2>5 DEF done
<1> QED
  BY <1>0, <1>1, <1>11, <1>13 DEF b, m

\* What a path's step t adds to its score.
StepWeight(way, t) == IF t = 1 THEN hmm.start[way[1]] ELSE hmm.trans[way[t - 1]][way[t]]

\* The scores of a path's beginnings.
IsScore(ps, way, obs, n) ==
    /\ ps \in [0 .. n -> Nat] /\ ps[0] = 1
    /\ \A t \in 1 .. n : ps[t] = ps[t - 1] * Emission[way[t]][obs[t]] * StepWeight(way, t)

\* PathScore is the score of the whole path.
LEMMA ScoreAll ==
    ASSUME hmm \in Hmms, NEW n \in Nat, NEW obs \in [1 .. n -> Symbols],
           NEW way \in [1 .. n -> Forecasts!States]
    PROVE  \E ps : IsScore(ps, way, obs, n) /\ Forecasts!PathScore(way, obs) = ps[n]
<1> DEFINE W(a, t) == a * Emission[way[t]][obs[t]] * StepWeight(way, t)
           F == [p \in Nat \X (1 .. n) |-> W(p[1], p[2])]
           id == [i \in DOMAIN way |-> i]
           Eq(g) == g = [T \in SUBSET (DOMAIN id) |->
                            IF T = {} THEN 1
                            ELSE W(g[T \ {Forecasts!Max(T)}], id[Forecasts!Max(T)])]
<1>0. Forecasts!PathScore(way, obs) = (CHOOSE g : Eq(g))[DOMAIN id]
  BY DEF Forecasts!PathScore, Forecasts!FoldLeftDomain, Forecasts!FoldLeft,
         Forecasts!MapThenFoldSet, StepWeight
<1>1. ASSUME NEW a \in Nat, NEW t \in 1 .. n
      PROVE  W(a, t) \in Nat
  <2>1. way[t] \in Forecasts!States /\ obs[t] \in Symbols
    OBVIOUS
  <2>2. Emission[way[t]][obs[t]] \in Nat
    BY <2>1, EmissionTyped
  <2>3. StepWeight(way, t) \in Nat
    <3>1. CASE t = 1
      <4>1. way[1] \in Forecasts!States
        BY <2>1, <3>1
      <4>2. hmm.start[way[1]] \in Nat
        BY <4>1 DEF Hmms
      <4> QED
        BY <3>1, <4>2 DEF StepWeight
    <3>2. CASE t # 1
      <4>1. t - 1 \in 1 .. n
        BY <3>2
      <4>2. way[t - 1] \in Forecasts!States
        BY <4>1
      <4>3. hmm.trans[way[t - 1]][way[t]] \in Nat
        BY <2>1, <4>2 DEF Hmms, Matrices
      <4> QED
        BY <3>2, <4>3 DEF StepWeight
    <3> QED
      BY <3>1, <3>2
  <2> QED
    BY <2>2, <2>3
<1>2. /\ F \in [Nat \X (1 .. n) -> Nat]
      /\ \A a \in Nat, t \in 1 .. n : F[<<a, t>>] = W(a, t)
  <2> HIDE DEF W
  <2> QED
    BY <1>1
<1> HIDE DEF F, W
<1>3. PICK sc : IsScan(sc, Nat, 1, F, n)
  BY <1>2, ScanExists
<1>4. /\ DOMAIN id = 1 .. n
      /\ \A T \in SUBSET (1 .. n) :
            T # {} => Max(T) \in 1 .. n /\ id[Forecasts!Max(T)] = Max(T)
      /\ \A T : Forecasts!Max(T) = Max(T)
  <2>1. DOMAIN id = 1 .. n /\ \A i \in 1 .. n : id[i] = i
    OBVIOUS
  <2>2. \A T \in SUBSET (1 .. n) : T # {} => Max(T) \in 1 .. n
    BY PrefixMax
  <2>3. \A T : Forecasts!Max(T) = Max(T)
    BY DEF Forecasts!Max, Max
  <2> QED
    BY <2>1, <2>2, <2>3
<1> HIDE DEF id
<1>5. sc \in [SUBSET (1 .. n) -> Nat] /\ OnSubsets(sc, 1 .. n)
  BY <1>3 DEF IsScan, OnSubsets
<1>6. \A T \in SUBSET (1 .. n) :
         sc[T] = IF T = {} THEN 1 ELSE W(sc[T \ {Max(T)}], Max(T))
  <2> SUFFICES ASSUME NEW T \in SUBSET (1 .. n), T # {}
               PROVE  sc[T] = W(sc[T \ {Max(T)}], Max(T))
    BY <1>3 DEF IsScan
  <2>1. sc[T] = F[<<sc[T \ {Max(T)}], Max(T)>>]
    BY <1>3 DEF IsScan
  <2>2. sc[T \ {Max(T)}] \in Nat /\ Max(T) \in 1 .. n
    BY <1>4, <1>5
  <2> QED
    BY <1>2, <2>1, <2>2
<1>7. Eq(sc)
  BY <1>4, <1>5, <1>6 DEF OnSubsets
<1>8. ASSUME NEW g, Eq(g)
      PROVE  g = sc
  <2>1. OnSubsets(g, 1 .. n)
    BY <1>4, <1>8 DEF OnSubsets
  <2>2. \A T \in SUBSET (1 .. n) : g[T] = IF T = {} THEN 1 ELSE W(g[T \ {Max(T)}], Max(T))
    BY <1>4, <1>8
  <2>3. \A T \in SUBSET (1 .. n) :
              (T # {} => g[T \ {Max(T)}] = sc[T \ {Max(T)}]) => g[T] = sc[T]
    BY <1>6, <2>2
  <2> QED
    BY <1>5, <2>1, <2>3, ScanUnique
<1>9. (CHOOSE g : Eq(g)) = sc
  <2> HIDE DEF Eq
  <2> QED
    BY <1>7, <1>8
<1> DEFINE ps == [k \in 0 .. n |-> sc[1 .. k]]
<1>10. \A k \in 0 .. n : sc[1 .. k] \in Nat
  <2>1. \A k \in 0 .. n : 1 .. k \in SUBSET (1 .. n)
    OBVIOUS
  <2> QED
    BY <1>5, <2>1
<1>11. ps \in [0 .. n -> Nat] /\ ps[0] = 1 /\ ps[n] = sc[1 .. n]
  <2>1. sc[1 .. 0] = 1
    BY <1>3 DEF IsScan
  <2> QED
    BY <1>10, <2>1
<1>12. ASSUME NEW t \in 1 .. n
       PROVE  ps[t] = W(ps[t - 1], t)
  <2>1. t \in 0 .. n /\ t - 1 \in 0 .. n
    OBVIOUS
  <2>2. sc[1 .. t] = F[<<sc[1 .. t - 1], t>>]
    BY <1>3 DEF IsScan
  <2> QED
    BY <1>2, <1>10, <2>1, <2>2
<1> HIDE DEF ps
<1>13. IsScore(ps, way, obs, n)
  BY <1>11, <1>12 DEF IsScore, W
<1> QED
  BY <1>0, <1>4, <1>9, <1>11, <1>13
\* One row: no path into a state scores more than the table says, and the path along the pointer
\* scores just that.
LEMMA RowStep ==
    ASSUME hmm \in Hmms, NEW prev \in Rows, NEW o \in Symbols,
           NEW p \in Forecasts!States, NEW s \in Forecasts!States, NEW a \in Nat
    PROVE  LET row == Forecasts!ViterbiRow(hmm, prev, o)
               new == a * Emission[s][o] * hmm.trans[p][s]
           IN  /\ a <= prev[p].score => new <= row[s].score
               /\ a = prev[p].score /\ p = row[s].back => new = row[s].score
<1> DEFINE row == Forecasts!ViterbiRow(hmm, prev, o)
           e == Emission[s][o]
           w == hmm.trans[p][s]
           q == row[s].back
           c == prev[q].score * hmm.trans[q][s]
           d == prev[p].score
<1>1. /\ row \in Rows /\ row[s].score = c * e /\ d * w <= c
  BY RowFacts
<1>2. e \in Nat /\ w \in Nat /\ d \in Nat
  <2>1. e \in Nat
    BY EmissionTyped
  <2>2. w \in Nat
    BY DEF Hmms, Matrices
  <2>3. d \in Nat
    BY DEF Rows
  <2> QED
    BY <2>1, <2>2, <2>3
<1>3. q \in Forecasts!States
  BY <1>1 DEF Rows
<1>4. c \in Nat
  <2>1. prev[q].score \in Nat
    BY <1>3 DEF Rows
  <2>2. hmm.trans[q][s] \in Nat
    BY <1>3 DEF Hmms, Matrices
  <2> QED
    BY <2>1, <2>2
<1>5. p = q => c = d * w
  OBVIOUS
<1> HIDE DEF row, e, w, q, c, d
<1>6. (a * e) * w = (a * w) * e
  BY <1>2, Products
<1>7. a * w \in Nat /\ d * w \in Nat
  BY <1>2
<1>8. ASSUME a <= d
      PROVE  (a * e) * w <= c * e
  <2>1. a * w <= d * w
    BY <1>2, <1>8, LargerProduct
  <2>2. a * w <= c
    BY <1>1, <1>4, <1>7, <2>1
  <2>3. (a * w) * e <= c * e
    BY <1>2, <1>4, <1>7, <2>2, LargerProduct
  <2> QED
    BY <1>6, <2>3
<1>9. ASSUME a = d, p = q
      PROVE  (a * e) * w = c * e
  BY <1>5, <1>6, <1>9
<1> QED
  BY <1>1, <1>8, <1>9 DEF row, e, w, q, c, d

\* The rows, one by one.
LEMMA RowsTyped ==
    ASSUME NEW h, NEW n \in Nat, NEW obs, NEW rows, RowsTo(rows, h, obs, n)
    PROVE  /\ \A t \in 1 .. n : rows[t] \in Rows
           /\ 1 \in 1 .. n => rows[1] = FirstRow(h, obs[1])
           /\ \A t \in 2 .. n : rows[t] = Forecasts!ViterbiRow(h, rows[t - 1], obs[t])
<1>1. rows \in Seq(Rows) /\ Len(rows) = n
  BY DEF RowsTo
<1>2. \A t \in 1 .. n : rows[t] \in Rows
  BY <1>1
<1>3. \A t \in 1 .. n : rows[t] = IF t = 1 THEN FirstRow(h, obs[1])
                                  ELSE Forecasts!ViterbiRow(h, rows[t - 1], obs[t])
  BY DEF RowsTo
<1> QED
  BY <1>2, <1>3

\* The path goes along the pointers of the rows.
Follows(way, rows, n) == \A u \in 2 .. n : way[u - 1] = rows[u][way[u]].back

\* No beginning of a path scores more than the table says of its last state.
LEMMA NoneBetter ==
    ASSUME hmm \in Hmms, NEW n \in Nat, NEW obs \in [1 .. n -> Symbols],
           NEW way \in [1 .. n -> Forecasts!States],
           NEW rows, RowsTo(rows, hmm, obs, n), NEW ps, IsScore(ps, way, obs, n)
    PROVE  \A t \in 1 .. n : /\ ps[t] <= rows[t][way[t]].score
                             /\ Follows(way, rows, n) => ps[t] = rows[t][way[t]].score
<1> DEFINE ok(t) == /\ ps[t] <= rows[t][way[t]].score
                    /\ Follows(way, rows, n) => ps[t] = rows[t][way[t]].score
           bad == {t \in 1 .. n : ~ ok(t)}
<1>1. ASSUME 1 \in 1 .. n
      PROVE  ok(1)
  <2> DEFINE e == Emission[way[1]][obs[1]]
             w == hmm.start[way[1]]
  <2>1. way[1] \in Forecasts!States /\ obs[1] \in Symbols
    BY <1>1
  <2>2. e \in Nat /\ w \in Nat
    BY <2>1, EmissionTyped DEF Hmms
  <2>3. rows[1][way[1]].score = w * e
    <3>1. rows[1] = FirstRow(hmm, obs[1])
      BY <1>1 DEF RowsTo
    <3> QED
      BY <2>1, <3>1 DEF FirstRow
  <2>4. ps[1] = ps[1 - 1] * e * StepWeight(way, 1)
    BY <1>1 DEF IsScore
  <2>5. ps[1 - 1] = 1 /\ StepWeight(way, 1) = w
    BY DEF IsScore, StepWeight
  <2> HIDE DEF e, w
  <2>6. ps[1] = w * e /\ w * e \in Nat
    BY <2>2, <2>4, <2>5
  <2> QED
    BY <2>3, <2>6
<1>2. ASSUME NEW t \in 2 .. n, ok(t - 1)
      PROVE  ok(t)
  <2>1. t - 1 \in 1 .. n /\ t \in 1 .. n /\ t - 1 \in 0 .. n /\ t # 1
    OBVIOUS
  <2>2. /\ rows[t - 1] \in Rows /\ obs[t] \in Symbols /\ ps[t - 1] \in Nat
        /\ way[t - 1] \in Forecasts!States /\ way[t] \in Forecasts!States
    BY <2>1, RowsTyped DEF IsScore
  <2>3. rows[t] = Forecasts!ViterbiRow(hmm, rows[t - 1], obs[t])
    BY RowsTyped
  <2>4. ps[t] = ps[t - 1] * Emission[way[t]][obs[t]] * hmm.trans[way[t - 1]][way[t]]
    BY <2>1 DEF IsScore, StepWeight
  <2>5. Follows(way, rows, n) => way[t - 1] = rows[t][way[t]].back
    BY DEF Follows
  <2> QED
    BY <1>2, <2>2, <2>3, <2>4, <2>5, RowStep
<1> HIDE DEF ok
<1>3. bad = {}
  <2> SUFFICES ASSUME bad # {} PROVE FALSE
    OBVIOUS
  <2>1. bad \in SUBSET Nat
    OBVIOUS
  <2>2. PICK t \in bad : \A i \in bad : t <= i
    <3> HIDE DEF bad
    <3> QED
      BY <2>1, LeastNumber
  <2>3. t \in 2 .. n
    <3>1. t \in 1 .. n /\ t # 1
      BY <1>1
    <3> QED
      BY <3>1
  <2>4. t - 1 \in 1 .. n /\ ~ (t <= t - 1)
    BY <2>3
  <2>5. ok(t - 1)
    BY <2>2, <2>4
  <2> QED
    BY <1>2, <2>3, <2>5
<1> QED
  BY <1>3 DEF ok

\* Viterbi is optimal for whatever model of whole weights, and the HMM's current state is where
\* its path ends.
LEMMA LikeliestPath ==
    ASSUME hmm \in Hmms, NEW obs \in [1 .. Horizon -> Symbols]
    PROVE  LET best == Forecasts!viterbi(hmm, obs)
           IN  /\ \A way \in [1 .. Horizon -> Forecasts!States] :
                     Forecasts!PathScore(way, obs) <= Forecasts!PathScore(best, obs)
               /\ obs # <<>> /\ Forecasts!predict(hmm, obs) = best[Horizon]
               /\ best[Horizon] \in Forecasts!States
<1> DEFINE n    == Horizon
           S    == Forecasts!States
           rows == Forecasts!viterbi_table(hmm, obs)
           last == [s \in S |-> Forecasts!Last(rows)[s].score]
           top  == Forecasts!argmax(last)
           best == Forecasts!viterbi(hmm, obs)
<1>1. n \in Nat \ {0} /\ obs # <<>>
  <2>1. n \in Nat \ {0}
    BY StagesAssumed DEF Forecasts!StagesAssumption
  <2>2. DOMAIN obs = 1 .. n /\ 1 \in 1 .. n
    BY <2>1
  <2> QED
    BY <2>1, <2>2
<1>2. best = Forecasts!FoldRight(LAMBDA row, way : <<row[way[1]].back>> \o way,
                                 Tail(rows), <<top>>)
  BY <1>1 DEF Forecasts!viterbi
<1> HIDE DEF n
<1>3. RowsTo(rows, hmm, obs, n)
  BY <1>1, RowsAll DEF n
<1> HIDE DEF rows
<1>4. rows \in Seq(Rows) /\ Len(rows) = n /\ Forecasts!Last(rows) = rows[n] /\ rows[n] \in Rows
  BY <1>1, <1>3 DEF RowsTo, Forecasts!Last
<1>5. last \in [S -> Nat] /\ \A s \in S : last[s] = rows[n][s].score
  BY <1>4 DEF Rows
<1> HIDE DEF last
<1>6. top \in S /\ \A s \in S : rows[n][s].score <= rows[n][top].score
  <2>1. top \in S /\ \A s \in S : last[s] <= last[top]
    BY <1>5, FewStates, ArgmaxFacts
  <2> QED
    BY <1>5, <2>1
<1> HIDE DEF top
<1>7. /\ Tail(rows) \in Seq(Rows) /\ Len(Tail(rows)) = n - 1
      /\ \A t \in 1 .. n - 1 : Tail(rows)[t] = rows[t + 1]
  BY <1>1, <1>4
<1>8. Backwards(best, Tail(rows), top, n - 1, 1)
  <2> DEFINE s == Tail(rows)
  <2>1. s \in Seq(Rows) /\ Len(s) = n - 1
    BY <1>7
  <2> HIDE DEF s, best
  <2>2. best = Forecasts!FoldRight(LAMBDA row, way : <<row[way[1]].back>> \o way, s, <<top>>)
    BY <1>2 DEF s
  <2>3. Backwards(best, s, top, Len(s), 1)
    BY <1>6, <2>1, <2>2, BackwardsAll
  <2> QED
    BY <2>1, <2>3 DEF s
<1> HIDE DEF best
<1>9. /\ best \in Seq(S) /\ Len(best) = n /\ best[n] = top /\ best \in [1 .. n -> S]
      /\ Follows(best, rows, n)
  <2>1. n - 1 - 1 + 2 = n /\ \A t \in 1 .. n - 1 : t - 1 + 1 = t /\ t - 1 + 2 = t + 1
    BY <1>1
  <2>2. /\ best \in Seq(S) /\ Len(best) = n /\ best[n] = top
        /\ \A t \in 1 .. n - 1 : best[t] = Tail(rows)[t][best[t + 1]].back
    BY <1>8, <2>1 DEF Backwards
  <2>3. ASSUME NEW u \in 2 .. n
        PROVE  best[u - 1] = rows[u][best[u]].back
    <3>1. u - 1 \in 1 .. n - 1 /\ (u - 1) + 1 = u
      BY <1>1
    <3> QED
      BY <1>7, <2>2, <3>1
  <2> QED
    BY <2>2, <2>3 DEF Follows
<1>10. ASSUME NEW way \in [1 .. n -> S]
       PROVE  Forecasts!PathScore(way, obs) <= Forecasts!PathScore(best, obs)
  <2>1. n \in Nat /\ obs \in [1 .. n -> Symbols] /\ n \in 1 .. n /\ way[n] \in S
    BY <1>1 DEF n
  <2>2. PICK ps : IsScore(ps, way, obs, n) /\ Forecasts!PathScore(way, obs) = ps[n]
    BY <2>1, ScoreAll
  <2>3. PICK bs : IsScore(bs, best, obs, n) /\ Forecasts!PathScore(best, obs) = bs[n]
    BY <1>9, <2>1, ScoreAll
  <2>4. ps[n] <= rows[n][way[n]].score
    BY <1>3, <2>1, <2>2, NoneBetter
  <2>5. bs[n] = rows[n][top].score
    <3>1. bs[n] = rows[n][best[n]].score
      BY <1>3, <1>9, <2>1, <2>3, NoneBetter
    <3> QED
      BY <1>9, <3>1
  <2>6. ps[n] \in Nat /\ rows[n][way[n]].score \in Nat /\ rows[n][top].score \in Nat
    <3>1. n \in 0 .. n
      BY <2>1
    <3> QED
      BY <1>4, <1>6, <2>1, <2>2, <3>1 DEF IsScore, Rows
  <2>7. rows[n][way[n]].score <= rows[n][top].score
    BY <1>6, <2>1
  <2> QED
    BY <2>2, <2>3, <2>4, <2>5, <2>6, <2>7
<1>11. Forecasts!predict(hmm, obs) = best[n]
  BY <1>1, <1>9 DEF Forecasts!predict, Forecasts!Last, best
<1> QED
  BY <1>1, <1>6, <1>9, <1>10, <1>11 DEF n, best

\* The inductive invariant of the fitted models: whatever the labels, whole weights.
ModelsInv == scores \in Seq(Scores) /\ hmm \in Hmms /\ markov \in Matrices /\ SameSums(markov)

\* get_all_sequences cuts labels into sequences of labels.
LEMMA SequencesTyped ==
    ASSUME NEW l \in Seq(0 .. 4)
    PROVE  Forecasts!get_all_sequences(l, 4, 2) \in Seq(Seq(0 .. 4))
<1> DEFINE n == Len(l)
           cut(i) == SubSeq(l, i, i + 4 - 1)
           all == [i \in 1 .. n - 4 + 1 |-> cut(i)]
<1>1. n \in Nat
  OBVIOUS
<1>2. ASSUME NEW i \in 1 .. n - 4 + 1
      PROVE  cut(i) \in Seq(0 .. 4)
  <2>1. \A k \in i .. i + 4 - 1 : l[k] \in 0 .. 4
    BY <1>1
  <2> QED
    BY <1>1, <2>1, SubSeqProperties
<1> HIDE DEF cut, n
<1>3. all \in Seq(Seq(0 .. 4))
  <2>1. CASE n - 4 + 1 \in Nat
    <3> DEFINE m == n - 4 + 1
    <3>1. all \in [1 .. m -> Seq(0 .. 4)]
      BY <1>2
    <3> QED
      BY <2>1, <3>1
  <2>2. CASE n - 4 + 1 \notin Nat
    <3>1. 1 .. n - 4 + 1 = {}
      BY <1>1, <2>2
    <3>2. all = <<>>
      BY <3>1
    <3> HIDE DEF all
    <3> QED
      BY <3>2
  <2> QED
    BY <2>1, <2>2
<1>4. Forecasts!get_all_sequences(l, 4, 2) = IF n < 2 THEN <<>> ELSE all
  BY DEF Forecasts!get_all_sequences, n, cut
<1> HIDE DEF all
<1>5. <<>> \in Seq(Seq(0 .. 4))
  OBVIOUS
<1> QED
  BY <1>3, <1>4, <1>5

\* The two fits give models of whole weights at every step.
LEMMA ModelsInvariant == Forecasts!Spec => []ModelsInv
<1> USE StagesAssumed DEF Forecasts!StagesAssumption
<1>1. Forecasts!Init => ModelsInv
  <2>1. <<>> \in Seq(Seq(0 .. 4)) /\ <<>> \in Seq(Scores)
    OBVIOUS
  <2> QED
    BY <2>1, FitFacts DEF Forecasts!Init, ModelsInv
<1>2. ModelsInv /\ [Forecasts!Next]_(Forecasts!vars) => ModelsInv'
  <2> SUFFICES ASSUME ModelsInv, [Forecasts!Next]_(Forecasts!vars)
               PROVE  ModelsInv'
    OBVIOUS
  <2>1. ASSUME NEW score \in Scores, Forecasts!Observe(score)
        PROVE  ModelsInv'
    <3>1. scores' \in Seq(Scores) /\ scores' \in Seq(Int)
      <4>1. scores \in Seq(Scores) /\ scores' = Append(scores, score)
        BY <2>1 DEF ModelsInv, Forecasts!Observe
      <4>2. Scores \subseteq Int
        OBVIOUS
      <4>3. scores' \in Seq(Scores)
        BY <4>1
      <4> QED
        BY <4>2, <4>3
    <3>2. labels' \in Seq(0 .. 4)
      <4>1. labels' \in [1 .. Len(scores') -> 0 .. 4] /\ Len(scores') \in Nat
        BY <2>1, <3>1, LabelSequence DEF Forecasts!Observe
      <4> QED
        BY <4>1
    <3> DEFINE l == labels'
               one == <<l>>
               all == Forecasts!get_all_sequences(l, 4, 2)
    <3>3. one \in Seq(Seq(0 .. 4)) /\ all \in Seq(Seq(0 .. 4))
      BY <3>2, SequencesTyped
    <3>4. hmm' = Forecasts!fit_hmm(one) /\ markov' = Forecasts!fit_markov(all)
      BY <2>1 DEF Forecasts!Observe, Forecasts!from_state_store
    <3> HIDE DEF one, all
    <3> QED
      BY <3>1, <3>3, <3>4, FitFacts DEF ModelsInv, Hmms, Matrices, SameSums
  <2>2. CASE UNCHANGED Forecasts!vars
    BY <2>2 DEF ModelsInv, Forecasts!vars, Hmms, Matrices, SameSums
  <2> QED
    BY <2>1, <2>2 DEF Forecasts!Next
<1> QED
  BY <1>1, <1>2, PTL DEF Forecasts!Spec

----------------------------------------------------------------------------
\* The Markov chain's trajectories.

\* Distributions as whole weights.
Vectors == [Forecasts!States -> Nat]

\* The sums of this model's copy of Functions are those of DataTheorems.
LEMMA SameSum == \A f : /\ Forecasts!SumFunction(f) = SumFunctionOnSet(f, DOMAIN f)
                        /\ \A S : Forecasts!SumFunctionOnSet(f, S) = SumFunctionOnSet(f, S)
BY DEF Forecasts!SumFunction, Forecasts!SumFunctionOnSet, SumFunctionOnSet,
       Forecasts!FoldFunctionOnSet, FoldFunctionOnSet, Forecasts!MapThenFoldSet, MapThenFoldSet

\* What comes to state j from each state.
Comes(m, v, j) == [i \in Forecasts!States |-> v[i] * m[i][j]]

\* A step of the chain, state by state.
LEMMA ProjectFacts ==
    ASSUME NEW m \in Matrices, NEW v \in Vectors
    PROVE  /\ Forecasts!Project(m, v) \in Vectors
           /\ \A j \in Forecasts!States :
                /\ Numbers(Comes(m, v, j), Forecasts!States)
                /\ Forecasts!Project(m, v)[j] = SumFunctionOnSet(Comes(m, v, j), Forecasts!States)
<1> DEFINE S == Forecasts!States
<1>1. IsFiniteSet(S)
  BY FewStates
<1>2. ASSUME NEW j \in S
      PROVE  /\ Comes(m, v, j) \in [S -> Nat] /\ Numbers(Comes(m, v, j), S)
             /\ SumFunctionOnSet(Comes(m, v, j), S) \in Nat
  <2>1. \A i \in S : v[i] * m[i][j] \in Nat
    <3>1. \A i \in S : v[i] \in Nat /\ m[i][j] \in Nat
      BY DEF Vectors, Matrices
    <3> QED
      BY <3>1
  <2>2. Comes(m, v, j) \in [S -> Nat]
    BY <2>1 DEF Comes
  <2>3. Numbers(Comes(m, v, j), S) /\ S \in SUBSET S
    BY <2>2 DEF Numbers
  <2> HIDE DEF S
  <2> QED
    BY <1>1, <2>2, <2>3, SumNumber
<1>3. Forecasts!Project(m, v) = [j \in S |-> Forecasts!SumFunction(Comes(m, v, j))]
  BY DEF Forecasts!Project, Comes
<1>4. ASSUME NEW j \in S
      PROVE  Forecasts!SumFunction(Comes(m, v, j)) = SumFunctionOnSet(Comes(m, v, j), S)
  BY <1>2, SameSum
<1> HIDE DEF S
<1>5. Forecasts!Project(m, v) \in [S -> Nat]
  BY <1>2, <1>3, <1>4
<1> QED
  BY <1>2, <1>3, <1>4, <1>5 DEF S, Vectors

\* Where the chain starts.
LEMMA StartTyped ==
    ASSUME NEW s \in Forecasts!States
    PROVE  /\ Forecasts!OneHot(s) \in Vectors
           /\ SumFunctionOnSet(Forecasts!OneHot(s), Forecasts!States) = 1
<1> DEFINE S == Forecasts!States
           v == Forecasts!OneHot(s)
<1>1. v \in [S -> Nat] /\ v[s] = 1 /\ \A i \in S \ {s} : v[i] = 0
  BY DEF Forecasts!OneHot
<1>2. IsFiniteSet(S) /\ Numbers(v, S) /\ IsFiniteSet(S \ {s})
  BY <1>1, FewStates, FS_Subset DEF Numbers
<1> HIDE DEF v, S
<1>3. SumFunctionOnSet(v, S) = v[s] + SumFunctionOnSet(v, S \ {s})
  BY <1>2, SumStep DEF S
<1>4. SumFunctionOnSet(v, S \ {s}) = 0
  BY <1>1, <1>2, SumZero
<1> QED
  BY <1>1, <1>3, <1>4 DEF Vectors, v, S

\* The distributions of the first k steps.
AheadTo(a, m, s, k) ==
    /\ a \in Seq(Vectors) /\ Len(a) = k
    /\ \A t \in 1 .. k : a[t] = Forecasts!Project(m, IF t = 1 THEN Forecasts!OneHot(s) ELSE a[t - 1])

\* What predict_trajectory_proba adds.
Further(m, s, a) ==
    Forecasts!Project(m, IF a = <<>> THEN Forecasts!OneHot(s) ELSE Forecasts!Last(a))

\* It is a distribution.
LEMMA FurtherTyped ==
    ASSUME NEW m \in Matrices, NEW s \in Forecasts!States, NEW a \in Seq(Vectors)
    PROVE  Further(m, s, a) \in Vectors
<1>1. CASE a = <<>>
  BY <1>1, StartTyped, ProjectFacts DEF Further
<1>2. CASE a # <<>>
  <2>1. Forecasts!Last(a) \in Vectors
    BY <1>2 DEF Forecasts!Last
  <2> QED
    BY <1>2, <2>1, ProjectFacts DEF Further
<1> QED
  BY <1>1, <1>2

\* One step more.
LEMMA AheadStep ==
    ASSUME NEW m \in Matrices, NEW s \in Forecasts!States, NEW k \in Nat, k # 0,
           NEW a, AheadTo(a, m, s, k - 1)
    PROVE  AheadTo(Append(a, Further(m, s, a)), m, s, k)
<1> DEFINE v   == Further(m, s, a)
           new == Append(a, v)
<1>1. a \in Seq(Vectors) /\ Len(a) = k - 1
  BY DEF AheadTo
<1>2. v \in Vectors
  BY <1>1, FurtherTyped
<1>3. v = Forecasts!Project(m, IF k = 1 THEN Forecasts!OneHot(s) ELSE a[k - 1])
  <2>1. a = <<>> <=> k = 1
    BY <1>1
  <2>2. Forecasts!Last(a) = a[k - 1]
    BY <1>1 DEF Forecasts!Last
  <2> QED
    BY <2>1, <2>2 DEF Further
<1> HIDE DEF v
<1>4. /\ new \in Seq(Vectors) /\ Len(new) = k /\ new[k] = v
      /\ \A t \in 1 .. k - 1 : new[t] = a[t]
  BY <1>1, <1>2
<1> HIDE DEF new
<1>5. ASSUME NEW t \in 1 .. k
      PROVE  new[t] = Forecasts!Project(m, IF t = 1 THEN Forecasts!OneHot(s) ELSE new[t - 1])
  <2>1. CASE t = k
    <3>1. k # 1 => k - 1 \in 1 .. k - 1
      OBVIOUS
    <3>2. (IF k = 1 THEN Forecasts!OneHot(s) ELSE a[k - 1])
            = IF k = 1 THEN Forecasts!OneHot(s) ELSE new[k - 1]
      BY <1>4, <3>1
    <3> QED
      BY <1>3, <1>4, <2>1, <3>2
  <2>2. CASE t # k
    <3>1. t \in 1 .. k - 1 /\ (t # 1 => t - 1 \in 1 .. k - 1)
      BY <2>2
    <3>2. a[t] = Forecasts!Project(m, IF t = 1 THEN Forecasts!OneHot(s) ELSE a[t - 1])
      BY <3>1 DEF AheadTo
    <3>3. (IF t = 1 THEN Forecasts!OneHot(s) ELSE a[t - 1])
            = IF t = 1 THEN Forecasts!OneHot(s) ELSE new[t - 1]
      BY <1>4, <3>1
    <3> QED
      BY <1>4, <3>1, <3>2, <3>3
  <2> QED
    BY <2>1, <2>2
<1> QED
  BY <1>4, <1>5 DEF AheadTo, new, v

\* predict_trajectory_proba gives a distribution for each step, each from the one before.
LEMMA AheadAll ==
    ASSUME NEW m \in Matrices, NEW s \in Forecasts!States, NEW n \in Nat
    PROVE  AheadTo(Forecasts!predict_trajectory_proba(m, s, n), m, s, n)
<1> DEFINE A == Seq(Vectors)
           Add(a) == Append(a, Further(m, s, a))
           F == [p \in A \X (1 .. n) |-> Add(p[1])]
           Eq(g) == g = [T \in SUBSET (1 .. n) |->
                            IF T = {} THEN <<>> ELSE Add(g[T \ {Forecasts!Max(T)}])]
<1>0. Forecasts!predict_trajectory_proba(m, s, n) = (CHOOSE g : Eq(g))[1 .. n]
  <2>1. DOMAIN [k \in 1 .. n |-> k] = 1 .. n
    OBVIOUS
  <2> QED
    BY <2>1 DEF Forecasts!predict_trajectory_proba, Forecasts!FoldLeft, Forecasts!MapThenFoldSet, Further
<1>1. <<>> \in A
  OBVIOUS
<1>2. ASSUME NEW a \in A
      PROVE  Add(a) \in A
  <2>1. Further(m, s, a) \in Vectors
    BY FurtherTyped
  <2> QED
    BY <2>1
<1>3. /\ F \in [A \X (1 .. n) -> A]
      /\ \A a \in A, i \in 1 .. n : F[<<a, i>>] = Add(a)
  <2> HIDE DEF Add, A
  <2> QED
    BY <1>2
<1> HIDE DEF A, F, Add
<1>4. PICK sc : IsScan(sc, A, <<>>, F, n)
  BY <1>1, <1>3, ScanExists
<1>5. /\ \A T \in SUBSET (1 .. n) : T # {} => Max(T) \in 1 .. n
      /\ \A T : Forecasts!Max(T) = Max(T)
  <2>1. \A T \in SUBSET (1 .. n) : T # {} => Max(T) \in 1 .. n
    BY PrefixMax
  <2>2. \A T : Forecasts!Max(T) = Max(T)
    BY DEF Forecasts!Max, Max
  <2> QED
    BY <2>1, <2>2
<1>6. sc \in [SUBSET (1 .. n) -> A] /\ OnSubsets(sc, 1 .. n)
  BY <1>4 DEF IsScan, OnSubsets
<1>7. \A T \in SUBSET (1 .. n) : sc[T] = IF T = {} THEN <<>> ELSE Add(sc[T \ {Max(T)}])
  <2> SUFFICES ASSUME NEW T \in SUBSET (1 .. n), T # {}
               PROVE  sc[T] = Add(sc[T \ {Max(T)}])
    BY <1>4 DEF IsScan
  <2>1. sc[T] = F[<<sc[T \ {Max(T)}], Max(T)>>]
    BY <1>4 DEF IsScan
  <2>2. sc[T \ {Max(T)}] \in A /\ Max(T) \in 1 .. n
    BY <1>5, <1>6
  <2> QED
    BY <1>3, <2>1, <2>2
<1>8. Eq(sc)
  BY <1>5, <1>6, <1>7 DEF OnSubsets
<1>9. ASSUME NEW g, Eq(g)
      PROVE  g = sc
  <2>1. OnSubsets(g, 1 .. n)
    BY <1>9 DEF OnSubsets
  <2>2. \A T \in SUBSET (1 .. n) : g[T] = IF T = {} THEN <<>> ELSE Add(g[T \ {Max(T)}])
    BY <1>5, <1>9
  <2>3. \A T \in SUBSET (1 .. n) :
              (T # {} => g[T \ {Max(T)}] = sc[T \ {Max(T)}]) => g[T] = sc[T]
    BY <1>7, <2>2
  <2> QED
    BY <1>6, <2>1, <2>3, ScanUnique
<1>10. (CHOOSE g : Eq(g)) = sc
  <2> HIDE DEF Eq
  <2> QED
    BY <1>8, <1>9
<1>11. AheadTo(sc[1 .. 0], m, s, 0)
  <2>1. sc[1 .. 0] = <<>>
    BY <1>4 DEF IsScan
  <2> QED
    BY <2>1 DEF AheadTo
<1>12. ASSUME NEW k \in 1 .. n, AheadTo(sc[1 .. k - 1], m, s, k - 1)
       PROVE  AheadTo(sc[1 .. k], m, s, k)
  <2>1. sc[1 .. k] = F[<<sc[1 .. k - 1], k>>] /\ sc[1 .. k - 1] \in A
    <3>1. 1 .. k - 1 \in SUBSET (1 .. n)
      OBVIOUS
    <3> QED
      BY <1>4, <1>6, <3>1 DEF IsScan
  <2>2. sc[1 .. k] = Add(sc[1 .. k - 1])
    BY <1>3, <2>1
  <2>3. k \in Nat /\ k # 0
    OBVIOUS
  <2> QED
    BY <1>12, <2>2, <2>3, AheadStep DEF Add
<1>13. AheadTo(sc[1 .. n], m, s, n)
  <2> DEFINE bad == {k \in 0 .. n : ~ AheadTo(sc[1 .. k], m, s, k)}
  <2>1. bad = {}
    <3> SUFFICES ASSUME bad # {} PROVE FALSE
      OBVIOUS
    <3>1. bad \in SUBSET Nat
      OBVIOUS
    <3>2. PICK i \in bad : \A k \in bad : i <= k
      <4> HIDE DEF bad
      <4> QED
        BY <3>1, LeastNumber
    <3>3. i \in 1 .. n
      BY <1>11
    <3>4. i - 1 \in 0 .. n /\ ~ (i <= i - 1)
      BY <3>3
    <3>5. AheadTo(sc[1 .. i - 1], m, s, i - 1)
      BY <3>2, <3>4
    <3> QED
      BY <1>12, <3>3, <3>5
  <2>2. n \in 0 .. n
    OBVIOUS
  <2> QED
    BY <2>1, <2>2
<1> QED
  BY <1>0, <1>10, <1>13

\* A step of the chain multiplies the mass by the sum of the rows.
LEMMA ProjectMass ==
    ASSUME NEW m \in Matrices, SameSums(m), NEW v \in Vectors
    PROVE  SumFunctionOnSet(Forecasts!Project(m, v), Forecasts!States)
             = SumFunctionOnSet(m[0], Forecasts!States) * SumFunctionOnSet(v, Forecasts!States)
<1> DEFINE S == Forecasts!States
           M == [i \in S |-> [j \in S |-> v[i] * m[i][j]]]
           whole == SumFunctionOnSet(m[0], S)
           r == [i \in S |-> v[i] * whole]
           c == Forecasts!Project(m, v)
<1>1. IsFiniteSet(S) /\ 0 \in S
  BY FewStates
<1>2. /\ \A i \in S : v[i] \in Nat
      /\ \A i \in S : \A j \in S : m[i][j] \in Nat
  BY DEF Vectors, Matrices
<1>3. ASSUME NEW j \in S
      PROVE  Column(M, S, j) = Comes(m, v, j)
  BY DEF Column, Comes
<1>4. \A i \in S : SumFunctionOnSet(m[i], S) = whole
  BY DEF SameSums
<1>5. ColumnSums(c, M, S, S)
  <2>1. \A j \in S : c[j] = SumFunctionOnSet(Comes(m, v, j), S)
    BY ProjectFacts
  <2> HIDE DEF M, S, c
  <2> QED
    BY <1>3, <2>1 DEF ColumnSums
<1> HIDE DEF S
<1>6. whole \in Nat
  <2>1. Numbers(m[0], S) /\ S \in SUBSET S
    BY <1>1, <1>2 DEF Numbers
  <2> QED
    BY <1>1, <2>1, SumNumber
<1>7. ASSUME NEW i \in S
      PROVE  Numbers(M[i], S) /\ r[i] = SumFunctionOnSet(M[i], S)
  <2>1. v[i] \in Nat /\ Numbers(m[i], S)
    BY <1>2 DEF Numbers
  <2>2. \A j \in S : m[i][j] \in Nat /\ M[i][j] = m[i][j] * v[i] /\ M[i][j] \in Nat
    BY <1>2
  <2>3. SumFunctionOnSet(m[i], S) = whole /\ r[i] = v[i] * whole
    BY <1>4
  <2> HIDE DEF M, whole, r
  <2>4. Numbers(M[i], S) /\ Scaled(M[i], m[i], v[i], S)
    BY <2>2 DEF Numbers, Scaled
  <2>5. SumFunctionOnSet(M[i], S) = SumFunctionOnSet(m[i], S) * v[i]
    BY <1>1, <2>1, <2>4, SumScaled
  <2>6. whole * v[i] = v[i] * whole
    BY <1>6, <2>1
  <2> QED
    BY <2>3, <2>4, <2>5, <2>6
<1>8. IsMatrix(M, S, S) /\ RowSums(r, M, S, S)
  <2> HIDE DEF M, r
  <2> QED
    BY <1>7 DEF IsMatrix, RowSums
<1>9. Numbers(v, S) /\ Scaled(r, v, whole, S)
  BY <1>2 DEF Numbers, Scaled
<1> HIDE DEF M, r, c, whole
<1>10. SumFunctionOnSet(r, S) = SumFunctionOnSet(c, S)
  BY <1>1, <1>5, <1>8, SumSwapped
<1>11. SumFunctionOnSet(r, S) = SumFunctionOnSet(v, S) * whole
  BY <1>1, <1>6, <1>9, SumScaled
<1>12. SumFunctionOnSet(v, S) \in Nat
  <2>1. S \in SUBSET S
    OBVIOUS
  <2> QED
    BY <1>1, <1>9, <2>1, SumNumber
<1>13. SumFunctionOnSet(c, S) = whole * SumFunctionOnSet(v, S)
  BY <1>6, <1>10, <1>11, <1>12
<1> QED
  BY <1>13 DEF S, whole, c

\* The next step escalates, stays or de-escalates.
LEMMA MassSplits ==
    ASSUME NEW m \in Matrices, SameSums(m), NEW s \in Forecasts!States
    PROVE  Forecasts!get_escalation(m, s) + Forecasts!get_deescalation(m, s)
             + Forecasts!get_stability(m, s) = SumFunctionOnSet(m[0], Forecasts!States)
<1> DEFINE S    == Forecasts!States
           row  == m[s]
           up   == {j \in S : j > s}
           down == {j \in S : j < s}
           rest == S \ up
<1>1. IsFiniteSet(S) /\ S \in SUBSET Nat
  BY FewStates
<1>2. Numbers(row, S) /\ row[s] \in Nat
  BY DEF Numbers, Matrices
<1>3. SumFunctionOnSet(row, S) = SumFunctionOnSet(m[0], S)
  BY DEF SameSums
<1>4. /\ Forecasts!get_escalation(m, s) = SumFunctionOnSet(row, up)
      /\ Forecasts!get_deescalation(m, s) = SumFunctionOnSet(row, down)
      /\ Forecasts!get_stability(m, s) = row[s]
  BY SameSum DEF Forecasts!get_escalation, Forecasts!get_deescalation, Forecasts!get_stability
<1>5. s \in rest /\ rest \ {s} = down /\ up \in SUBSET S /\ rest \in SUBSET S /\ down \in SUBSET S
  <2>1. s \in S /\ up \in SUBSET S /\ down \in SUBSET S
    OBVIOUS
  <2>2. \A j \in S : j \in Nat
    BY <1>1
  <2> HIDE DEF S
  <2>3. \A j \in S : j \in rest \ {s} <=> j \in down
    BY <2>1, <2>2
  <2>4. s \in rest
    BY <2>1, <2>2
  <2> HIDE DEF up, down
  <2> QED
    BY <2>1, <2>3, <2>4
<1> HIDE DEF S, up, down, row
<1>6. SumFunctionOnSet(row, S) = SumFunctionOnSet(row, up) + SumFunctionOnSet(row, rest)
  BY <1>1, <1>2, <1>5, SumSplit DEF Numbers
<1> HIDE DEF rest
<1>7. SumFunctionOnSet(row, up) \in Nat /\ SumFunctionOnSet(row, down) \in Nat
  BY <1>1, <1>2, <1>5, SumNumber
<1>8. SumFunctionOnSet(row, rest) = row[s] + SumFunctionOnSet(row, rest \ {s})
  <2>1. IsFiniteSet(rest) /\ Numbers(row, rest)
    BY <1>1, <1>2, <1>5, SumNumber
  <2> QED
    BY <1>5, <2>1, SumStep
<1>9. SumFunctionOnSet(row, rest \ {s}) = SumFunctionOnSet(row, down)
  BY <1>5
<1>10. SumFunctionOnSet(row, up) + SumFunctionOnSet(row, down) + row[s] = SumFunctionOnSet(m[0], S)
  BY <1>2, <1>3, <1>6, <1>7, <1>8, <1>9
<1> QED
  BY <1>4, <1>10 DEF S

\* The ways from s to j in k steps, and the weight of one.
Ways(s, j, k) == {p \in [1 .. k + 1 -> Forecasts!States] : p[1] = s /\ p[k + 1] = j}
Weight(m, p, k) == Forecasts!FoldLeftDomain(LAMBDA acc, t :
                       IF t > k THEN acc ELSE acc * m[p[t]][p[t + 1]], 1, p)

\* The weights of its beginnings.
IsWeight(pw, m, p, k) ==
    /\ pw \in [0 .. k -> Nat] /\ pw[0] = 1
    /\ \A t \in 1 .. k : pw[t] = pw[t - 1] * m[p[t]][p[t + 1]]

\* The weight of a way is the product of the weights of its steps.
LEMMA WeightAll ==
    ASSUME NEW m \in Matrices, NEW k \in Nat, NEW p \in [1 .. k + 1 -> Forecasts!States]
    PROVE  \E pw : IsWeight(pw, m, p, k) /\ Weight(m, p, k) = pw[k]
<1> DEFINE n == k + 1
           W(a, t) == IF t > k THEN a ELSE a * m[p[t]][p[t + 1]]
           F == [d \in Nat \X (1 .. n) |-> W(d[1], d[2])]
           id == [i \in DOMAIN p |-> i]
           Eq(g) == g = [T \in SUBSET (DOMAIN id) |->
                            IF T = {} THEN 1
                            ELSE W(g[T \ {Forecasts!Max(T)}], id[Forecasts!Max(T)])]
<1>0. Weight(m, p, k) = (CHOOSE g : Eq(g))[DOMAIN id]
  BY DEF Weight, Forecasts!FoldLeftDomain, Forecasts!FoldLeft, Forecasts!MapThenFoldSet
<1>1. ASSUME NEW a \in Nat, NEW t \in 1 .. n
      PROVE  W(a, t) \in Nat
  <2>1. CASE t > k
    BY <2>1
  <2>2. CASE ~ (t > k)
    <3>1. t \in 1 .. k + 1 /\ t + 1 \in 1 .. k + 1
      BY <2>2
    <3>2. m[p[t]][p[t + 1]] \in Nat
      BY <3>1 DEF Matrices
    <3> QED
      BY <2>2, <3>2
  <2> QED
    BY <2>1, <2>2
<1>2. /\ F \in [Nat \X (1 .. n) -> Nat]
      /\ \A a \in Nat, t \in 1 .. n : F[<<a, t>>] = W(a, t)
  <2> HIDE DEF W
  <2> QED
    BY <1>1
<1> HIDE DEF F, W
<1>3. n \in Nat /\ DOMAIN p = 1 .. n
  OBVIOUS
<1> HIDE DEF n
<1>4. PICK sc : IsScan(sc, Nat, 1, F, n)
  BY <1>2, <1>3, ScanExists
<1>5. /\ DOMAIN id = 1 .. n
      /\ \A T \in SUBSET (1 .. n) :
            T # {} => Max(T) \in 1 .. n /\ id[Forecasts!Max(T)] = Max(T)
      /\ \A T : Forecasts!Max(T) = Max(T)
  <2>1. DOMAIN id = 1 .. n /\ \A i \in 1 .. n : id[i] = i
    BY <1>3
  <2>2. \A T \in SUBSET (1 .. n) : T # {} => Max(T) \in 1 .. n
    BY <1>3, PrefixMax
  <2>3. \A T : Forecasts!Max(T) = Max(T)
    BY DEF Forecasts!Max, Max
  <2> QED
    BY <2>1, <2>2, <2>3
<1> HIDE DEF id
<1>6. sc \in [SUBSET (1 .. n) -> Nat] /\ OnSubsets(sc, 1 .. n)
  BY <1>4 DEF IsScan, OnSubsets
<1>7. \A T \in SUBSET (1 .. n) : sc[T] = IF T = {} THEN 1 ELSE W(sc[T \ {Max(T)}], Max(T))
  <2> SUFFICES ASSUME NEW T \in SUBSET (1 .. n), T # {}
               PROVE  sc[T] = W(sc[T \ {Max(T)}], Max(T))
    BY <1>4 DEF IsScan
  <2>1. sc[T] = F[<<sc[T \ {Max(T)}], Max(T)>>]
    BY <1>4 DEF IsScan
  <2>2. sc[T \ {Max(T)}] \in Nat /\ Max(T) \in 1 .. n
    BY <1>5, <1>6
  <2> QED
    BY <1>2, <2>1, <2>2
<1>8. Eq(sc)
  BY <1>5, <1>6, <1>7 DEF OnSubsets
<1>9. ASSUME NEW g, Eq(g)
      PROVE  g = sc
  <2>1. OnSubsets(g, 1 .. n)
    BY <1>5, <1>9 DEF OnSubsets
  <2>2. \A T \in SUBSET (1 .. n) : g[T] = IF T = {} THEN 1 ELSE W(g[T \ {Max(T)}], Max(T))
    BY <1>5, <1>9
  <2>3. \A T \in SUBSET (1 .. n) :
              (T # {} => g[T \ {Max(T)}] = sc[T \ {Max(T)}]) => g[T] = sc[T]
    BY <1>7, <2>2
  <2> QED
    BY <1>3, <1>6, <2>1, <2>3, ScanUnique
<1>10. (CHOOSE g : Eq(g)) = sc
  <2> HIDE DEF Eq
  <2> QED
    BY <1>8, <1>9
<1> DEFINE pw == [t \in 0 .. k |-> sc[1 .. t]]
<1>11. \A t \in 0 .. k : sc[1 .. t] \in Nat
  <2>1. \A t \in 0 .. k : 1 .. t \in SUBSET (1 .. n)
    BY DEF n
  <2> QED
    BY <1>6, <2>1
<1>12. pw \in [0 .. k -> Nat] /\ pw[0] = 1 /\ pw[k] = sc[1 .. k]
  <2>1. sc[1 .. 0] = 1
    BY <1>4 DEF IsScan
  <2> QED
    BY <1>11, <2>1
<1>13. ASSUME NEW t \in 1 .. n
       PROVE  sc[1 .. t] = W(sc[1 .. t - 1], t)
  <2>1. t - 1 \in 0 .. k
    BY DEF n
  <2>2. sc[1 .. t] = F[<<sc[1 .. t - 1], t>>]
    BY <1>4 DEF IsScan
  <2> QED
    BY <1>2, <1>11, <2>1, <2>2
<1>14. ASSUME NEW t \in 1 .. k
       PROVE  pw[t] = pw[t - 1] * m[p[t]][p[t + 1]]
  <2>1. t \in 1 .. n /\ t \in 0 .. k /\ t - 1 \in 0 .. k /\ ~ (t > k)
    BY DEF n
  <2>2. pw[t] = sc[1 .. t] /\ pw[t - 1] = sc[1 .. t - 1]
    BY <2>1
  <2> HIDE DEF pw
  <2> QED
    BY <1>13, <2>1, <2>2 DEF W
<1> HIDE DEF pw
<1>15. IsWeight(pw, m, p, k)
  BY <1>12, <1>14 DEF IsWeight
<1>16. sc[1 .. n] = sc[1 .. k]
  <2>1. n \in 1 .. n /\ n - 1 = k /\ n > k
    BY DEF n
  <2> QED
    BY <1>13, <2>1 DEF W
<1> QED
  BY <1>0, <1>5, <1>10, <1>12, <1>15, <1>16

\* A weight is a number, that of no step 1.
LEMMA WeightTyped ==
    ASSUME NEW m \in Matrices, NEW k \in Nat, NEW p \in [1 .. k + 1 -> Forecasts!States]
    PROVE  Weight(m, p, k) \in Nat /\ (k = 0 => Weight(m, p, k) = 1)
<1>1. PICK pw : IsWeight(pw, m, p, k) /\ Weight(m, p, k) = pw[k]
  BY WeightAll
<1>2. k \in 0 .. k
  OBVIOUS
<1> QED
  BY <1>1, <1>2 DEF IsWeight

\* The last step multiplies the weight.
LEMMA WeightStep ==
    ASSUME NEW m \in Matrices, NEW k \in Nat, NEW p \in [1 .. k + 2 -> Forecasts!States],
           NEW q \in [1 .. k + 1 -> Forecasts!States], \A t \in 1 .. k + 1 : q[t] = p[t]
    PROVE  Weight(m, p, k + 1) = Weight(m, q, k) * m[p[k + 1]][p[k + 2]]
<1>1. PICK pw : IsWeight(pw, m, p, k + 1) /\ Weight(m, p, k + 1) = pw[k + 1]
  <2>1. k + 1 \in Nat /\ (k + 1) + 1 = k + 2
    OBVIOUS
  <2> QED
    BY <2>1, WeightAll
<1>2. PICK qw : IsWeight(qw, m, q, k) /\ Weight(m, q, k) = qw[k]
  BY WeightAll
<1> DEFINE bad == {t \in 0 .. k : pw[t] # qw[t]}
<1>3. bad = {}
  <2> SUFFICES ASSUME bad # {} PROVE FALSE
    OBVIOUS
  <2>1. bad \in SUBSET Nat
    OBVIOUS
  <2>2. PICK t \in bad : \A i \in bad : t <= i
    <3> HIDE DEF bad
    <3> QED
      BY <2>1, LeastNumber
  <2>3. t # 0
    BY <1>1, <1>2 DEF IsWeight
  <2>4. t \in 1 .. k /\ t \in 1 .. k + 1 /\ t + 1 \in 1 .. k + 1 /\ t - 1 \in 0 .. k /\ ~ (t <= t - 1)
    BY <2>3
  <2>5. pw[t - 1] = qw[t - 1]
    BY <2>2, <2>4
  <2>6. pw[t] = pw[t - 1] * m[p[t]][p[t + 1]]
    BY <1>1, <2>4 DEF IsWeight
  <2>7. qw[t] = qw[t - 1] * m[q[t]][q[t + 1]]
    BY <1>2, <2>4 DEF IsWeight
  <2>8. q[t] = p[t] /\ q[t + 1] = p[t + 1]
    BY <2>4
  <2>9. pw[t] = qw[t]
    BY <2>5, <2>6, <2>7, <2>8
  <2> QED
    BY <2>9
<1>4. pw[k] = qw[k]
  <2>1. k \in 0 .. k
    OBVIOUS
  <2> QED
    BY <1>3, <2>1
<1>5. pw[k + 1] = pw[k] * m[p[k + 1]][p[k + 2]]
  <2>1. k + 1 \in 1 .. k + 1 /\ (k + 1) - 1 = k /\ (k + 1) + 1 = k + 2
    OBVIOUS
  <2> QED
    BY <1>1, <2>1 DEF IsWeight
<1> QED
  BY <1>1, <1>2, <1>4, <1>5

\* The weights of all ways.
Weights(m, s, j, k) == [p \in Ways(s, j, k) |-> Weight(m, p, k)]

\* There are finitely many, and each has a weight.
LEMMA WaysFacts ==
    ASSUME NEW m \in Matrices, NEW s, NEW j, NEW k \in Nat
    PROVE  IsFiniteSet(Ways(s, j, k)) /\ Numbers(Weights(m, s, j, k), Ways(s, j, k))
<1>1. k + 1 \in Nat /\ IsFiniteSet(Forecasts!States)
  BY FewStates
<1>2. IsFiniteSet([1 .. k + 1 -> Forecasts!States])
  BY <1>1, FiniteLists
<1>3. IsFiniteSet(Ways(s, j, k))
  <2>1. Ways(s, j, k) \in SUBSET [1 .. k + 1 -> Forecasts!States]
    BY DEF Ways
  <2> QED
    BY <1>2, <2>1, FS_Subset
<1>4. \A p \in Ways(s, j, k) : Weight(m, p, k) \in Nat
  BY WeightTyped DEF Ways
<1> QED
  BY <1>3, <1>4 DEF Numbers, Weights

\* PathSum adds them up.
LEMMA PathSumIs ==
    ASSUME NEW m \in Matrices, NEW s, NEW j, NEW k \in Nat
    PROVE  Forecasts!PathSum(m, s, j, k) = SumFunctionOnSet(Weights(m, s, j, k), Ways(s, j, k))
<1> DEFINE G == Ways(s, j, k)
           w == Weights(m, s, j, k)
           Eq(g) == g = [T \in SUBSET G |->
                           IF T = {} THEN 0 ELSE Weight(m, Chosen(T), k) + g[T \ {Chosen(T)}]]
<1>1. Forecasts!PathSum(m, s, j, k) = (CHOOSE g : Eq(g))[G]
  BY DEF Forecasts!PathSum, Forecasts!MapThenSumSet, Forecasts!MapThenFoldSet, Chosen, Weight, Ways
<1>2. IsFiniteSet(G) /\ \A x \in G : w[x] \in Nat
  BY WaysFacts DEF Numbers
<1>3. \A T \in SUBSET G : T # {} => w[Chosen(T)] = Weight(m, Chosen(T), k)
  <2>1. \A T \in SUBSET G : T # {} => Chosen(T) \in G
    BY DEF Chosen
  <2> QED
    BY <2>1 DEF Weights
<1> HIDE DEF G, w
<1>4. PICK h : IsTable(h, w, G)
  BY <1>2, TableExists
<1>5. Eq(h)
  BY <1>3, <1>4 DEF IsTable
<1>6. ASSUME NEW g, Eq(g)
      PROVE  g = h
  <2>1. g = [T \in SUBSET G |-> IF T = {} THEN 0 ELSE w[Chosen(T)] + g[T \ {Chosen(T)}]]
    BY <1>3, <1>6
  <2> QED
    BY <1>2, <1>4, <2>1, TableUnique
<1>7. (CHOOSE g : Eq(g)) = h
  <2> HIDE DEF Eq
  <2> QED
    BY <1>5, <1>6
<1>8. h[G] = SumFunctionOnSet(w, G)
  BY <1>2, <1>4, SumFromTable
<1> QED
  BY <1>1, <1>7, <1>8 DEF G, w

\* No step leads from s to s only.
LEMMA NoStep ==
    ASSUME NEW m \in Matrices, NEW s \in Forecasts!States, NEW j \in Forecasts!States
    PROVE  Forecasts!PathSum(m, s, j, 0) = Forecasts!OneHot(s)[j]
<1> DEFINE p == [i \in 1 .. 1 |-> s]
           w == Weights(m, s, j, 0)
<1>1. Forecasts!PathSum(m, s, j, 0) = SumFunctionOnSet(w, Ways(s, j, 0))
  BY PathSumIs
<1>2. Ways(s, j, 0) = {q \in [1 .. 1 -> Forecasts!States] : q[1] = s /\ q[1] = j}
  BY DEF Ways
<1>3. CASE s = j
  <2>1. Ways(s, j, 0) = {p}
    <3>1. \A q \in [1 .. 1 -> Forecasts!States] : q[1] = s => q = p
      OBVIOUS
    <3>2. p \in [1 .. 1 -> Forecasts!States] /\ p[1] = s
      OBVIOUS
    <3> HIDE DEF p
    <3> QED
      BY <1>2, <1>3, <3>1, <3>2
  <2>2. p \in [1 .. 0 + 1 -> Forecasts!States]
    OBVIOUS
  <2> HIDE DEF p
  <2>3. w[p] = 1
    <3>1. Weight(m, p, 0) = 1
      BY <2>2, WeightTyped
    <3> QED
      BY <2>1, <3>1 DEF Weights
  <2>4. SumFunctionOnSet(w, {p}) = 1
    BY <2>3, SumSingle
  <2> QED
    BY <1>1, <1>3, <2>1, <2>4 DEF Forecasts!OneHot
<1>4. CASE s # j
  <2>1. Ways(s, j, 0) = {}
    BY <1>2, <1>4
  <2>2. SumFunctionOnSet(w, {}) = 0
    BY SumNone
  <2> QED
    BY <1>1, <1>4, <2>1, <2>2 DEF Forecasts!OneHot
<1> QED
  BY <1>3, <1>4

\* A way without its last step, and a way with one step more.
Shorter(p, k)   == [t \in 1 .. k + 1 |-> p[t]]
Longer(q, j, k) == [t \in 1 .. k + 2 |-> IF t <= k + 1 THEN q[t] ELSE j]

\* The ways to j whose last step is from i are the ways to i, with that step.
LEMMA WaysMatch ==
    ASSUME NEW s \in Forecasts!States, NEW i \in Forecasts!States, NEW j \in Forecasts!States,
           NEW k \in Nat
    PROVE  /\ \A p \in Ways(s, j, k + 1) : p[k + 1] = i => Shorter(p, k) \in Ways(s, i, k)
           /\ \A q \in Ways(s, i, k) : /\ Longer(q, j, k) \in Ways(s, j, k + 1)
                                       /\ Longer(q, j, k)[k + 1] = i
                                       /\ Shorter(Longer(q, j, k), k) = q
           /\ \A p, q \in Ways(s, j, k + 1) : Shorter(p, k) = Shorter(q, k) => p = q
<1> DEFINE S == Forecasts!States
<1>0. (k + 1) + 1 = k + 2
  OBVIOUS
<1>1. Ways(s, j, k + 1) = {p \in [1 .. k + 2 -> S] : p[1] = s /\ p[k + 2] = j}
  BY <1>0 DEF Ways
<1>2. Ways(s, i, k) = {q \in [1 .. k + 1 -> S] : q[1] = s /\ q[k + 1] = i}
  BY DEF Ways
<1> HIDE DEF S
<1>3. ASSUME NEW p \in Ways(s, j, k + 1), p[k + 1] = i
      PROVE  Shorter(p, k) \in Ways(s, i, k)
  <2>1. p \in [1 .. k + 2 -> S] /\ p[1] = s
    BY <1>1
  <2> QED
    BY <1>2, <1>3, <2>1 DEF Shorter
<1>4. ASSUME NEW q \in Ways(s, i, k)
      PROVE  /\ Longer(q, j, k) \in Ways(s, j, k + 1) /\ Longer(q, j, k)[k + 1] = i
             /\ Shorter(Longer(q, j, k), k) = q
  <2>1. q \in [1 .. k + 1 -> S] /\ q[1] = s /\ q[k + 1] = i
    BY <1>2
  <2>2. j \in S
    BY DEF S
  <2>3. Longer(q, j, k) \in [1 .. k + 2 -> S]
    BY <2>1, <2>2 DEF Longer
  <2>4. Longer(q, j, k)[1] = s /\ Longer(q, j, k)[k + 2] = j /\ Longer(q, j, k)[k + 1] = i
    BY <2>1 DEF Longer
  <2>5. Shorter(Longer(q, j, k), k) = q
    BY <2>1 DEF Longer, Shorter
  <2> QED
    BY <1>1, <2>3, <2>4, <2>5
<1>5. ASSUME NEW p \in Ways(s, j, k + 1), NEW q \in Ways(s, j, k + 1), Shorter(p, k) = Shorter(q, k)
      PROVE  p = q
  <2>1. p \in [1 .. k + 2 -> S] /\ q \in [1 .. k + 2 -> S] /\ p[k + 2] = j /\ q[k + 2] = j
    BY <1>1
  <2>2. \A t \in 1 .. k + 1 : p[t] = q[t]
    <3> SUFFICES ASSUME NEW t \in 1 .. k + 1 PROVE p[t] = q[t]
      OBVIOUS
    <3>1. Shorter(p, k)[t] = p[t] /\ Shorter(q, k)[t] = q[t]
      BY DEF Shorter
    <3> QED
      BY <1>5, <3>1
  <2>3. \A t \in 1 .. k + 2 : p[t] = q[t]
    BY <2>1, <2>2
  <2> QED
    BY <2>1, <2>3
<1> QED
  BY <1>3, <1>4, <1>5

\* Their weights add up to those of the ways to i, each times the step's.
LEMMA FibreSum ==
    ASSUME NEW m \in Matrices, NEW s \in Forecasts!States, NEW i \in Forecasts!States,
           NEW j \in Forecasts!States, NEW k \in Nat
    PROVE  SumFunctionOnSet(Weights(m, s, j, k + 1), {p \in Ways(s, j, k + 1) : p[k + 1] = i})
             = Forecasts!PathSum(m, s, i, k) * m[i][j]
<1> DEFINE A == {p \in Ways(s, j, k + 1) : p[k + 1] = i}
           B == Ways(s, i, k)
           v == Weights(m, s, j, k + 1)
           w == Weights(m, s, i, k)
           c == m[i][j]
           u == [q \in B |-> w[q] * c]
           f == [p \in A |-> Shorter(p, k)]
<1>1. c \in Nat /\ k + 1 \in Nat
  BY DEF Matrices
<1>2. IsFiniteSet(B) /\ Numbers(w, B)
  BY WaysFacts
<1>3. IsFiniteSet(A)
  <2>1. IsFiniteSet(Ways(s, j, k + 1))
    BY <1>1, WaysFacts
  <2>2. A \in SUBSET Ways(s, j, k + 1)
    OBVIOUS
  <2> HIDE DEF A
  <2> QED
    BY <2>1, <2>2, FS_Subset
<1>4. ASSUME NEW p \in A
      PROVE  Shorter(p, k) \in B /\ v[p] = w[Shorter(p, k)] * c
  <2>0. p \in Ways(s, j, k + 1) /\ p[k + 1] = i
    OBVIOUS
  <2>1. Shorter(p, k) \in B
    BY <2>0, WaysMatch
  <2>2. (k + 1) + 1 = k + 2
    OBVIOUS
  <2>3. p \in [1 .. k + 2 -> Forecasts!States] /\ p[k + 2] = j
    BY <2>0, <2>2 DEF Ways
  <2>4. Shorter(p, k) \in [1 .. k + 1 -> Forecasts!States]
    BY <2>1 DEF Ways
  <2>5. \A t \in 1 .. k + 1 : Shorter(p, k)[t] = p[t]
    BY DEF Shorter
  <2>6. Weight(m, p, k + 1) = Weight(m, Shorter(p, k), k) * m[p[k + 1]][p[k + 2]]
    BY <2>3, <2>4, <2>5, WeightStep
  <2>7. v[p] = Weight(m, p, k + 1)
    BY <2>0 DEF Weights
  <2>8. w[Shorter(p, k)] = Weight(m, Shorter(p, k), k)
    BY <2>1 DEF Weights
  <2> QED
    BY <2>0, <2>1, <2>3, <2>6, <2>7, <2>8
<1>5. /\ \A p, q \in A : Shorter(p, k) = Shorter(q, k) => p = q
      /\ \A q \in B : \E p \in A : Shorter(p, k) = q
  <2>1. \A p, q \in A : Shorter(p, k) = Shorter(q, k) => p = q
    BY WaysMatch
  <2>2. ASSUME NEW q \in B
        PROVE  \E p \in A : Shorter(p, k) = q
    <3>1. Longer(q, j, k) \in A /\ Shorter(Longer(q, j, k), k) = q
      BY WaysMatch
    <3> QED
      BY <3>1
  <2> QED
    BY <2>1, <2>2
<1>6. Numbers(u, B) /\ Scaled(u, w, c, B)
  <2>1. \A q \in B : w[q] \in Nat
    BY <1>2 DEF Numbers
  <2> HIDE DEF B, w, c
  <2> QED
    BY <1>1, <2>1 DEF Numbers, Scaled
<1>7. Moves(f, v, u, A, B)
  <2> HIDE DEF A, B, v, w, c
  <2>1. \A p \in A : f[p] = Shorter(p, k)
    OBVIOUS
  <2>2. f \in [A -> B] /\ \A p \in A : v[p] = u[f[p]]
    BY <1>4
  <2> HIDE DEF f, u
  <2> QED
    BY <1>5, <2>1, <2>2 DEF Moves
<1>8. Forecasts!PathSum(m, s, i, k) = SumFunctionOnSet(w, B)
  BY PathSumIs
<1> HIDE DEF A, B, v, w, c, u, f
<1>9. SumFunctionOnSet(v, A) = SumFunctionOnSet(u, B)
  BY <1>2, <1>3, <1>6, <1>7, SumMoved
<1>10. SumFunctionOnSet(u, B) = SumFunctionOnSet(w, B) * c
  BY <1>1, <1>2, <1>6, SumScaled
<1> QED
  BY <1>8, <1>9, <1>10 DEF A, v, c

\* One step more: the ways to every state, each times the step from there.
LEMMA PathSumStep ==
    ASSUME NEW m \in Matrices, NEW s \in Forecasts!States, NEW j \in Forecasts!States, NEW k \in Nat,
           NEW v, \A i \in Forecasts!States : v[i] = Forecasts!PathSum(m, s, i, k) * m[i][j]
    PROVE  Forecasts!PathSum(m, s, j, k + 1) = SumFunctionOnSet(v, Forecasts!States)
<1> DEFINE S == Forecasts!States
           I == Ways(s, j, k + 1)
           w == Weights(m, s, j, k + 1)
           f == [p \in I |-> p[k + 1]]
<1>1. k + 1 \in Nat /\ IsFiniteSet(S)
  BY FewStates
<1>2. IsFiniteSet(I) /\ Numbers(w, I)
  BY <1>1, WaysFacts
<1>3. f \in [I -> S]
  <2>1. \A p \in I : p \in [1 .. (k + 1) + 1 -> S]
    BY DEF Ways
  <2>2. k + 1 \in 1 .. (k + 1) + 1
    OBVIOUS
  <2> HIDE DEF I, S
  <2> QED
    BY <2>1, <2>2
<1>4. ASSUME NEW i \in S
      PROVE  v[i] = SumFunctionOnSet(w, {p \in I : f[p] = i})
  <2>1. {p \in I : f[p] = i} = {p \in I : p[k + 1] = i}
    OBVIOUS
  <2>2. SumFunctionOnSet(w, {p \in I : p[k + 1] = i}) = Forecasts!PathSum(m, s, i, k) * m[i][j]
    BY FibreSum
  <2> QED
    BY <2>1, <2>2
<1>5. Forecasts!PathSum(m, s, j, k + 1) = SumFunctionOnSet(w, I)
  BY <1>1, PathSumIs
<1> HIDE DEF I, w, f, S
<1>6. Fibres(v, w, f, I, S)
  BY <1>4 DEF Fibres
<1>7. SumFunctionOnSet(v, S) = SumFunctionOnSet(w, I)
  BY <1>1, <1>2, <1>3, <1>6, SumByFibres
<1> QED
  BY <1>5, <1>7 DEF S

\* The distributions of AheadTo are the sums over all ways.
LEMMA AheadSums ==
    ASSUME NEW m \in Matrices, NEW s \in Forecasts!States, NEW n \in Nat,
           NEW a, AheadTo(a, m, s, n), NEW k \in 1 .. n, NEW j \in Forecasts!States
    PROVE  a[k][j] = Forecasts!PathSum(m, s, j, k)
<1> DEFINE S == Forecasts!States
           Is(v, t) == \A i \in S : v[i] = Forecasts!PathSum(m, s, i, t)
           bad == {t \in 1 .. n : ~ Is(a[t], t)}
<1>1. ASSUME NEW v \in Vectors, NEW t \in Nat, Is(v, t)
      PROVE  Is(Forecasts!Project(m, v), t + 1)
  <2> SUFFICES ASSUME NEW i \in S
               PROVE  Forecasts!Project(m, v)[i] = Forecasts!PathSum(m, s, i, t + 1)
    OBVIOUS
  <2>1. Forecasts!Project(m, v)[i] = SumFunctionOnSet(Comes(m, v, i), S)
    BY ProjectFacts
  <2>2. \A x \in S : Comes(m, v, i)[x] = Forecasts!PathSum(m, s, x, t) * m[x][i]
    BY <1>1 DEF Comes
  <2>3. Forecasts!PathSum(m, s, i, t + 1) = SumFunctionOnSet(Comes(m, v, i), S)
    BY <2>2, PathSumStep
  <2> QED
    BY <2>1, <2>3
<1>2. Forecasts!OneHot(s) \in Vectors /\ Is(Forecasts!OneHot(s), 0)
  BY StartTyped, NoStep
<1>3. /\ \A t \in 1 .. n : a[t] \in Vectors
      /\ \A t \in 1 .. n : a[t] = Forecasts!Project(m, IF t = 1 THEN Forecasts!OneHot(s) ELSE a[t - 1])
  BY DEF AheadTo
<1> HIDE DEF Is
<1>4. bad = {}
  <2> SUFFICES ASSUME bad # {} PROVE FALSE
    OBVIOUS
  <2>1. bad \in SUBSET Nat
    OBVIOUS
  <2>2. PICK t \in bad : \A i \in bad : t <= i
    <3> HIDE DEF bad
    <3> QED
      BY <2>1, LeastNumber
  <2>3. t \in 1 .. n /\ ~ Is(a[t], t)
    OBVIOUS
  <2>4. CASE t = 1
    <3>1. a[t] = Forecasts!Project(m, Forecasts!OneHot(s)) /\ 0 + 1 = t
      BY <1>3, <2>3, <2>4
    <3>2. Is(Forecasts!Project(m, Forecasts!OneHot(s)), 0 + 1)
      BY <1>1, <1>2
    <3> QED
      BY <2>3, <3>1, <3>2
  <2>5. CASE t # 1
    <3>1. t - 1 \in 1 .. n /\ t - 1 \in Nat /\ ~ (t <= t - 1) /\ (t - 1) + 1 = t
      BY <2>3, <2>5
    <3>2. Is(a[t - 1], t - 1)
      BY <2>2, <3>1
    <3>3. Is(Forecasts!Project(m, a[t - 1]), (t - 1) + 1)
      BY <1>1, <1>3, <3>1, <3>2
    <3>4. a[t] = Forecasts!Project(m, a[t - 1])
      BY <1>3, <2>3, <2>5
    <3> QED
      BY <2>3, <3>1, <3>3, <3>4
  <2> QED
    BY <2>4, <2>5
<1>5. Is(a[k], k)
  BY <1>4
<1> QED
  BY <1>5 DEF Is

\* A chain whose rows have the same sum predicts exactly, and keeps its mass.
LEMMA ExactTrajectories ==
    ASSUME markov \in Matrices, SameSums(markov)
    PROVE  Forecasts!TrajectoryExact
<1> DEFINE S == Forecasts!States
           whole == Forecasts!SumFunction(markov[0])
<1>0. IsFiniteSet(S) /\ 0 \in S /\ Horizon \in Nat
  BY FewStates, StagesAssumed DEF Forecasts!StagesAssumption
<1>1. whole = SumFunctionOnSet(markov[0], S)
  <2>1. DOMAIN markov[0] = S
    BY <1>0 DEF Matrices
  <2> QED
    BY <2>1, SameSum
<1>3. ASSUME NEW v \in Vectors
      PROVE  Forecasts!SumFunction(v) = SumFunctionOnSet(v, S)
  BY SameSum DEF Vectors
<1>4. ASSUME NEW v \in Vectors
      PROVE  SumFunctionOnSet(Forecasts!Project(markov, v), S) = whole * SumFunctionOnSet(v, S)
  BY <1>1, ProjectMass
<1> HIDE DEF whole
<1>5. ASSUME NEW s \in S, NEW k \in 1 .. Horizon
      PROVE  LET ahead == Forecasts!predict_trajectory_proba(markov, s, Horizon)
             IN  /\ \A j \in S : ahead[k][j] = Forecasts!PathSum(markov, s, j, k)
                 /\ Forecasts!SumFunction(ahead[k])
                      = whole * (IF k = 1 THEN 1 ELSE Forecasts!SumFunction(ahead[k - 1]))
  <2> DEFINE ahead == Forecasts!predict_trajectory_proba(markov, s, Horizon)
             v == IF k = 1 THEN Forecasts!OneHot(s) ELSE ahead[k - 1]
  <2>1. AheadTo(ahead, markov, s, Horizon)
    BY <1>0, AheadAll
  <2> HIDE DEF ahead
  <2>2. \A j \in S : ahead[k][j] = Forecasts!PathSum(markov, s, j, k)
    BY <1>0, <2>1, AheadSums
  <2>3. ahead[k] = Forecasts!Project(markov, v) /\ ahead[k] \in Vectors
    BY <2>1 DEF AheadTo
  <2>4. /\ v \in Vectors
        /\ Forecasts!SumFunction(v) = IF k = 1 THEN 1 ELSE Forecasts!SumFunction(ahead[k - 1])
    <3>1. CASE k = 1
      <4>1. v = Forecasts!OneHot(s)
        BY <3>1
      <4>2. v \in Vectors /\ SumFunctionOnSet(v, S) = 1
        BY <4>1, StartTyped
      <4> HIDE DEF v
      <4> QED
        BY <1>3, <3>1, <4>2
    <3>2. CASE k # 1
      <4>1. k - 1 \in 1 .. Horizon
        BY <1>0, <3>2
      <4>2. ahead[k - 1] \in Vectors
        BY <2>1, <4>1 DEF AheadTo
      <4> QED
        BY <3>2, <4>2
    <3> QED
      BY <3>1, <3>2
  <2> HIDE DEF v
  <2>5. Forecasts!SumFunction(ahead[k]) = whole * Forecasts!SumFunction(v)
    BY <1>3, <1>4, <2>3, <2>4
  <2> QED
    BY <2>2, <2>4, <2>5 DEF ahead
<1>6. ASSUME NEW s \in S
      PROVE  Forecasts!get_escalation(markov, s) + Forecasts!get_deescalation(markov, s)
               + Forecasts!get_stability(markov, s) = whole
  BY <1>1, MassSplits
<1> QED
  BY <1>5, <1>6 DEF Forecasts!TrajectoryExact, whole

\* Whatever the labels the chain was fitted to, and however far ahead, the distribution
\* predict_trajectory_proba gives for step k is the sum over all ways of k steps of the products
\* of their transition weights, and no mass is lost: each step multiplies the whole by the sum of
\* a row, and the next step's mass splits into escalation, stability and de-escalation
\* (markov_chain.py, attack_progression.py).
THEOREM TrajectoriesExact ==
    /\ Forecasts!Spec => []Forecasts!TrajectoryExact
    /\ MCSpec => []TrajectoryExact
<1>1. ModelsInv => Forecasts!TrajectoryExact /\ TrajectoryExact
  BY ExactTrajectories DEF ModelsInv, TrajectoryExact
<1> QED
  BY <1>1, ModelsInvariant, StagesAlone, PTL

\* What predict_trajectory takes is at each step a stage no other is likelier than.
LEMMA LikelyForecast ==
    ASSUME NEW m \in Matrices, NEW s \in Forecasts!States
    PROVE  Forecasts!Likeliest(Forecasts!predict_trajectory(m, s, Horizon), m, s)
<1> DEFINE S     == Forecasts!States
           ahead == Forecasts!predict_trajectory_proba(m, s, Horizon)
           f     == Forecasts!predict_trajectory(m, s, Horizon)
<1>1. S \in SUBSET Nat /\ IsFiniteSet(S) /\ S # {} /\ Horizon \in Nat
  BY FewStates, StagesAssumed DEF Forecasts!StagesAssumption
<1>2. f = [k \in 1 .. Horizon |-> Forecasts!argmax(ahead[k])]
  BY DEF Forecasts!predict_trajectory
<1>3. AheadTo(ahead, m, s, Horizon)
  BY <1>1, AheadAll
<1> HIDE DEF ahead, f
<1> SUFFICES ASSUME NEW k \in 1 .. Horizon
             PROVE  /\ f[k] \in S
                    /\ \A j \in S : Forecasts!PathSum(m, s, j, k) <= Forecasts!PathSum(m, s, f[k], k)
  BY DEF Forecasts!Likeliest, f
<1>4. ahead[k] \in [S -> Nat]
  BY <1>3 DEF AheadTo, Vectors
<1>5. \A j \in S : ahead[k][j] = Forecasts!PathSum(m, s, j, k)
  BY <1>1, <1>3, AheadSums
<1>6. f[k] = Forecasts!argmax(ahead[k])
  BY <1>2
<1>7. f[k] \in S /\ \A j \in S : ahead[k][j] <= ahead[k][f[k]]
  BY <1>1, <1>4, <1>6, ArgmaxFacts
<1> QED
  BY <1>5, <1>7

\* Whatever the labels the models were fitted to, the emission weights and the observations: no
\* path of hidden states is likelier than the one viterbi decodes, and at every step no stage is
\* likelier than the one forecast, over all ways there from the end of that path, or from NORMAL
\* where the Markov chain has no HMM (hmm_model.py, markov_chain.py, protocol.py).
THEOREM ForecastsLikeliest ==
    /\ Forecasts!Spec => []Forecasts!ViterbiOptimal
    /\ MCSpec => []ViterbiOptimal
<1>1. ModelsInv => Forecasts!ViterbiOptimal
  <2> SUFFICES ASSUME ModelsInv, NEW obs \in [1 .. Horizon -> Symbols]
               PROVE  LET best == Forecasts!viterbi(hmm, obs)
                      IN /\ \A way \in [1 .. Horizon -> Forecasts!States] :
                               Forecasts!PathScore(way, obs) <= Forecasts!PathScore(best, obs)
                         /\ Forecasts!Likeliest(Forecasts!HMMAdapter_predict(hmm, obs),
                                                hmm.trans, best[Horizon])
                         /\ Forecasts!Likeliest(Forecasts!MarkovChainAdapter_predict(markov, <<hmm>>, obs),
                                                markov, best[Horizon])
                         /\ Forecasts!Likeliest(Forecasts!MarkovChainAdapter_predict(markov, <<>>, obs),
                                                markov, Forecasts!NORMAL)
    BY DEF Forecasts!ViterbiOptimal
  <2> DEFINE end == Forecasts!viterbi(hmm, obs)[Horizon]
             from(m, s) == Forecasts!predict_trajectory(m, s, Horizon)
  <2>1. markov \in Matrices /\ hmm \in Hmms /\ hmm.trans \in Matrices
    BY DEF ModelsInv, Hmms
  <2>2. /\ \A way \in [1 .. Horizon -> Forecasts!States] :
              Forecasts!PathScore(way, obs) <= Forecasts!PathScore(Forecasts!viterbi(hmm, obs), obs)
        /\ Forecasts!predict(hmm, obs) = end /\ end \in Forecasts!States
    BY <2>1, LikeliestPath
  <2>3. Forecasts!NORMAL \in Forecasts!States
    BY FewStates DEF Forecasts!NORMAL
  <2>4. /\ Forecasts!HMMAdapter_predict(hmm, obs) = from(hmm.trans, end)
        /\ Forecasts!MarkovChainAdapter_predict(markov, <<hmm>>, obs) = from(markov, end)
        /\ Forecasts!MarkovChainAdapter_predict(markov, <<>>, obs) = from(markov, Forecasts!NORMAL)
    <3>1. <<hmm>> # <<>> /\ <<hmm>>[1] = hmm
      OBVIOUS
    <3>2. Forecasts!HMMAdapter_predict(hmm, obs) = from(hmm.trans, end)
      BY <2>2 DEF Forecasts!HMMAdapter_predict, Forecasts!forecast
    <3>3. Forecasts!decode_current_state(<<hmm>>, obs) = end
      BY <2>2, <3>1 DEF Forecasts!decode_current_state
    <3>4. Forecasts!decode_current_state(<<>>, obs) = Forecasts!NORMAL
      BY DEF Forecasts!decode_current_state
    <3> QED
      BY <3>2, <3>3, <3>4 DEF Forecasts!MarkovChainAdapter_predict
  <2> HIDE DEF end
  <2>5. /\ Forecasts!Likeliest(from(hmm.trans, end), hmm.trans, end)
        /\ Forecasts!Likeliest(from(markov, end), markov, end)
        /\ Forecasts!Likeliest(from(markov, Forecasts!NORMAL), markov, Forecasts!NORMAL)
    BY <2>1, <2>2, <2>3, LikelyForecast
  <2> HIDE DEF from
  <2> QED
    BY <2>2, <2>4, <2>5 DEF end
<1>2. Forecasts!ViterbiOptimal => ViterbiOptimal
  BY DEF ViterbiOptimal
<1> QED
  BY <1>1, <1>2, ModelsInvariant, StagesAlone, PTL

----------------------------------------------------------------------------
\* The sequences and their loaders.

\* Lists strung together have the elements of all of them.
LEMMA FlattenElements ==
    ASSUME NEW X, NEW n \in Nat, NEW W \in [1 .. n -> Seq(X)]
    PROVE  Data!ToSet(Data!FlattenSeq(W)) = UNION {Data!ToSet(W[k]) : k \in 1 .. n}
<1> DEFINE A == Seq(X)
           F == [p \in A \X (1 .. n) |-> p[1] \o W[p[2]]]
           Eq(f) == f = [i \in 1 .. n |-> IF i = 1 THEN W[i] ELSE f[i - 1] \o W[i]]
           b == <<>>
<1>1. W \in Seq(Seq(X)) /\ Len(W) = n
  OBVIOUS
<1>2. F \in [A \X (1 .. n) -> A] /\ b \in A
  <2>1. \A s \in A, i \in 1 .. n : s \o W[i] \in A
    OBVIOUS
  <2> QED
    BY <2>1
<1>3. \A s \in A, i \in 1 .. n : F[<<s, i>>] = s \o W[i]
  OBVIOUS
<1> HIDE DEF F, A, b
<1>4. PICK h : IsScan(h, A, b, F, n)
  BY <1>2, ScanExists
<1>5. /\ h[1 .. 0] = b
      /\ \A k \in 0 .. n : h[1 .. k] \in A
      /\ \A k \in 1 .. n : h[1 .. k] = h[1 .. k - 1] \o W[k]
  <2>1. \A k \in 0 .. n : 1 .. k \in SUBSET (1 .. n)
    OBVIOUS
  <2>2. \A k \in 0 .. n : h[1 .. k] \in A
    BY <1>4, <2>1 DEF IsScan
  <2>3. ASSUME NEW k \in 1 .. n
        PROVE  h[1 .. k] = h[1 .. k - 1] \o W[k]
    <3>1. k - 1 \in 0 .. n
      OBVIOUS
    <3>2. h[1 .. k - 1] \in A
      BY <2>2, <3>1
    <3> QED
      BY <1>3, <1>4, <3>2 DEF IsScan
  <2> QED
    BY <1>4, <2>2, <2>3 DEF IsScan
<1> DEFINE e == [i \in 1 .. n |-> h[1 .. i]]
<1>6. Eq(e)
  <2>1. ASSUME NEW i \in 1 .. n
        PROVE  h[1 .. i] = IF i = 1 THEN W[i] ELSE e[i - 1] \o W[i]
    <3>1. CASE i = 1
      <4>1. h[1 .. 1] = h[1 .. 1 - 1] \o W[1]
        BY <1>5, <3>1
      <4>2. 1 - 1 = 0 /\ W[1] \in Seq(X)
        BY <3>1
      <4>3. b \o W[1] = W[1]
        BY <4>2 DEF b
      <4> QED
        BY <1>5, <3>1, <4>1, <4>2, <4>3
    <3>2. CASE i # 1
      <4>1. i - 1 \in 1 .. n
        BY <3>2
      <4> QED
        BY <1>5, <3>2, <4>1
    <3> QED
      BY <3>1, <3>2
  <2> DEFINE R(i) == IF i = 1 THEN W[i] ELSE e[i - 1] \o W[i]
  <2>2. \A i \in 1 .. n : h[1 .. i] = R(i)
    BY <2>1
  <2>3. e = [i \in 1 .. n |-> R(i)]
    <3> HIDE DEF R
    <3> QED
      BY <2>2
  <2> QED
    BY <2>3
<1>7. ASSUME NEW f, Eq(f)
      PROVE  f = e
  <2>1. /\ f = [i \in 1 .. n |-> f[i]]
        /\ \A i \in 1 .. n : f[i] = IF i = 1 THEN W[i] ELSE f[i - 1] \o W[i]
    BY <1>7
  <2>2. \A i \in 1 .. n : e[i] = IF i = 1 THEN W[i] ELSE e[i - 1] \o W[i]
    BY <1>6
  <2> HIDE DEF e
  <2> DEFINE bad == {i \in 1 .. n : f[i] # e[i]}
  <2>3. bad = {}
    <3> SUFFICES ASSUME bad # {} PROVE FALSE
      OBVIOUS
    <3>1. bad \in SUBSET Nat
      OBVIOUS
    <3>2. PICK m \in bad : \A k \in bad : m <= k
      <4> HIDE DEF bad
      <4> QED
        BY <3>1, LeastNumber
    <3>3. CASE m = 1
      BY <2>1, <2>2, <3>3
    <3>4. CASE m # 1
      <4>1. m - 1 \in 1 .. n /\ ~ (m <= m - 1)
        BY <3>4
      <4>2. f[m - 1] = e[m - 1]
        BY <3>2, <4>1
      <4> QED
        BY <2>1, <2>2, <3>4, <4>2
    <3> QED
      BY <3>3, <3>4
  <2>4. \A i \in 1 .. n : f[i] = e[i]
    BY <2>3
  <2> QED
    BY <2>1, <2>4 DEF e
<1>8. (CHOOSE f : Eq(f)) = e
  <2> HIDE DEF Eq, e
  <2> QED
    BY <1>6, <1>7
<1>9. Data!FlattenSeq(W) = h[1 .. n]
  <2>1. CASE n = 0
    <3>1. W = <<>> /\ Data!FlattenSeq(W) = W
      BY <1>1, <2>1 DEF Data!FlattenSeq
    <3> QED
      BY <1>5, <2>1, <3>1 DEF b
  <2>2. CASE n # 0
    <3>1. Data!FlattenSeq(W) = (CHOOSE f : Eq(f))[n]
      BY <1>1, <2>2 DEF Data!FlattenSeq
    <3>2. e[n] = h[1 .. n]
      BY <2>2
    <3> QED
      BY <1>8, <3>1, <3>2
  <2> QED
    BY <2>1, <2>2
<1>10. ASSUME NEW s \in Seq(X), NEW t \in Seq(X)
       PROVE  Data!ToSet(s \o t) = Data!ToSet(s) \cup Data!ToSet(t)
  <2>1. /\ DOMAIN s = 1 .. Len(s) /\ DOMAIN t = 1 .. Len(t) /\ Len(s) \in Nat /\ Len(t) \in Nat
        /\ DOMAIN (s \o t) = 1 .. Len(s) + Len(t)
        /\ \A i \in 1 .. Len(s) + Len(t) :
              (s \o t)[i] = IF i <= Len(s) THEN s[i] ELSE t[i - Len(s)]
    OBVIOUS
  <2> DEFINE u == s \o t
             p == Len(s)
             q == Len(t)
  <2>2. /\ DOMAIN s = 1 .. p /\ DOMAIN t = 1 .. q /\ p \in Nat /\ q \in Nat
        /\ DOMAIN u = 1 .. p + q
        /\ \A i \in 1 .. p + q : u[i] = IF i <= p THEN s[i] ELSE t[i - p]
    BY <2>1
  <2> HIDE DEF u, p, q
  <2>3. \A i \in 1 .. p : u[i] = s[i] /\ i \in 1 .. p + q
    BY <2>2
  <2>4. \A i \in 1 .. q : u[p + i] = t[i] /\ p + i \in 1 .. p + q
    BY <2>2
  <2>5. ASSUME NEW i \in 1 .. p + q
        PROVE  u[i] \in Data!ToSet(s) \cup Data!ToSet(t)
    <3>1. CASE i <= p
      <4>1. i \in 1 .. p /\ u[i] = s[i]
        BY <2>2, <3>1
      <4> QED
        BY <2>2, <4>1 DEF Data!ToSet
    <3>2. CASE ~ (i <= p)
      <4>1. i - p \in 1 .. q /\ u[i] = t[i - p]
        BY <2>2, <3>2
      <4> QED
        BY <2>2, <4>1 DEF Data!ToSet
    <3> QED
      BY <3>1, <3>2
  <2>6. Data!ToSet(u) = Data!ToSet(s) \cup Data!ToSet(t)
    <3>1. \A x \in Data!ToSet(u) : x \in Data!ToSet(s) \cup Data!ToSet(t)
      BY <2>2, <2>5 DEF Data!ToSet
    <3>2. ASSUME NEW i \in 1 .. p
          PROVE  s[i] \in Data!ToSet(u)
      <4>1. i \in DOMAIN u /\ u[i] = s[i]
        BY <2>2, <2>3
      <4> QED
        BY <4>1 DEF Data!ToSet
    <3>3. ASSUME NEW i \in 1 .. q
          PROVE  t[i] \in Data!ToSet(u)
      <4>1. p + i \in DOMAIN u /\ u[p + i] = t[i]
        BY <2>2, <2>4
      <4> QED
        BY <4>1 DEF Data!ToSet
    <3>4. Data!ToSet(s) = {s[i] : i \in 1 .. p} /\ Data!ToSet(t) = {t[i] : i \in 1 .. q}
      BY <2>2 DEF Data!ToSet
    <3> QED
      BY <3>1, <3>2, <3>3, <3>4
  <2> QED
    BY <2>6 DEF u
<1> DEFINE All(k) == UNION {Data!ToSet(W[j]) : j \in 1 .. k}
           bad == {k \in 0 .. n : Data!ToSet(h[1 .. k]) # All(k)}
<1>11. bad = {}
  <2> SUFFICES ASSUME bad # {} PROVE FALSE
    OBVIOUS
  <2>1. bad \in SUBSET Nat
    OBVIOUS
  <2>2. PICK m \in bad : \A k \in bad : m <= k
    <3> HIDE DEF bad
    <3> QED
      BY <2>1, LeastNumber
  <2>3. CASE m = 0
    <3>1. Data!ToSet(b) = {} /\ All(0) = {}
      BY DEF Data!ToSet, b
    <3> QED
      BY <1>5, <2>2, <2>3, <3>1
  <2>4. CASE m # 0
    <3>1. m \in 1 .. n /\ m - 1 \in 0 .. n /\ ~ (m <= m - 1)
      BY <2>4
    <3>2. Data!ToSet(h[1 .. m - 1]) = All(m - 1)
      BY <2>2, <3>1
    <3>3. h[1 .. m] = h[1 .. m - 1] \o W[m] /\ h[1 .. m - 1] \in Seq(X) /\ W[m] \in Seq(X)
      BY <1>5, <3>1 DEF A
    <3>4. Data!ToSet(h[1 .. m]) = All(m - 1) \cup Data!ToSet(W[m])
      BY <1>10, <3>2, <3>3
    <3>5. 1 .. m = (1 .. m - 1) \cup {m}
      BY <3>1
    <3>6. All(m) = All(m - 1) \cup Data!ToSet(W[m])
      BY <3>5
    <3> QED
      BY <2>2, <3>4, <3>6
  <2> QED
    BY <2>3, <2>4
<1> QED
  <2>1. n \in 0 .. n
    OBVIOUS
  <2> QED
    BY <1>9, <1>11, <2>1

\* max(a, b).
LEMMA MaxOfTwo ==
    ASSUME NEW a \in Nat, NEW b \in Nat
    PROVE  Data!Max({a, b}) = IF a >= b THEN a ELSE b
<1> DEFINE m == IF a >= b THEN a ELSE b
<1>1. m \in Nat /\ {a, b} \in SUBSET (0 .. m) /\ {a, b} # {} /\ m \in {a, b}
  OBVIOUS
<1> HIDE DEF m
<1>2. Max({a, b}) \in {a, b} /\ \A x \in {a, b} : x <= Max({a, b})
  BY <1>1, LargestNumber
<1>3. Max({a, b}) = m
  BY <1>1, <1>2 DEF m
<1> QED
  BY <1>3 DEF Data!Max, Max, m

\* The sizes of the parts fit: there is something to train on and nothing too many.
LEMMA SizesFit ==
    ASSUME NEW n \in Nat \ {0}, NEW ratio \in (0 .. 100) \X (0 .. 100)
    PROVE  /\ Data!Sizes(n, ratio)[1] \in 1 .. n
           /\ Data!Sizes(n, ratio)[2] \in 0 .. n - Data!Sizes(n, ratio)[1]
<1>1. ASSUME NEW r \in 0 .. 100
      PROVE  (n * r) \div 100 \in 0 .. n
  <2>1. n * r \in Nat /\ n * r <= n * 100
    BY SMTT(30)
  <2> DEFINE z == n * r
  <2>2. z \in Nat /\ z <= n * 100
    BY <2>1
  <2> HIDE DEF z
  <2>3. z \div 100 \in 0 .. n
    BY <2>2
  <2> QED
    BY <2>3 DEF z
<1> DEFINE q1 == (n * ratio[1]) \div 100
           q2 == (n * ratio[2]) \div 100
           a  == Data!Max({1, q1})
           v  == IF ratio[2] > 0 THEN Data!Max({1, q2}) ELSE 0
           w  == IF a + v >= n THEN Data!Max({0, n - a}) ELSE v
<1>2. q1 \in 0 .. n /\ q2 \in 0 .. n
  BY <1>1
<1>3. Data!Sizes(n, ratio) = <<a, w>>
  BY DEF Data!Sizes
<1> HIDE DEF q1, q2
<1>4. a \in 1 .. n
  BY <1>2, MaxOfTwo
<1>5. v \in Nat
  BY <1>2, MaxOfTwo
<1> HIDE DEF a, v
<1>6. w \in 0 .. n - a
  <2>1. Data!Max({0, n - a}) = IF 0 >= n - a THEN 0 ELSE n - a
    BY <1>4, MaxOfTwo
  <2> QED
    BY <1>4, <1>5, <2>1
<1> HIDE DEF w
<1> QED
  BY <1>3, <1>4, <1>6

\* The parts are three pieces of the shuffled indices, one after the other.
Pieces(sp, indices, a, c) ==
    sp = [train |-> [p \in 1 .. a |-> indices[p]],
          val   |-> [p \in 1 .. c - a |-> indices[a + p]],
          test  |-> [p \in 1 .. Len(indices) - c |-> indices[c + p]]]

\* create_dataloaders cuts the shuffled indices into train, validation and test pieces that
\* neither overlap nor leave one out.
LEMMA SplitPieces ==
    ASSUME NEW X, NEW indices \in Seq(X), indices # <<>>,
           NEW ratio \in (0 .. 100) \X (0 .. 100)
    PROVE  \E a, c \in 0 .. Len(indices) : a <= c /\ Pieces(Data!Split(indices, ratio), indices, a, c)
<1> DEFINE n  == Len(indices)
           sz == Data!Sizes(n, ratio)
           a  == sz[1]
           v  == sz[2]
           val  == SubSeq(indices, a + 1, a + v)
           test == SubSeq(indices, a + v + 1, n)
           borrow == test = <<>> /\ Len(val) > 1
<1>1. n \in Nat \ {0} /\ DOMAIN indices = 1 .. n
  OBVIOUS
<1>2. a \in 1 .. n /\ v \in 0 .. n - a
  BY <1>1, SizesFit
<1>3. Data!Split(indices, ratio)
        = [train |-> SubSeq(indices, 1, a), val |-> IF borrow THEN Data!Front(val) ELSE val,
           test |-> IF borrow THEN <<Data!Last(val)>> ELSE test]
  BY DEF Data!Split
<1> HIDE DEF sz, a, v, n
<1>4. /\ SubSeq(indices, 1, a) = [p \in 1 .. a |-> indices[p]]
      /\ val = [p \in 1 .. v |-> indices[a + p]]
      /\ test = [p \in 1 .. n - (a + v) |-> indices[(a + v) + p]]
  BY <1>1, <1>2
<1>5. Len(val) = v /\ Len(test) = n - (a + v)
  BY <1>1, <1>2, <1>4
<1>6. CASE ~ borrow
  <2>1. a \in 0 .. n /\ a + v \in 0 .. n /\ a <= a + v /\ (a + v) - a = v
    BY <1>1, <1>2
  <2>2. Pieces(Data!Split(indices, ratio), indices, a, a + v)
    <3> HIDE DEF val, test, borrow
    <3> QED
      BY <1>3, <1>4, <1>6, <2>1 DEF Pieces, n
  <2> QED
    BY <2>1, <2>2 DEF n
<1>7. CASE borrow
  <2>1. a + v = n /\ v > 1
    BY <1>1, <1>2, <1>5, <1>7
  <2>2. /\ Data!Front(val) = [p \in 1 .. v - 1 |-> indices[a + p]]
        /\ <<Data!Last(val)>> = [p \in 1 .. 1 |-> indices[(n - 1) + p]]
    <3>1. Data!Front(val) = SubSeq(val, 1, v - 1) /\ Data!Last(val) = val[v]
      BY <1>5 DEF Data!Front, Data!Last
    <3>2. SubSeq(val, 1, v - 1) = [p \in 1 .. v - 1 |-> indices[a + p]]
      BY <1>1, <1>2, <1>4, <2>1
    <3>3. val[v] = indices[a + v] /\ a + v = (n - 1) + 1
      BY <1>1, <1>2, <1>4, <2>1
    <3> HIDE DEF val
    <3> QED
      BY <3>1, <3>2, <3>3
  <2>3. a \in 0 .. n /\ n - 1 \in 0 .. n /\ a <= n - 1 /\ (n - 1) - a = v - 1 /\ n - (n - 1) = 1
    BY <1>1, <1>2, <2>1
  <2>4. Pieces(Data!Split(indices, ratio), indices, a, n - 1)
    <3> HIDE DEF val, test, borrow
    <3> QED
      BY <1>3, <1>4, <1>7, <2>2, <2>3 DEF Pieces, n
  <2> QED
    BY <2>3, <2>4 DEF n
<1> QED
  BY <1>6, <1>7

\* The ends of an interval.
LEMMA IntervalEnds ==
    ASSUME NEW a \in Nat, NEW b \in Nat, a <= b
    PROVE  Data!Max(a .. b) = b /\ Data!Min(a .. b) = a
<1>1. Data!Max(a .. b) = CHOOSE x \in a .. b : \A y \in a .. b : x >= y
  BY DEF Data!Max
<1>2. Data!Min(a .. b) = CHOOSE x \in a .. b : \A y \in a .. b : x <= y
  BY DEF Data!Min
<1>3. b \in a .. b /\ a \in a .. b
  OBVIOUS
<1>4. (CHOOSE x \in a .. b : \A y \in a .. b : x >= y) = b
  <2>1. \A x \in a .. b : (\A y \in a .. b : x >= y) <=> x = b
    BY <1>3
  <2> QED
    BY <1>3, <2>1
<1>5. (CHOOSE x \in a .. b : \A y \in a .. b : x <= y) = a
  <2>1. \A x \in a .. b : (\A y \in a .. b : x <= y) <=> x = a
    BY <1>3
  <2> QED
    BY <1>3, <2>1
<1> QED
  BY <1>1, <1>2, <1>4, <1>5

\* The window of sequence s that starts at step i, and the last start there is.
WindowAt(s, i) == [seq |-> s, x |-> i .. i + seq_len - 1,
                   y |-> i + seq_len .. i + (seq_len + forecast_horizon) - 1]
LastStart(s)   == lengths[s] - (seq_len + forecast_horizon) + 1

\* extract_sliding_windows takes every window of the given sequences and no other.
LEMMA AllWindows ==
    ASSUME lengths \in Seq(Nat), NEW seqs \in Seq(DOMAIN lengths), NEW w
    PROVE  w \in Data!ToSet(Data!extract_sliding_windows(seqs))
             <=> \E s \in Data!ToSet(seqs) : \E i \in 1 .. LastStart(s) : w = WindowAt(s, i)
<1> USE DataAssumed DEF Data!DataAssumption
<1> DEFINE n == Len(seqs)
           X == [seq : DOMAIN lengths, x : SUBSET Int, y : SUBSET Int]
           W == [k \in DOMAIN seqs |-> Data!Windows(seqs[k])]
<1>1. n \in Nat /\ DOMAIN seqs = 1 .. n /\ \A k \in 1 .. n : seqs[k] \in DOMAIN lengths
  OBVIOUS
<1>2. ASSUME NEW s \in DOMAIN lengths
      PROVE  /\ Data!Windows(s) = [i \in 1 .. LastStart(s) |-> WindowAt(s, i)]
             /\ Data!Windows(s) \in Seq(X)
             /\ Data!ToSet(Data!Windows(s)) = {WindowAt(s, i) : i \in 1 .. LastStart(s)}
  <2>1. Data!Windows(s) = [i \in 1 .. LastStart(s) |-> WindowAt(s, i)]
    BY DEF Data!Windows, LastStart, WindowAt
  <2>2. LastStart(s) \in Int
    BY DEF LastStart
  <2>3. \A i \in 1 .. LastStart(s) : WindowAt(s, i) \in X
    BY <2>2 DEF WindowAt
  <2> DEFINE L == LastStart(s)
             m == IF L > 0 THEN L ELSE 0
             V(i) == WindowAt(s, i)
  <2>4. m \in Nat /\ 1 .. L = 1 .. m
    BY <2>2
  <2>5. \A i \in 1 .. m : V(i) \in X
    BY <2>3, <2>4
  <2> HIDE DEF V, X, m
  <2>6. [i \in 1 .. m |-> V(i)] \in Seq(X)
    BY <2>4, <2>5
  <2>7. Data!ToSet([i \in 1 .. m |-> V(i)]) = {V(i) : i \in 1 .. m}
    BY DEF Data!ToSet
  <2> QED
    BY <2>1, <2>4, <2>6, <2>7 DEF V
<1>3. W \in [1 .. n -> Seq(X)] /\ \A k \in 1 .. n : W[k] = Data!Windows(seqs[k])
  BY <1>1, <1>2
<1>4. Data!extract_sliding_windows(seqs) = Data!FlattenSeq(W)
  BY DEF Data!extract_sliding_windows
<1> HIDE DEF W, X, n
<1>5. Data!ToSet(Data!FlattenSeq(W)) = UNION {Data!ToSet(W[k]) : k \in 1 .. n}
  BY <1>1, <1>3, FlattenElements
<1>6. w \in Data!ToSet(Data!FlattenSeq(W))
        <=> \E k \in 1 .. n : \E i \in 1 .. LastStart(seqs[k]) : w = WindowAt(seqs[k], i)
  <2>1. ASSUME NEW k \in 1 .. n
        PROVE  Data!ToSet(W[k]) = {WindowAt(seqs[k], i) : i \in 1 .. LastStart(seqs[k])}
    BY <1>1, <1>2, <1>3
  <2> DEFINE U(k) == Data!ToSet(W[k])
             P(k) == \E i \in 1 .. LastStart(seqs[k]) : w = WindowAt(seqs[k], i)
  <2>2. \A k \in 1 .. n : w \in U(k) <=> P(k)
    BY <2>1
  <2>3. Data!ToSet(Data!FlattenSeq(W)) = UNION {U(k) : k \in 1 .. n}
    BY <1>5
  <2> HIDE DEF U, P
  <2>4. w \in Data!ToSet(Data!FlattenSeq(W)) <=> \E k \in 1 .. n : P(k)
    BY <2>2, <2>3
  <2> QED
    BY <2>4 DEF P
<1>7. Data!ToSet(seqs) = {seqs[k] : k \in 1 .. n}
  BY <1>1 DEF Data!ToSet
<1> QED
  BY <1>4, <1>6, <1>7

\* What create_dataloaders leaves: every sequence once, windows of whole sequences only.
LEMMA NothingLeaks ==
    ASSUME lengths \in Seq(Nat), lengths # <<>>, NEW indices \in Data!SetToSeqs(DOMAIN lengths),
           NEW ratio \in Ratios, Data!create_dataloaders(indices, ratio)
    PROVE  Data!NoLeakage'
<1> USE DataAssumed DEF Data!DataAssumption
<1> DEFINE n == Len(lengths)
           loaders == {"train", "val", "test"}
<1>1. n \in Nat \ {0} /\ DOMAIN lengths = 1 .. n
  OBVIOUS
<1>2. /\ indices \in [1 .. n -> 1 .. n] /\ indices \in Seq(1 .. n) /\ Len(indices) = n
      /\ indices # <<>>
      /\ \A i, j \in 1 .. n : i # j => indices[i] # indices[j]
      /\ \A s \in 1 .. n : \E q \in 1 .. n : indices[q] = s
  <2>1. Data!Cardinality(1 .. n) = n
    <3>1. Cardinality(1 .. n) = n
      BY <1>1, FS_Interval
    <3>2. \A S : Data!Cardinality(S) = Cardinality(S)
      BY Zenon DEF Data!Cardinality, Cardinality
    <3> QED
      BY <3>1, <3>2
  <2>2. /\ indices \in [1 .. n -> 1 .. n]
        /\ \A i, j \in 1 .. n : i # j => indices[i] # indices[j]
    BY <1>1, <2>1 DEF Data!SetToSeqs
  <2>3. indices \in Injection(1 .. n, 1 .. n)
    BY <2>2 DEF Injection, IsInjective
  <2>4. IsFiniteSet(1 .. n)
    BY <1>1, FS_Interval
  <2>5. indices \in Surjection(1 .. n, 1 .. n)
    BY <2>3, <2>4, FS_Injection
  <2>6. \A s \in 1 .. n : \E q \in 1 .. n : indices[q] = s
    BY <2>5 DEF Surjection
  <2>7. indices \in Seq(1 .. n) /\ Len(indices) = n /\ indices # <<>>
    <3>1. n \in Nat /\ n # 0
      BY <1>1
    <3> HIDE DEF n
    <3>2. indices \in Seq(1 .. n) /\ Len(indices) = n
      BY <2>2, <3>1
    <3>3. Len(<<>>) = 0
      OBVIOUS
    <3> QED
      BY <3>1, <3>2, <3>3
  <2> QED
    BY <2>2, <2>6, <2>7
<1>3. /\ split' = Data!Split(indices, ratio) /\ scaler' = Data!fit(split'.train)
      /\ lengths' = lengths
      /\ samples' = [loader \in DOMAIN split |-> Data!extract_sliding_windows(split'[loader])]
      /\ DOMAIN split = loaders
  BY DEF Data!create_dataloaders, Data!NotLoaded
<1>4. PICK a \in 0 .. n, c \in 0 .. n : a <= c /\ Pieces(split', indices, a, c)
  <2>1. ratio \in (0 .. 100) \X (0 .. 100)
    OBVIOUS
  <2> QED
    BY <1>2, <1>3, <2>1, SplitPieces
<1> DEFINE off == [l \in loaders |-> IF l = "train" THEN 0 ELSE IF l = "val" THEN a ELSE c]
           cnt == [l \in loaders |-> IF l = "train" THEN a
                                     ELSE IF l = "val" THEN c - a ELSE n - c]
<1>5. /\ DOMAIN split' = loaders
      /\ \A l \in loaders : split'[l] = [p \in 1 .. cnt[l] |-> indices[off[l] + p]]
  BY <1>2, <1>4 DEF Pieces
<1>6. /\ \A l \in loaders : /\ cnt[l] \in Nat /\ off[l] \in Nat /\ cnt[l] <= n
                             /\ \A p \in 1 .. cnt[l] : off[l] + p \in 1 .. n
      /\ \A q \in 1 .. n : \E l \in loaders : q - off[l] \in 1 .. cnt[l]
      /\ \A l, m \in loaders : \A p \in 1 .. cnt[l], r \in 1 .. cnt[m] :
            l # m => off[l] + p # off[m] + r
  BY <1>1, <1>4
<1> HIDE DEF off, cnt, n
<1>7. ASSUME NEW l \in loaders
      PROVE  /\ split'[l] \in Seq(1 .. n) /\ Len(split'[l]) = cnt[l]
             /\ DOMAIN split'[l] = 1 .. cnt[l]
             /\ \A p \in 1 .. cnt[l] : split'[l][p] = indices[off[l] + p]
             /\ Data!ToSet(split'[l]) = {indices[off[l] + p] : p \in 1 .. cnt[l]}
  <2> DEFINE k == cnt[l]
             o == off[l]
             s == split'[l]
  <2>1. k \in Nat /\ \A p \in 1 .. k : indices[o + p] \in 1 .. n
    BY <1>2, <1>6
  <2>2. s = [p \in 1 .. k |-> indices[o + p]]
    BY <1>5
  <2> HIDE DEF k, o, s
  <2>3. s \in Seq(1 .. n) /\ Len(s) = k /\ DOMAIN s = 1 .. k
        /\ \A p \in 1 .. k : s[p] = indices[o + p]
    BY <2>1, <2>2
  <2>4. Data!ToSet(s) = {indices[o + p] : p \in 1 .. k}
    BY <2>2 DEF Data!ToSet
  <2> QED
    BY <2>3, <2>4 DEF k, o, s
<1>8. ASSUME NEW l \in loaders, NEW m \in loaders, l # m
      PROVE  Data!ToSet(split'[l]) \cap Data!ToSet(split'[m]) = {}
  <2> SUFFICES ASSUME NEW x \in Data!ToSet(split'[l]), x \in Data!ToSet(split'[m])
               PROVE  FALSE
    OBVIOUS
  <2>1. PICK p \in 1 .. cnt[l] : x = indices[off[l] + p]
    <3>1. Data!ToSet(split'[l]) = {indices[off[l] + p] : p \in 1 .. cnt[l]}
      BY <1>7
    <3> QED
      BY <3>1
  <2>2. PICK r \in 1 .. cnt[m] : x = indices[off[m] + r]
    <3>1. Data!ToSet(split'[m]) = {indices[off[m] + j] : j \in 1 .. cnt[m]}
      BY <1>7
    <3> QED
      BY <3>1
  <2>3. off[l] + p \in 1 .. n /\ off[m] + r \in 1 .. n /\ off[l] + p # off[m] + r
    BY <1>6, <1>8
  <2> QED
    BY <1>2, <2>1, <2>2, <2>3
<1>9. ASSUME NEW s \in 1 .. n
      PROVE  Data!Cardinality({p \in loaders \X (1 .. n) :
                                 p[2] <= Len(split'[p[1]]) /\ split'[p[1]][p[2]] = s}) = 1
  <2>1. PICK q \in 1 .. n : indices[q] = s
    BY <1>2
  <2>2. PICK l \in loaders : q - off[l] \in 1 .. cnt[l]
    BY <1>6
  <2> DEFINE p0 == q - off[l]
             T  == {p \in loaders \X (1 .. n) : p[2] <= Len(split'[p[1]]) /\ split'[p[1]][p[2]] = s}
  <2>3. p0 \in 1 .. n /\ p0 \in 1 .. cnt[l] /\ off[l] + p0 = q
    <3>1. n \in Nat /\ cnt[l] \in Nat /\ off[l] \in Nat /\ cnt[l] <= n
      BY <1>1, <1>6
    <3> QED
      BY <2>2, <3>1
  <2> HIDE DEF p0
  <2>4. <<l, p0>> \in T
    <3>1. Len(split'[l]) = cnt[l] /\ cnt[l] \in Nat /\ split'[l][p0] = indices[off[l] + p0]
      BY <1>6, <1>7, <2>3
    <3>2. p0 <= Len(split'[l]) /\ split'[l][p0] = s
      BY <2>1, <2>3, <3>1
    <3> QED
      BY <2>3, <3>2
  <2>5. ASSUME NEW m \in loaders, NEW r \in 1 .. n, r <= Len(split'[m]), split'[m][r] = s
        PROVE  m = l /\ r = p0
    <3>1. r \in 1 .. cnt[m]
      BY SMTT(30), <1>6, <1>7, <2>5
    <3>2. indices[off[m] + r] = s /\ off[m] + r \in 1 .. n
      BY <1>6, <1>7, <2>5, <3>1
    <3>3. off[m] + r = q
      BY <1>2, <2>1, <3>2
    <3>4. m = l
      BY <1>6, <2>3, <3>1, <3>3
    <3>5. off[l] \in Nat /\ off[l] + r = off[l] + p0
      BY <1>6, <2>3, <3>3, <3>4
    <3> QED
      BY <2>3, <3>4, <3>5
  <2>6. T = {<<l, p0>>}
    BY <2>4, <2>5
  <2>7. \A S : Data!Cardinality(S) = Cardinality(S)
    BY Zenon DEF Data!Cardinality, Cardinality
  <2> HIDE DEF T
  <2>8. Data!Cardinality(T) = 1
    BY <2>6, <2>7, FS_Singleton
  <2> QED
    BY <2>8 DEF T
<1>10. ASSUME NEW l \in loaders, NEW w
       PROVE  w \in Data!ToSet(samples'[l])
                <=> \E s \in Data!ToSet(split'[l]) : \E i \in 1 .. LastStart(s) : w = WindowAt(s, i)
  <2>1. samples'[l] = Data!extract_sliding_windows(split'[l])
    BY <1>3
  <2>2. split'[l] \in Seq(DOMAIN lengths)
    BY <1>1, <1>7 DEF n
  <2> QED
    BY <2>1, <2>2, AllWindows
<1>11. ASSUME NEW s \in 1 .. n, NEW i \in 1 .. LastStart(s), NEW w, w = WindowAt(s, i)
       PROVE  /\ w.seq = s /\ Data!Max(w.x) = i + seq_len - 1 /\ Data!Min(w.y) = i + seq_len
              /\ Data!Max(w.y) <= lengths[s]
  <2>1. LastStart(s) \in Int /\ lengths[s] \in Nat
    BY <1>1 DEF LastStart, n
  <2>2. i \in Nat /\ i >= 1 /\ i <= lengths[s] - (seq_len + forecast_horizon) + 1
    BY <2>1 DEF LastStart
  <2>3. /\ i + seq_len - 1 \in Nat /\ i <= i + seq_len - 1
        /\ i + seq_len \in Nat /\ i + (seq_len + forecast_horizon) - 1 \in Nat
        /\ i + seq_len <= i + (seq_len + forecast_horizon) - 1
        /\ i + (seq_len + forecast_horizon) - 1 <= lengths[s]
    BY <2>1, <2>2
  <2>4. /\ w.seq = s /\ w.x = i .. i + seq_len - 1
        /\ w.y = i + seq_len .. i + (seq_len + forecast_horizon) - 1
    BY <1>11 DEF WindowAt
  <2> QED
    BY <2>2, <2>3, <2>4, IntervalEnds
<1>12. ASSUME NEW l \in loaders
       PROVE  Data!ToSet(split'[l]) \subseteq 1 .. n
  <2>1. Data!ToSet(split'[l]) = {indices[off[l] + p] : p \in 1 .. cnt[l]}
    BY <1>7
  <2>2. \A p \in 1 .. cnt[l] : indices[off[l] + p] \in 1 .. n
    BY <1>2, <1>6
  <2> QED
    BY <2>1, <2>2
<1>13. ASSUME NEW l \in loaders, NEW z \in Data!Used(l)'
       PROVE  z[1] \in Data!ToSet(split'[l])
  <2>1. PICK w \in Data!ToSet(samples'[l]) : z \in {w.seq} \X (w.x \cup w.y)
    BY DEF Data!Used
  <2>2. \E s \in Data!ToSet(split'[l]) : \E i \in 1 .. LastStart(s) : w = WindowAt(s, i)
    <3> HIDE DEF loaders
    <3> QED
      BY <1>10, <2>1
  <2>3. PICK s \in Data!ToSet(split'[l]) : w.seq = s
    BY <2>2 DEF WindowAt
  <2> QED
    BY <2>1, <2>3
<1>14. ASSUME NEW z \in scaler'
       PROVE  z[1] \in Data!ToSet(split'["train"])
  BY <1>3 DEF Data!fit
<1>15. \A l, m \in loaders : l # m => Data!Used(l)' \cap Data!Used(m)' = {}
  BY <1>8, <1>13
<1>16. scaler' \cap (Data!Used("val")' \cup Data!Used("test")') = {}
  BY <1>8, <1>13, <1>14
<1>17. ASSUME NEW l \in loaders, NEW s \in 1 .. n, s \in Data!ToSet(split'[l])
       PROVE  {Data!Max(w.x) : w \in {v \in Data!ToSet(samples'[l]) : v.seq = s}}
                = {t \in seq_len .. lengths[s] : t + forecast_horizon <= lengths[s]}
  <2> DEFINE V == {v \in Data!ToSet(samples'[l]) : v.seq = s}
             R == {t \in seq_len .. lengths[s] : t + forecast_horizon <= lengths[s]}
  <2> HIDE DEF loaders
  <2>1. lengths[s] \in Nat /\ LastStart(s) = lengths[s] - (seq_len + forecast_horizon) + 1
    BY <1>1 DEF LastStart, n
  <2>2. ASSUME NEW w \in V
        PROVE  Data!Max(w.x) \in R
    <3>1. \E r \in Data!ToSet(split'[l]) : \E i \in 1 .. LastStart(r) : w = WindowAt(r, i)
      BY <1>10
    <3>2. PICK r \in Data!ToSet(split'[l]) : \E i \in 1 .. LastStart(r) : w = WindowAt(r, i)
      BY <3>1
    <3>3. PICK i \in 1 .. LastStart(r) : w = WindowAt(r, i)
      BY <3>2
    <3>4. r \in 1 .. n
      BY <1>12
    <3>5. r = s /\ Data!Max(w.x) = i + seq_len - 1
      BY <1>11, <3>3, <3>4
    <3>6. i \in 1 .. LastStart(s)
      BY <3>5
    <3>7. i \in Int /\ 1 <= i /\ i <= lengths[s] - (seq_len + forecast_horizon) + 1
      BY <2>1, <3>6
    <3>8. /\ i + seq_len - 1 \in seq_len .. lengths[s]
          /\ (i + seq_len - 1) + forecast_horizon <= lengths[s]
      BY <2>1, <3>7
    <3> QED
      BY <3>5, <3>8
  <2>3. ASSUME NEW t \in R
        PROVE  \E w \in V : Data!Max(w.x) = t
    <3> DEFINE i == t - seq_len + 1
               w == WindowAt(s, i)
    <3>1. i \in 1 .. LastStart(s) /\ i + seq_len - 1 = t
      BY <2>1
    <3> HIDE DEF i
    <3>2. w = WindowAt(s, i)
      OBVIOUS
    <3> HIDE DEF w
    <3>3. w.seq = s /\ Data!Max(w.x) = t
      BY <1>11, <3>1, <3>2
    <3>4. w \in Data!ToSet(samples'[l])
      BY <1>10, <1>17, <3>1, <3>2
    <3> QED
      BY <3>3, <3>4
  <2> HIDE DEF V, R
  <2>4. {Data!Max(w.x) : w \in V} = R
    BY <2>2, <2>3
  <2> QED
    BY <2>4 DEF V, R
<1>18. ASSUME NEW l \in loaders, NEW w \in Data!ToSet(samples'[l])
       PROVE  Data!Min(w.y) = Data!Max(w.x) + 1 /\ Data!Max(w.y) <= lengths[w.seq]
  <2>1. PICK s \in Data!ToSet(split'[l]) : \E i \in 1 .. LastStart(s) : w = WindowAt(s, i)
    <3> HIDE DEF loaders
    <3> QED
      BY <1>10
  <2>2. PICK i \in 1 .. LastStart(s) : w = WindowAt(s, i)
    BY <2>1
  <2>3. s \in 1 .. n /\ i \in Int
    BY <1>12
  <2> QED
    BY <1>11, <2>2, <2>3
<1> QED
  <2>1. (DOMAIN split)' = loaders /\ (DOMAIN lengths)' = 1 .. n
    BY <1>1, <1>3, <1>5 DEF n
  <2> HIDE DEF loaders
  <2>2. \A s \in (DOMAIN lengths)' :
           Data!Cardinality({p \in (DOMAIN split)' \X (DOMAIN lengths)' :
                               p[2] <= Len(split'[p[1]]) /\ split'[p[1]][p[2]] = s}) = 1
    BY <1>9, <2>1
  <2>3. \A l, m \in (DOMAIN split)' : l # m => Data!Used(l)' \cap Data!Used(m)' = {}
    BY <1>15, <2>1
  <2>4. \A l \in (DOMAIN split)', s \in (DOMAIN lengths)' : s \in Data!ToSet(split'[l]) =>
           {Data!Max(w.x) : w \in {v \in Data!ToSet(samples'[l]) : v.seq = s}}
              = {t \in seq_len .. lengths'[s] : t + forecast_horizon <= lengths'[s]}
    BY <1>3, <1>17, <2>1
  <2>5. \A l \in (DOMAIN split)' : \A w \in Data!ToSet(samples'[l]) :
           Data!Min(w.y) = Data!Max(w.x) + 1 /\ Data!Max(w.y) <= lengths'[w.seq]
    BY <1>3, <1>18, <2>1
  <2> QED
    BY <1>16, <2>2, <2>3, <2>4, <2>5 DEF Data!NoLeakage

\* The data loader runs as by itself.
LEMMA DataAlone == MCSpec => Data!Spec
<1>1. [MCNext]_allVars => [Data!Next]_(Data!vars)
  BY Zenon DEF MCNext, allVars, dataVars, Data!vars,
               Collector, Store, Stage, Feature, Loading, Evaluating, TrainingRun
<1>2. MCInit => Data!Init
  BY DEF MCInit
<1> QED
  BY <1>1, <1>2, PTL DEF MCSpec, Data!Spec

\* The lengths loaded so far, and the windows made of them.
DataInv == lengths \in Seq(Lengths) /\ Data!NoLeakage

\* Whatever the number and lengths of the sequences and whatever the shuffle, after
\* create_dataloaders every sequence is in exactly one split and gives each window it has room
\* for, no value occurs in the windows of two loaders, and the scaler was fitted on none of the
\* validation and test values.
THEOREM LoadersApart ==
    /\ Data!Spec => []Data!NoLeakage
    /\ MCSpec => []NoLeakage
<1> USE DataAssumed DEF Data!DataAssumption
<1>1. Data!Init => DataInv
  BY DEF Data!Init, DataInv, Data!NoLeakage
<1>2. DataInv /\ [Data!Next]_(Data!vars) => DataInv'
  <2> SUFFICES ASSUME DataInv, [Data!Next]_(Data!vars)
               PROVE  DataInv'
    OBVIOUS
  <2>1. lengths \in Seq(Lengths) /\ lengths \in Seq(Nat)
    <3>1. Lengths \subseteq Nat
      OBVIOUS
    <3>2. lengths \in Seq(Lengths)
      BY DEF DataInv
    <3>3. lengths \in Seq(Nat)
      <4>1. /\ Len(lengths) \in Nat /\ lengths = [i \in 1 .. Len(lengths) |-> lengths[i]]
            /\ \A i \in 1 .. Len(lengths) : lengths[i] \in Nat
        BY <3>1, <3>2
      <4> QED
        BY <4>1
    <3> QED
      BY <3>2, <3>3
  <2>2. ASSUME NEW m \in Lengths, Data!AddSequence(m)
        PROVE  DataInv'
    BY <2>1, <2>2 DEF Data!AddSequence, DataInv, Data!NoLeakage
  <2>3. ASSUME NEW indices \in Data!SetToSeqs(DOMAIN lengths), NEW ratio \in Ratios,
               Data!create_dataloaders(indices, ratio)
        PROVE  DataInv'
    <3>1. lengths # <<>> /\ lengths' = lengths
      BY <2>3 DEF Data!create_dataloaders
    <3>2. Data!NoLeakage'
      BY <2>1, <2>3, <3>1, NothingLeaks
    <3> QED
      BY <2>1, <3>1, <3>2 DEF DataInv
  <2>4. CASE UNCHANGED Data!vars
    <3>1. Data!NoLeakage' <=> Data!NoLeakage
      BY <2>4 DEF Data!vars, Data!NoLeakage, Data!Used
    <3> QED
      BY <2>4, <3>1 DEF Data!vars, DataInv
  <2> QED
    BY <2>2, <2>3, <2>4 DEF Data!Next
<1>3. DataInv => Data!NoLeakage /\ NoLeakage
  BY DEF DataInv, NoLeakage
<1>4. Data!Spec => []DataInv
  BY <1>1, <1>2, PTL DEF Data!Spec
<1> QED
  BY <1>3, <1>4, DataAlone, PTL

----------------------------------------------------------------------------
\* The warnings before attacks.

\* A confident alarm.
Sure(i) == Evaluation!Alarm(i) /\ t1_pred[i][2]

\* What evaluate_detections finds before an onset.
ScanFrom(onset) ==
    Evaluation!FoldLeft(LAMBDA acc, k : Evaluation!ScanBack(acc, onset - k, onset),
                        [consecutive |-> 0, lead |-> 0, first_correct |-> 0],
                        [k \in 1 .. Evaluation!Min({onset - 1, Lookback}) |-> k])

\* The required number of confident alarms from s on, before the onset.
WarnsFrom(s, onset) ==
    /\ s + min_consecutive_correct <= onset
    /\ \A i \in s .. s + min_consecutive_correct - 1 : Sure(i)

\* After k steps back: the streak that reaches back to onset - k, the best lead so far, and no
\* warning missed.
ScannedTo(acc, onset, k) ==
    /\ acc.consecutive \in 0 .. k
    /\ \A i \in onset - k .. onset - k + acc.consecutive - 1 : Sure(i)
    /\ acc.consecutive < k => ~ Sure(onset - k + acc.consecutive)
    /\ acc.lead \in 0 .. k
    /\ acc.lead > 0 => acc.first_correct = onset - acc.lead /\ WarnsFrom(onset - acc.lead, onset)
    /\ \A s \in onset - k .. onset - 1 : WarnsFrom(s, onset) => onset - s <= acc.lead

\* What the backward scan carries.
Accs == [consecutive : Nat, lead : Nat, first_correct : Int]

\* One step of the backward scan keeps what it has found: a break of the run resets the
\* count, and a run of the required length moves the lead back to its first alarm.
LEMMA ScanStep ==
    ASSUME NEW onset \in Nat, NEW k \in Nat \ {0}, NEW acc \in Accs,
           ScannedTo(acc, onset, k - 1), min_consecutive_correct \in Nat \ {0}
    PROVE  ScannedTo(Evaluation!ScanBack(acc, onset - k, onset), onset, k)
<1> DEFINE idx == onset - k
           mcc == min_consecutive_correct
           c   == acc.consecutive
           streak == IF Sure(idx) THEN c + 1 ELSE 0
           hit == Sure(idx) /\ streak >= mcc
           new == Evaluation!ScanBack(acc, onset - k, onset)
<1>1. /\ c \in 0 .. k - 1 /\ c \in Nat
      /\ \A i \in idx + 1 .. idx + c : Sure(i)
      /\ c < k - 1 => ~ Sure(idx + c + 1)
      /\ acc.lead \in 0 .. k - 1
      /\ acc.lead > 0 => acc.first_correct = onset - acc.lead /\ WarnsFrom(onset - acc.lead, onset)
      /\ \A s \in idx + 1 .. onset - 1 : WarnsFrom(s, onset) => onset - s <= acc.lead
  <2>1. onset - (k - 1) = idx + 1 /\ (idx + 1) + c - 1 = idx + c /\ (idx + 1) + c = idx + c + 1
    BY DEF Accs
  <2>2. c \in Nat
    BY DEF Accs
  <2> QED
    BY <2>1, <2>2 DEF ScannedTo
<1>2. new = IF hit THEN [consecutive |-> streak, lead |-> k, first_correct |-> idx]
                   ELSE [acc EXCEPT !.consecutive = streak]
  <2>1. onset - idx = k /\ k > acc.lead
    BY <1>1
  <2>2. new = IF Sure(idx) /\ streak >= mcc /\ onset - idx > acc.lead
              THEN [consecutive |-> streak, lead |-> onset - idx, first_correct |-> idx]
              ELSE [acc EXCEPT !.consecutive = streak]
    BY Zenon DEF Evaluation!ScanBack, Sure
  <2> QED
    BY <2>1, <2>2
<1> HIDE DEF new
<1>3. /\ streak \in 0 .. k
      /\ \A i \in idx .. idx + streak - 1 : Sure(i)
      /\ streak < k => ~ Sure(idx + streak)
  BY <1>1
<1>4. WarnsFrom(idx, onset) <=> hit
  <2>1. ASSUME hit PROVE WarnsFrom(idx, onset)
    BY <1>1, <1>3, <2>1 DEF WarnsFrom
  <2>2. ASSUME WarnsFrom(idx, onset) PROVE hit
    <3>1. idx + mcc <= onset /\ \A i \in idx .. idx + mcc - 1 : Sure(i)
      BY <2>2 DEF WarnsFrom
    <3>2. ~ (streak < mcc)
      <4> SUFFICES ASSUME streak < mcc PROVE FALSE
        OBVIOUS
      <4>1. idx + streak \in idx .. idx + mcc - 1 /\ streak < k
        BY <1>3, <3>1
      <4> HIDE DEF streak
      <4> QED
        BY <1>3, <3>1, <4>1
    <3>3. Sure(idx)
      BY <3>1
    <3> HIDE DEF streak
    <3> QED
      BY <1>3, <3>2, <3>3
  <2> QED
    BY <2>1, <2>2
<1> HIDE DEF streak
<1>5. CASE hit
  <2>1. new.consecutive = streak /\ new.lead = k /\ new.first_correct = idx
    BY <1>2, <1>5
  <2>2. onset - k = idx /\ k \in 0 .. k /\ \A s \in idx .. onset - 1 : onset - s <= k
    OBVIOUS
  <2>3. WarnsFrom(idx, onset)
    BY <1>4, <1>5
  <2> HIDE DEF idx, hit
  <2> QED
    BY <1>3, <2>1, <2>2, <2>3 DEF ScannedTo, new
<1>6. CASE ~ hit
  <2>1. new.consecutive = streak /\ new.lead = acc.lead /\ new.first_correct = acc.first_correct
    BY <1>2, <1>6 DEF Accs
  <2>2. onset - k = idx /\ acc.lead \in 0 .. k
    BY <1>1
  <2>3. ASSUME NEW s \in idx .. onset - 1, WarnsFrom(s, onset)
        PROVE  onset - s <= acc.lead
    <3>1. s # idx
      BY <1>4, <1>6, <2>3
    <3>2. s \in idx + 1 .. onset - 1
      BY <3>1
    <3> QED
      BY <1>1, <2>3, <3>2
  <2> HIDE DEF idx, hit
  <2> QED
    BY <1>1, <1>3, <2>1, <2>2, <2>3 DEF ScannedTo, new
<1> QED
  BY <1>5, <1>6

\* evaluate_detections finds the earliest warning within reach.
LEMMA ScanAll ==
    ASSUME NEW onset \in Nat \ {0}, min_consecutive_correct \in Nat \ {0}, Lookback \in Nat
    PROVE  LET K == Evaluation!Min({onset - 1, Lookback})
           IN  /\ K = IF onset - 1 <= Lookback THEN onset - 1 ELSE Lookback
               /\ ScannedTo(ScanFrom(onset), onset, K)
<1> DEFINE n  == Evaluation!Min({onset - 1, Lookback})
           b  == [consecutive |-> 0, lead |-> 0, first_correct |-> 0]
           F  == [p \in Accs \X (1 .. n) |-> Evaluation!ScanBack(p[1], onset - p[2], onset)]
           id == [k \in 1 .. n |-> k]
           Eq(g) == g = [T \in SUBSET (DOMAIN id) |->
                            IF T = {} THEN b
                            ELSE Evaluation!ScanBack(g[T \ {Evaluation!Max(T)}],
                                                     onset - id[Evaluation!Max(T)], onset)]
<1>0. ScanFrom(onset) = (CHOOSE g : Eq(g))[DOMAIN id]
  BY DEF ScanFrom, Evaluation!FoldLeft, Evaluation!MapThenFoldSet
<1>1. n = (IF onset - 1 <= Lookback THEN onset - 1 ELSE Lookback) /\ n \in Nat
  <2> DEFINE m == IF onset - 1 <= Lookback THEN onset - 1 ELSE Lookback
  <2>1. n = CHOOSE x \in {onset - 1, Lookback} : \A y \in {onset - 1, Lookback} : x <= y
    BY DEF Evaluation!Min
  <2>2. \A x \in {onset - 1, Lookback} : (\A y \in {onset - 1, Lookback} : x <= y) <=> x = m
    OBVIOUS
  <2>3. m \in {onset - 1, Lookback} /\ m \in Nat
    OBVIOUS
  <2> HIDE DEF m, n
  <2>4. n = m
    BY <2>1, <2>2, <2>3
  <2> QED
    BY <2>3, <2>4 DEF m
<1> HIDE DEF n
<1>2. b \in Accs
  BY DEF Accs
<1>3. ASSUME NEW acc \in Accs, NEW k \in 1 .. n
      PROVE  Evaluation!ScanBack(acc, onset - k, onset) \in Accs
  <2> DEFINE sure == Evaluation!Alarm(onset - k) /\ t1_pred[onset - k][2]
             streak == IF sure THEN acc.consecutive + 1 ELSE 0
  <2>1. streak \in Nat /\ onset - (onset - k) = k /\ k \in Nat /\ onset - k \in Int
    BY <1>1 DEF Accs
  <2>2. Evaluation!ScanBack(acc, onset - k, onset)
          = IF sure /\ streak >= min_consecutive_correct /\ onset - (onset - k) > acc.lead
            THEN [consecutive |-> streak, lead |-> onset - (onset - k), first_correct |-> onset - k]
            ELSE [acc EXCEPT !.consecutive = streak]
    BY Zenon DEF Evaluation!ScanBack
  <2> HIDE DEF streak, sure
  <2> QED
    BY <2>1, <2>2 DEF Accs
<1>4. F \in [Accs \X (1 .. n) -> Accs]
  BY <1>3
<1>5. ASSUME NEW acc \in Accs, NEW k \in 1 .. n
      PROVE  F[<<acc, k>>] = Evaluation!ScanBack(acc, onset - k, onset)
  OBVIOUS
<1> HIDE DEF F, b
<1>6. PICK h : IsScan(h, Accs, b, F, n)
  BY <1>1, <1>2, <1>4, ScanExists
<1>7. /\ DOMAIN id = 1 .. n
      /\ \A T \in SUBSET (1 .. n) :
            T # {} => Max(T) \in 1 .. n /\ id[Evaluation!Max(T)] = Max(T)
      /\ \A T : Evaluation!Max(T) = Max(T)
  <2>1. DOMAIN id = 1 .. n /\ \A k \in 1 .. n : id[k] = k
    OBVIOUS
  <2>2. \A T \in SUBSET (1 .. n) : T # {} => Max(T) \in 1 .. n
    BY <1>1, PrefixMax
  <2>3. \A T : Evaluation!Max(T) = Max(T)
    BY DEF Evaluation!Max, Max
  <2> QED
    BY <2>1, <2>2, <2>3
<1> HIDE DEF id
<1>8. h \in [SUBSET (1 .. n) -> Accs] /\ OnSubsets(h, 1 .. n)
  BY <1>6 DEF IsScan, OnSubsets
<1>9. \A T \in SUBSET (1 .. n) :
         h[T] = IF T = {} THEN b
                ELSE Evaluation!ScanBack(h[T \ {Max(T)}], onset - Max(T), onset)
  BY <1>5, <1>6, <1>7, <1>8 DEF IsScan
<1>10. Eq(h)
  BY <1>7, <1>8, <1>9 DEF OnSubsets
<1>11. ASSUME NEW g, Eq(g)
       PROVE  g = h
  <2>1. OnSubsets(g, 1 .. n)
    BY <1>7, <1>11 DEF OnSubsets
  <2>2. \A T \in SUBSET (1 .. n) :
         g[T] = IF T = {} THEN b
                ELSE Evaluation!ScanBack(g[T \ {Max(T)}], onset - Max(T), onset)
    BY <1>7, <1>11
  <2>3. \A T \in SUBSET (1 .. n) :
              (T # {} => g[T \ {Max(T)}] = h[T \ {Max(T)}]) => g[T] = h[T]
    BY <1>9, <2>2
  <2> QED
    BY <1>1, <1>8, <2>1, <2>3, ScanUnique
<1>12. (CHOOSE g : Eq(g)) = h
  <2> HIDE DEF Eq
  <2> QED
    BY <1>10, <1>11
<1>13. ScanFrom(onset) = h[1 .. n]
  BY <1>0, <1>7, <1>12
<1>14. ScannedTo(h[1 .. 0], onset, 0)
  <2>1. h[1 .. 0] = b
    BY <1>6 DEF IsScan
  <2>2. /\ b.consecutive \in 0 .. 0 /\ b.lead \in 0 .. 0 /\ b.lead = 0 /\ b.consecutive = 0
        /\ onset - 0 .. onset - 1 = {} /\ onset - 0 .. onset - 0 + 0 - 1 = {}
    BY DEF b
  <2> QED
    BY <2>1, <2>2 DEF ScannedTo
<1>15. ASSUME NEW k \in 1 .. n, ScannedTo(h[1 .. k - 1], onset, k - 1)
       PROVE  ScannedTo(h[1 .. k], onset, k)
  <2>1. h[1 .. k] = F[<<h[1 .. k - 1], k>>] /\ h[1 .. k - 1] \in Accs
    <3>1. 1 .. k - 1 \in SUBSET (1 .. n)
      BY <1>1
    <3> QED
      BY <1>6, <1>8, <3>1 DEF IsScan
  <2>2. h[1 .. k] = Evaluation!ScanBack(h[1 .. k - 1], onset - k, onset)
    BY <1>5, <2>1
  <2>3. k \in Nat \ {0}
    BY <1>1
  <2> QED
    BY <1>15, <2>1, <2>2, <2>3, ScanStep
<1>16. ScannedTo(h[1 .. n], onset, n)
  <2> DEFINE bad == {k \in 0 .. n : ~ ScannedTo(h[1 .. k], onset, k)}
  <2>1. bad = {}
    <3> SUFFICES ASSUME bad # {} PROVE FALSE
      OBVIOUS
    <3>1. bad \in SUBSET Nat
      BY <1>1
    <3>2. PICK m \in bad : \A k \in bad : m <= k
      <4> HIDE DEF bad
      <4> QED
        BY <3>1, LeastNumber
    <3>3. m \in 1 .. n
      BY <1>1, <1>14
    <3>4. m - 1 \in 0 .. n /\ ~ (m <= m - 1)
      BY <1>1, <3>3
    <3>5. ScannedTo(h[1 .. m - 1], onset, m - 1)
      BY <3>2, <3>4
    <3> QED
      BY <1>15, <3>3, <3>5
  <2>2. n \in 0 .. n
    BY <1>1
  <2> QED
    BY <2>1, <2>2
<1> QED
  BY <1>1, <1>13, <1>16 DEF n

\* The episodes detect_episodes lists.
Episodes == [onset : Nat, peak : Nat, resolution : Nat]

\* An episode: a run of attack windows, its peak the first of the highest.
IsEpisode(e, k) ==
    /\ e.onset \in 1 .. k /\ e.resolution \in e.onset .. k /\ e.peak \in e.onset .. e.resolution
    /\ \A i \in e.onset .. e.resolution :
          Evaluation!Attack(i) /\ t1_true[i] <= t1_true[e.peak] - (IF i < e.peak THEN 1 ELSE 0)

\* detect_episodes after k windows: no two episodes touch, and every attack is in one.
EpisodesTo(eps, k) ==
    /\ \A m \in DOMAIN eps : IsEpisode(eps[m], k)
    /\ \A m, r \in DOMAIN eps : m < r => eps[m].resolution + 1 < eps[r].onset
    /\ \A i \in 1 .. k : Evaluation!Attack(i) =>
          \E m \in DOMAIN eps : i \in eps[m].onset .. eps[m].resolution

\* The order of an episode's windows.
LEMMA EpisodeOrder ==
    ASSUME NEW k \in Int, NEW e \in Episodes, IsEpisode(e, k)
    PROVE  /\ e.onset \in Nat /\ e.peak \in Nat /\ e.resolution \in Nat /\ 1 <= e.onset
           /\ e.onset <= e.peak /\ e.peak <= e.resolution /\ e.resolution <= k
BY DEF IsEpisode, Episodes

\* One window of detect_episodes: the list keeps its type.
LEMMA ExtendTyped ==
    ASSUME NEW eps \in Seq(Episodes), NEW i \in Nat
    PROVE  Evaluation!Extend(eps, i) \in Seq(Episodes)
<1> DEFINE e == Evaluation!Last(eps)
           one == [onset |-> i, peak |-> i, resolution |-> i]
           more == [e EXCEPT !.resolution = i,
                             !.peak = IF t1_true[i] > t1_true[@] THEN i ELSE @]
<1>1. Append(eps, one) \in Seq(Episodes)
  BY DEF Episodes
<1>2. CASE eps = <<>>
  BY <1>1, <1>2 DEF Evaluation!Extend
<1>3. CASE eps # <<>>
  <2>1. e \in Episodes /\ Len(eps) \in Nat /\ Len(eps) # 0
    BY <1>3 DEF Evaluation!Last
  <2> HIDE DEF e
  <2>2. more \in Episodes
    BY <2>1 DEF Episodes
  <2>3. Evaluation!Front(eps) \in Seq(Episodes)
    BY <2>1 DEF Evaluation!Front
  <2>4. Append(Evaluation!Front(eps), more) \in Seq(Episodes)
    <3> HIDE DEF more
    <3> QED
      BY <2>2, <2>3
  <2> QED
    BY <1>1, <2>4, Zenon DEF Evaluation!Extend, e
<1> QED
  BY <1>2, <1>3

\* One window of detect_episodes keeps what the list says of the windows before: an attack
\* joins the episode it touches, else opens one.
LEMMA ExtendStep ==
    ASSUME NEW n \in Nat, t1_true \in [1 .. n -> Int], NEW k \in 1 .. n,
           NEW eps \in Seq(Episodes), EpisodesTo(eps, k - 1), surge_threshold \in Int
    PROVE  EpisodesTo(Evaluation!Extend(eps, k), k)
<1> DEFINE new == Evaluation!Extend(eps, k)
           c == Len(eps)
           Att(i) == Evaluation!Attack(i)
<1>1. /\ c \in Nat /\ DOMAIN eps = 1 .. c /\ \A m \in 1 .. c : eps[m] \in Episodes
  OBVIOUS
<1>2. /\ \A m \in 1 .. c : IsEpisode(eps[m], k - 1)
      /\ \A m, r \in 1 .. c : m < r => eps[m].resolution + 1 < eps[r].onset
      /\ \A i \in 1 .. k - 1 : Att(i) => \E m \in 1 .. c : i \in eps[m].onset .. eps[m].resolution
  BY <1>1 DEF EpisodesTo
<1>3. ASSUME NEW m \in 1 .. c
      PROVE  IsEpisode(eps[m], k)
  <2> DEFINE e == eps[m]
  <2>1. IsEpisode(e, k - 1) /\ e \in Episodes
    BY <1>1, <1>2
  <2> HIDE DEF e
  <2>2. /\ e.onset \in Nat /\ e.peak \in Nat /\ e.resolution \in Nat /\ 1 <= e.onset
        /\ e.onset <= e.peak /\ e.peak <= e.resolution /\ e.resolution <= k - 1
    BY <2>1, EpisodeOrder
  <2>3. e.onset \in 1 .. k /\ e.resolution \in e.onset .. k /\ e.peak \in e.onset .. e.resolution
    BY <2>2
  <2> QED
    BY <2>1, <2>3 DEF IsEpisode, e
<1>4. CASE ~ Att(k)
  <2>1. new = eps
    BY <1>4 DEF Evaluation!Extend
  <2>2. \A i \in 1 .. k : i # k => i \in 1 .. k - 1
    OBVIOUS
  <2> QED
    BY <1>1, <1>2, <1>3, <1>4, <2>1, <2>2 DEF EpisodesTo
<1>5. CASE Att(k) /\ (eps = <<>> \/ Evaluation!Last(eps).resolution < k - 1)
  <2> DEFINE one == [onset |-> k, peak |-> k, resolution |-> k]
  <2>1. new = Append(eps, one)
    BY <1>5 DEF Evaluation!Extend
  <2>2. /\ DOMAIN new = 1 .. c + 1 /\ new[c + 1] = one
        /\ \A m \in 1 .. c : new[m] = eps[m]
    BY <1>1, <2>1
  <2>3. IsEpisode(one, k)
    BY <1>5 DEF IsEpisode
  <2>4. ASSUME NEW m \in 1 .. c
        PROVE  eps[m].resolution + 1 < k
    <3>1. eps[c].resolution < k - 1 /\ c \in 1 .. c
      BY <1>1, <1>5 DEF Evaluation!Last
    <3>2. IsEpisode(eps[m], k - 1) /\ IsEpisode(eps[c], k - 1)
      BY <1>2, <3>1
    <3>3. m < c => eps[m].resolution + 1 < eps[c].onset
      BY <1>2, <3>1
    <3>4. eps[m] \in Episodes /\ eps[c] \in Episodes
      BY <1>1, <3>1
    <3>5. /\ eps[m].resolution \in Nat /\ eps[c].onset \in Nat /\ eps[c].resolution \in Nat
          /\ eps[c].onset <= eps[c].resolution
      <4> DEFINE d == eps[m]
                 f == eps[c]
      <4>1. d \in Episodes /\ f \in Episodes /\ IsEpisode(d, k - 1) /\ IsEpisode(f, k - 1)
        BY <3>2, <3>4
      <4>2. k - 1 \in Int
        OBVIOUS
      <4> HIDE DEF d, f
      <4>3. /\ d.resolution \in Nat /\ f.onset \in Nat /\ f.resolution \in Nat
            /\ f.onset <= f.peak /\ f.peak <= f.resolution /\ f.peak \in Nat
        BY <4>1, <4>2, EpisodeOrder
      <4>4. f.onset <= f.resolution
        BY <4>3
      <4> QED
        BY <4>3, <4>4 DEF d, f
    <3>6. m = c \/ m < c
      <4>1. c \in Nat
        BY <1>1
      <4> HIDE DEF c
      <4> QED
        BY <4>1
    <3>7. CASE m = c
      <4> DEFINE x == eps[m].resolution
      <4>1. x \in Nat /\ x < k - 1
        BY <3>1, <3>5, <3>7
      <4> HIDE DEF x
      <4>2. x + 1 < k
        BY <4>1
      <4> QED
        BY <4>2 DEF x
    <3>8. CASE m < c
      <4>1. eps[m].resolution + 1 < eps[c].onset
        BY <3>3, <3>8
      <4> DEFINE x == eps[m].resolution
                 y == eps[c].onset
                 z == eps[c].resolution
      <4>2. /\ x \in Nat /\ y \in Nat /\ z \in Nat /\ y <= z
            /\ x + 1 < y /\ z < k - 1
        BY <3>1, <3>5, <4>1
      <4> HIDE DEF x, y, z
      <4>3. x + 1 < k
        BY <4>2
      <4> QED
        BY <4>3 DEF x
    <3> QED
      BY <3>6, <3>7, <3>8
  <2>5. \A m \in 1 .. c + 1 : m # c + 1 => m \in 1 .. c
    BY <1>1
  <2>6. one.onset = k /\ k \in one.onset .. one.resolution
    OBVIOUS
  <2> HIDE DEF new, one, c
  <2>7. \A m \in 1 .. c + 1 : IsEpisode(new[m], k)
    BY <1>3, <2>2, <2>3, <2>5
  <2>8. ASSUME NEW m \in 1 .. c + 1, NEW r \in 1 .. c + 1, m < r
        PROVE  new[m].resolution + 1 < new[r].onset
    <3>1. m \in 1 .. c
      BY <1>1, <2>8
    <3>2. CASE r = c + 1
      BY <2>2, <2>4, <2>6, <3>1, <3>2
    <3>3. CASE r # c + 1
      BY <1>2, <2>2, <2>5, <2>8, <3>1, <3>3
    <3> QED
      BY <3>2, <3>3
  <2>9. ASSUME NEW i \in 1 .. k, Att(i)
        PROVE  \E m \in 1 .. c + 1 : i \in new[m].onset .. new[m].resolution
    <3>1. c + 1 \in 1 .. c + 1 /\ \A m \in 1 .. c : m \in 1 .. c + 1
      BY <1>1
    <3>2. CASE i = k
      BY <2>2, <2>6, <3>1, <3>2
    <3>3. CASE i # k
      <4>1. i \in 1 .. k - 1
        BY <3>3
      <4>2. PICK m \in 1 .. c : i \in eps[m].onset .. eps[m].resolution
        BY <1>2, <2>9, <4>1
      <4> QED
        BY <2>2, <3>1, <4>2
    <3> QED
      BY <3>2, <3>3
  <2> QED
    BY <2>2, <2>7, <2>8, <2>9 DEF EpisodesTo, new
<1>6. CASE Att(k) /\ ~ (eps = <<>> \/ Evaluation!Last(eps).resolution < k - 1)
  <2> DEFINE e == eps[c]
             more == [e EXCEPT !.resolution = k,
                               !.peak = IF t1_true[k] > t1_true[@] THEN k ELSE @]
  <2>1. c \in 1 .. c /\ e \in Episodes /\ e.resolution = k - 1 /\ IsEpisode(e, k - 1)
    <3>1. c \in 1 .. c /\ ~ (e.resolution < k - 1)
      BY <1>1, <1>6 DEF Evaluation!Last
    <3>2. e \in Episodes /\ IsEpisode(e, k - 1)
      BY <1>1, <1>2, <3>1
    <3> HIDE DEF e
    <3>3. e.resolution \in Nat /\ e.resolution <= k - 1
      BY <3>2, EpisodeOrder
    <3> QED
      BY <3>1, <3>2, <3>3
  <2>2. /\ new = Append(Evaluation!Front(eps), more)
    BY <1>6, Zenon DEF Evaluation!Extend, Evaluation!Last
  <2>3. /\ DOMAIN new = 1 .. c /\ new[c] = more
        /\ \A m \in 1 .. c : m # c => new[m] = eps[m]
    BY <1>1, <2>1, <2>2 DEF Evaluation!Front
  <2>4. IsEpisode(more, k) /\ more.onset = e.onset /\ more.resolution = k
    <3> DEFINE p == IF t1_true[k] > t1_true[e.peak] THEN k ELSE e.peak
    <3>1. more.onset = e.onset /\ more.resolution = k /\ more.peak = p
      BY <2>1 DEF Episodes
    <3>2. /\ e.onset \in 1 .. k - 1 /\ e.peak \in e.onset .. k - 1
          /\ \A i \in e.onset .. k - 1 :
               Att(i) /\ t1_true[i] <= t1_true[e.peak] - (IF i < e.peak THEN 1 ELSE 0)
      BY <2>1 DEF IsEpisode
    <3>3. ASSUME NEW i \in e.onset .. k
          PROVE  Att(i) /\ t1_true[i] <= t1_true[p] - (IF i < p THEN 1 ELSE 0)
      <4>1. i = k \/ i \in e.onset .. k - 1
        BY <3>2
      <4>2. t1_true[i] \in Int /\ t1_true[e.peak] \in Int /\ t1_true[k] \in Int
        <5>1. i \in 1 .. n /\ e.peak \in 1 .. n
          BY SMTT(30), <3>2
        <5> QED
          BY <5>1
      <4>3. CASE i = k
        BY <1>6, <3>2, <4>2, <4>3
      <4>4. CASE i \in e.onset .. k - 1
        <5>1. Att(i) /\ t1_true[i] <= t1_true[e.peak] - (IF i < e.peak THEN 1 ELSE 0)
          BY <3>2, <4>4
        <5>2. e.peak \in Int /\ i \in Int /\ i < k
          BY <3>2, <4>4
        <5>3. CASE t1_true[k] > t1_true[e.peak]
          <6>1. p = k
            BY <5>3
          <6> HIDE DEF p
          <6>2. t1_true[i] <= t1_true[e.peak]
            BY <4>2, <5>1
          <6>3. t1_true[i] <= t1_true[k] - 1
            BY <4>2, <5>3, <6>2
          <6> QED
            BY <5>1, <5>2, <6>1, <6>3
        <5>4. CASE ~ (t1_true[k] > t1_true[e.peak])
          BY <4>2, <5>1, <5>2, <5>4
        <5> QED
          BY <5>3, <5>4
      <4> QED
        BY <4>1, <4>3, <4>4
    <3>4. e.onset \in 1 .. k /\ k \in e.onset .. k /\ p \in e.onset .. k
      BY <3>2
    <3> HIDE DEF p, more, e
    <3> QED
      BY <3>1, <3>3, <3>4 DEF IsEpisode
  <2> HIDE DEF new, more, c
  <2>5. \A m \in 1 .. c : IsEpisode(new[m], k)
    BY <1>3, <2>3, <2>4
  <2>6. ASSUME NEW m \in 1 .. c, NEW r \in 1 .. c, m < r
        PROVE  new[m].resolution + 1 < new[r].onset
    <3>1. m # c
      BY <1>1, <2>6
    <3>2. new[m] = eps[m] /\ new[r].onset = eps[r].onset
      BY <2>3, <2>4, <3>1
    <3> QED
      BY <1>2, <2>6, <3>2
  <2>7. ASSUME NEW i \in 1 .. k, Att(i)
        PROVE  \E m \in 1 .. c : i \in new[m].onset .. new[m].resolution
    <3>1. CASE i = k
      <4>1. more.onset \in 1 .. k
        BY <2>4 DEF IsEpisode
      <4> QED
        BY <2>1, <2>3, <2>4, <3>1, <4>1
    <3>2. CASE i # k
      <4>1. i \in 1 .. k - 1
        BY <3>2
      <4>2. PICK m \in 1 .. c : i \in eps[m].onset .. eps[m].resolution
        BY <1>2, <2>7, <4>1
      <4>3. CASE m = c
        <5>1. e.onset \in Nat /\ i \in e.onset .. k
          BY <2>1, <4>2, <4>3 DEF Episodes
        <5> QED
          BY <2>1, <2>3, <2>4, <5>1
      <4>4. CASE m # c
        BY <2>3, <4>2, <4>4
      <4> QED
        BY <4>3, <4>4
    <3> QED
      BY <3>1, <3>2
  <2> QED
    BY <2>3, <2>5, <2>6, <2>7 DEF EpisodesTo, new
<1> QED
  BY <1>4, <1>5, <1>6

\* detect_episodes finds every attack once.
LEMMA EpisodesDetected ==
    ASSUME t1_true \in Seq(Int), surge_threshold \in Int
    PROVE  /\ Evaluation!detect_episodes \in Seq(Episodes)
           /\ EpisodesTo(Evaluation!detect_episodes, Len(t1_true))
<1> DEFINE n  == Len(t1_true)
           A  == Seq(Episodes)
           b  == <<>>
           F  == [p \in A \X (1 .. n) |-> Evaluation!Extend(p[1], p[2])]
           id == [i \in DOMAIN t1_true |-> i]
           Eq(g) == g = [T \in SUBSET (DOMAIN id) |->
                            IF T = {} THEN b
                            ELSE Evaluation!Extend(g[T \ {Evaluation!Max(T)}],
                                                   id[Evaluation!Max(T)])]
<1>0. Evaluation!detect_episodes = (CHOOSE g : Eq(g))[DOMAIN id]
  BY DEF Evaluation!detect_episodes, Evaluation!FoldLeftDomain, Evaluation!FoldLeft,
         Evaluation!MapThenFoldSet
<1>1. n \in Nat /\ DOMAIN t1_true = 1 .. n /\ t1_true \in [1 .. n -> Int]
  OBVIOUS
<1> HIDE DEF n
<1>2. b \in A
  OBVIOUS
<1>3. ASSUME NEW eps \in A, NEW i \in 1 .. n
      PROVE  Evaluation!Extend(eps, i) \in A
  BY <1>1, ExtendTyped
<1>4. F \in [A \X (1 .. n) -> A]
  BY <1>3
<1>5. ASSUME NEW eps \in A, NEW i \in 1 .. n
      PROVE  F[<<eps, i>>] = Evaluation!Extend(eps, i)
  OBVIOUS
<1> HIDE DEF F, b, A
<1>6. PICK h : IsScan(h, A, b, F, n)
  BY <1>1, <1>2, <1>4, ScanExists
<1>7. /\ DOMAIN id = 1 .. n
      /\ \A T \in SUBSET (1 .. n) :
            T # {} => Max(T) \in 1 .. n /\ id[Evaluation!Max(T)] = Max(T)
      /\ \A T : Evaluation!Max(T) = Max(T)
  <2>1. DOMAIN id = 1 .. n /\ \A k \in 1 .. n : id[k] = k
    BY <1>1
  <2>2. \A T \in SUBSET (1 .. n) : T # {} => Max(T) \in 1 .. n
    BY <1>1, PrefixMax
  <2>3. \A T : Evaluation!Max(T) = Max(T)
    BY DEF Evaluation!Max, Max
  <2> QED
    BY <2>1, <2>2, <2>3
<1> HIDE DEF id
<1>8. h \in [SUBSET (1 .. n) -> A] /\ OnSubsets(h, 1 .. n)
  BY <1>6 DEF IsScan, OnSubsets
<1>9. \A T \in SUBSET (1 .. n) :
         h[T] = IF T = {} THEN b ELSE Evaluation!Extend(h[T \ {Max(T)}], Max(T))
  BY <1>5, <1>6, <1>7, <1>8 DEF IsScan
<1>10. Eq(h)
  BY <1>7, <1>8, <1>9 DEF OnSubsets
<1>11. ASSUME NEW g, Eq(g)
       PROVE  g = h
  <2>1. OnSubsets(g, 1 .. n)
    BY <1>7, <1>11 DEF OnSubsets
  <2>2. \A T \in SUBSET (1 .. n) :
         g[T] = IF T = {} THEN b ELSE Evaluation!Extend(g[T \ {Max(T)}], Max(T))
    BY <1>7, <1>11
  <2>3. \A T \in SUBSET (1 .. n) :
              (T # {} => g[T \ {Max(T)}] = h[T \ {Max(T)}]) => g[T] = h[T]
    BY <1>9, <2>2
  <2> QED
    BY <1>1, <1>8, <2>1, <2>3, ScanUnique
<1>12. (CHOOSE g : Eq(g)) = h
  <2> HIDE DEF Eq
  <2> QED
    BY <1>10, <1>11
<1>13. Evaluation!detect_episodes = h[1 .. n] /\ h[1 .. n] \in A
  <2>1. 1 .. n \in SUBSET (1 .. n)
    OBVIOUS
  <2> QED
    BY <1>0, <1>7, <1>8, <1>12, <2>1
<1>14. EpisodesTo(h[1 .. 0], 0)
  <2>1. h[1 .. 0] = b
    BY <1>6 DEF IsScan
  <2>2. DOMAIN b = {} /\ 1 .. 0 = {}
    BY DEF b
  <2> QED
    BY <2>1, <2>2 DEF EpisodesTo
<1>15. ASSUME NEW k \in 1 .. n, EpisodesTo(h[1 .. k - 1], k - 1)
       PROVE  EpisodesTo(h[1 .. k], k)
  <2>1. h[1 .. k] = F[<<h[1 .. k - 1], k>>] /\ h[1 .. k - 1] \in A
    <3>1. 1 .. k - 1 \in SUBSET (1 .. n)
      BY <1>1
    <3> QED
      BY <1>6, <1>8, <3>1 DEF IsScan
  <2>2. h[1 .. k] = Evaluation!Extend(h[1 .. k - 1], k)
    BY <1>5, <2>1
  <2> QED
    BY <1>1, <1>15, <2>1, <2>2, ExtendStep DEF A
<1>16. EpisodesTo(h[1 .. n], n)
  <2> DEFINE bad == {k \in 0 .. n : ~ EpisodesTo(h[1 .. k], k)}
  <2>1. bad = {}
    <3> SUFFICES ASSUME bad # {} PROVE FALSE
      OBVIOUS
    <3>1. bad \in SUBSET Nat
      BY <1>1
    <3>2. PICK m \in bad : \A k \in bad : m <= k
      <4> HIDE DEF bad
      <4> QED
        BY <3>1, LeastNumber
    <3>3. m \in 1 .. n
      BY <1>1, <1>14
    <3>4. m - 1 \in 0 .. n /\ ~ (m <= m - 1)
      BY <1>1, <3>3
    <3>5. EpisodesTo(h[1 .. m - 1], m - 1)
      BY <3>2, <3>4
    <3> QED
      BY <1>15, <3>3, <3>5
  <2>2. n \in 0 .. n
    BY <1>1
  <2> QED
    BY <2>1, <2>2
<1> QED
  BY <1>13, <1>16 DEF A, n

\* How far back evaluate_detections looks from an onset.
Reach(onset) == IF onset - 1 <= Lookback THEN onset - 1 ELSE Lookback

\* What evaluate_detections says of each episode.
IsDetection(d, k) ==
    /\ IsEpisode(d, k) /\ d.onset \in Nat /\ d.resolution \in Nat /\ d.lead \in 0 .. Reach(d.onset)
    /\ d.lead > 0 => d.first_correct = d.onset - d.lead /\ WarnsFrom(d.onset - d.lead, d.onset)
    /\ \A s \in d.onset - Reach(d.onset) .. d.onset - 1 : WarnsFrom(s, d.onset) => d.onset - s <= d.lead

\* What it says of all of them: no two touch, and every attack is in one.
AllDetected(ds) ==
    /\ \A m \in DOMAIN ds : IsDetection(ds[m], Len(t1_true))
    /\ \A m, r \in DOMAIN ds : m < r => ds[m].resolution + 1 < ds[r].onset
    /\ \A i \in 1 .. Len(t1_true) : Evaluation!Attack(i) =>
          \E m \in DOMAIN ds : i \in ds[m].onset .. ds[m].resolution
    /\ \E c \in Nat : DOMAIN ds = 1 .. c

\* The test set as run_benchmark draws it.
LeadTyped ==
    /\ t1_true \in Seq(0 .. 4) /\ t1_pred \in Seq((0 .. 4) \X BOOLEAN)
    /\ Len(t1_pred) = Len(t1_true) /\ min_consecutive_correct \in MinConsecutive

\* What is known of the benchmark: what it has detected, and what it has counted.
LeadInv ==
    /\ LeadTyped
    /\ evaluated => /\ AllDetected(detections)
                    /\ false_alarms = Evaluation!compute_false_alarms(detections)
                    /\ cm = Evaluation!evaluate

\* evaluate_detections keeps the episodes and finds the earliest warning of each.
LEMMA Detected ==
    ASSUME LeadTyped, NEW ds, ds = Evaluation!evaluate_detections(Evaluation!detect_episodes)
    PROVE  AllDetected(ds)
<1> USE LeadTimeAssumed DEF Evaluation!LeadTimeAssumption
<1> DEFINE eps == Evaluation!detect_episodes
           N == Len(t1_true)
<1>1. /\ t1_true \in Seq(Int) /\ surge_threshold \in Int /\ Lookback \in Nat /\ N \in Nat
      /\ min_consecutive_correct \in Nat \ {0}
  <2>1. t1_true \in Seq(0 .. 4)
    BY DEF LeadTyped
  <2>2. \A i \in 1 .. N : t1_true[i] \in Int
    BY <2>1
  <2>3. t1_true = [i \in 1 .. N |-> t1_true[i]] /\ N \in Nat
    BY <2>1
  <2>4. t1_true \in Seq(Int)
    BY <2>2, <2>3
  <2> QED
    BY <2>3, <2>4 DEF LeadTyped
<1>2. eps \in Seq(Episodes) /\ EpisodesTo(eps, N)
  BY <1>1, EpisodesDetected
<1>3. ds = [n \in DOMAIN eps |->
            [onset |-> eps[n].onset, peak |-> eps[n].peak, resolution |-> eps[n].resolution,
             lead |-> ScanFrom(eps[n].onset).lead,
             first_correct |-> ScanFrom(eps[n].onset).first_correct]]
  BY Zenon DEF Evaluation!evaluate_detections, ScanFrom
<1> HIDE DEF eps, N
<1>4. DOMAIN ds = DOMAIN eps /\ \A m \in DOMAIN eps :
         /\ ds[m].onset = eps[m].onset /\ ds[m].peak = eps[m].peak
         /\ ds[m].resolution = eps[m].resolution
         /\ ds[m].lead = ScanFrom(eps[m].onset).lead
         /\ ds[m].first_correct = ScanFrom(eps[m].onset).first_correct
  BY <1>3
<1>5. ASSUME NEW m \in DOMAIN eps
      PROVE  IsDetection(ds[m], N)
  <2> DEFINE d == ds[m]
             e == eps[m]
             o == e.onset
             best == ScanFrom(o)
  <2>1. e \in Episodes /\ IsEpisode(e, N)
    BY <1>2 DEF EpisodesTo
  <2>2. o \in Nat \ {0} /\ e.resolution \in Nat
    <3> HIDE DEF e
    <3>1. e.onset \in Nat /\ e.resolution \in Nat /\ 1 <= e.onset
      BY <1>1, <2>1, EpisodeOrder
    <3> QED
      BY <3>1
  <2>3. ScannedTo(best, o, Reach(o))
    <3> HIDE DEF o
    <3> QED
      BY <1>1, <2>2, ScanAll DEF Reach
  <2>4. /\ d.onset = o /\ d.peak = e.peak /\ d.resolution = e.resolution
        /\ d.lead = best.lead /\ d.first_correct = best.first_correct
    BY <1>4
  <2> HIDE DEF d, best
  <2>5. IsEpisode(d, N)
    BY <2>1, <2>4 DEF IsEpisode
  <2>6. /\ d.lead \in 0 .. Reach(o)
        /\ d.lead > 0 => d.first_correct = o - d.lead /\ WarnsFrom(o - d.lead, o)
        /\ \A s \in o - Reach(o) .. o - 1 : WarnsFrom(s, o) => o - s <= d.lead
    BY <2>3, <2>4 DEF ScannedTo
  <2> HIDE DEF e, o
  <2> QED
    BY <2>2, <2>4, <2>5, <2>6 DEF IsDetection, d
<1>6. \E c \in Nat : DOMAIN eps = 1 .. c
  BY <1>2
<1> QED
  BY <1>2, <1>4, <1>5, <1>6 DEF EpisodesTo, AllDetected, N

\* WarningStarts, in terms of the scan.
LEMMA StartsInReach ==
    ASSUME NEW onset \in Nat \ {0}, Lookback \in Nat, min_consecutive_correct \in Nat \ {0}
    PROVE  /\ Reach(onset) \in 0 .. onset - 1 /\ Reach(onset) <= Lookback
           /\ Evaluation!WarningStarts(onset)
                = {s \in onset - Reach(onset) .. onset - 1 : WarnsFrom(s, onset)}
<1> DEFINE low == onset - Reach(onset)
           mcc == min_consecutive_correct
<1>1. Reach(onset) \in 0 .. onset - 1 /\ Reach(onset) <= Lookback
  BY DEF Reach
<1>2. Evaluation!Max({1, onset - Lookback}) = low
  <2>1. Evaluation!Max({1, onset - Lookback})
          = CHOOSE x \in {1, onset - Lookback} : \A y \in {1, onset - Lookback} : x >= y
    BY DEF Evaluation!Max
  <2>2. low \in {1, onset - Lookback}
        /\ \A x \in {1, onset - Lookback} : (\A y \in {1, onset - Lookback} : x >= y) <=> x = low
    BY DEF Reach
  <2> HIDE DEF low
  <2> QED
    BY <2>1, <2>2
<1>3. low \in Int
  BY <1>1
<1> HIDE DEF low
<1>4. Evaluation!WarningStarts(onset)
        = {s \in low .. onset - mcc : \A i \in s .. s + mcc - 1 : Sure(i)}
  BY <1>2, Zenon DEF Evaluation!WarningStarts, Sure
<1>5. {s \in low .. onset - mcc : \A i \in s .. s + mcc - 1 : Sure(i)}
        = {s \in low .. onset - 1 : WarnsFrom(s, onset)}
  <2>1. \A s \in Int : s \in low .. onset - mcc <=> s \in low .. onset - 1 /\ s + mcc <= onset
    BY <1>3
  <2> QED
    BY <1>3, <2>1 DEF WarnsFrom
<1> QED
  BY <1>1, <1>4, <1>5 DEF low

\* The constants and the windows' types.
LEMMA LeadTypes ==
    ASSUME LeadTyped
    PROVE  /\ t1_true \in Seq(0 .. 4) /\ Len(t1_true) \in Nat /\ DOMAIN t1_true = 1 .. Len(t1_true)
           /\ DOMAIN t1_pred = 1 .. Len(t1_true)
           /\ \A i \in 1 .. Len(t1_true) : t1_true[i] \in 0 .. 4 /\ t1_pred[i] \in (0 .. 4) \X BOOLEAN
           /\ min_consecutive_correct \in Nat \ {0} /\ surge_threshold \in 0 .. 4 /\ Lookback \in Nat
<1> USE LeadTimeAssumed DEF Evaluation!LeadTimeAssumption
<1>1. t1_true \in Seq(0 .. 4) /\ t1_pred \in Seq((0 .. 4) \X BOOLEAN) /\ Len(t1_pred) = Len(t1_true)
  BY DEF LeadInv, LeadTyped
<1>2. \A i \in 1 .. Len(t1_true) : t1_true[i] \in 0 .. 4 /\ t1_pred[i] \in (0 .. 4) \X BOOLEAN
  BY <1>1
<1>3. min_consecutive_correct \in Nat \ {0} /\ surge_threshold \in 0 .. 4 /\ Lookback \in Nat
  BY DEF LeadInv, LeadTyped
<1> QED
  BY <1>1, <1>2, <1>3

\* So every episode is reported with the earliest warning its lookback holds.
LEMMA EpisodesExact ==
    ASSUME LeadInv, evaluated
    PROVE  Evaluation!WarningsExact
<1> DEFINE N == Len(t1_true)
           Inside(i, m) == i \in detections[m].onset .. detections[m].resolution
           Around(i) == {m \in DOMAIN detections :
                            detections[m].onset - 1 <= i /\ i <= detections[m].resolution + 1}
<1>1. /\ \A m \in DOMAIN detections : IsDetection(detections[m], N)
      /\ \A m, r \in DOMAIN detections : m < r => detections[m].resolution + 1 < detections[r].onset
      /\ \A i \in 1 .. N : Evaluation!Attack(i) => \E m \in DOMAIN detections : Inside(i, m)
  BY DEF LeadInv, AllDetected
<1>2. PICK c \in Nat : DOMAIN detections = 1 .. c
  BY DEF LeadInv, AllDetected
<1>3. \A m \in 1 .. c : /\ detections[m].onset \in Nat \ {0} /\ detections[m].resolution \in Nat
                        /\ \A i \in Int : Inside(i, m) => Evaluation!Attack(i) /\ i \in 1 .. N
  <2>1. ASSUME NEW m \in 1 .. c
        PROVE  /\ detections[m].onset \in Nat \ {0} /\ detections[m].resolution \in Nat
               /\ \A i \in Int : Inside(i, m) => Evaluation!Attack(i) /\ i \in 1 .. N
    <3> DEFINE d == detections[m]
    <3>1. IsDetection(d, N)
      BY <1>1, <1>2
    <3> HIDE DEF d
    <3>2. /\ d.onset \in Nat /\ d.resolution \in Nat /\ d.onset \in 1 .. N
          /\ d.resolution \in d.onset .. N
          /\ \A i \in d.onset .. d.resolution : Evaluation!Attack(i)
      BY <3>1 DEF IsDetection, IsEpisode
    <3>3. d.onset # 0 /\ \A i \in d.onset .. d.resolution : i \in 1 .. N
      BY <3>2
    <3> QED
      BY <3>2, <3>3 DEF d
  <2> QED
    BY <2>1
<1>4. N \in Nat /\ DOMAIN t1_true = 1 .. N
  BY LeadTypes DEF LeadInv
<1> HIDE DEF N
<1>5. ASSUME NEW i \in 1 .. N
      PROVE  /\ Evaluation!Attack(i) => Evaluation!Cardinality(Around(i)) = 1
             /\ Evaluation!Attack(i) <=> \E m \in Around(i) : Inside(i, m)
  <2>1. ASSUME NEW m \in 1 .. c, Inside(i, m)
        PROVE  m \in Around(i) /\ Around(i) = {m}
    <3>1. m \in Around(i)
      BY <1>2, <1>3, <2>1
    <3>2. ASSUME NEW r \in Around(i)
          PROVE  r = m
      <4> SUFFICES ASSUME r # m PROVE FALSE
        OBVIOUS
      <4>1. r \in 1 .. c /\ detections[r].onset - 1 <= i /\ i <= detections[r].resolution + 1
        BY <1>2
      <4>2. /\ detections[r].onset \in Nat /\ detections[r].resolution \in Nat
            /\ detections[m].onset \in Nat /\ detections[m].resolution \in Nat
        BY <1>3, <4>1
      <4>3. CASE r < m
        <5>1. detections[r].resolution + 1 < detections[m].onset
          BY <1>1, <1>2, <4>1, <4>3
        <5> QED
          BY <2>1, <4>1, <4>2, <5>1
      <4>4. CASE m < r
        <5>1. detections[m].resolution + 1 < detections[r].onset
          BY <1>1, <1>2, <4>1, <4>4
        <5> QED
          BY <2>1, <4>1, <4>2, <5>1
      <4> QED
        BY <4>1, <4>3, <4>4
    <3> HIDE DEF Around
    <3> QED
      BY <3>1, <3>2
  <2>2. \A S : Evaluation!Cardinality(S) = Cardinality(S)
    BY Zenon DEF Evaluation!Cardinality, Cardinality
  <2>3. ASSUME NEW m \in 1 .. c, Inside(i, m)
        PROVE  Evaluation!Cardinality(Around(i)) = 1
    <3>1. Around(i) = {m}
      BY <2>1, <2>3
    <3> HIDE DEF Around
    <3> QED
      BY <2>2, <3>1, FS_Singleton
  <2>4. \A m \in Around(i) : m \in 1 .. c
    BY <1>2
  <2>5. \A m \in 1 .. c : Inside(i, m) => Evaluation!Attack(i)
    BY <1>3
  <2> HIDE DEF Around, Inside
  <2>6. Evaluation!Attack(i) => \E m \in 1 .. c : Inside(i, m)
    BY <1>1, <1>2
  <2> QED
    BY <2>1, <2>3, <2>4, <2>5, <2>6
<1>6. ASSUME NEW m \in 1 .. c
      PROVE  LET d == detections[m]
             IN  /\ \A i \in d.onset .. d.resolution :
                       t1_true[i] <= t1_true[d.peak] - (IF i < d.peak THEN 1 ELSE 0)
                 /\ d.lead = Evaluation!Max({0} \cup {d.onset - s : s \in Evaluation!WarningStarts(d.onset)})
  <2> DEFINE d == detections[m]
             o == d.onset
             W == {s \in o - Reach(o) .. o - 1 : WarnsFrom(s, o)}
             T == {0} \cup {o - s : s \in W}
  <2>1. IsDetection(d, N) /\ o \in Nat \ {0}
    BY <1>1, <1>2, <1>3
  <2> HIDE DEF d
  <2>2. \A i \in d.onset .. d.resolution :
                       t1_true[i] <= t1_true[d.peak] - (IF i < d.peak THEN 1 ELSE 0)
    BY <2>1 DEF IsDetection, IsEpisode
  <2>3. /\ d.lead \in 0 .. Reach(o) /\ (d.lead > 0 => WarnsFrom(o - d.lead, o))
        /\ \A s \in o - Reach(o) .. o - 1 : WarnsFrom(s, o) => o - s <= d.lead
    BY <2>1 DEF IsDetection
  <2>4. Reach(o) \in 0 .. o - 1 /\ Evaluation!WarningStarts(o) = W
    <3> HIDE DEF o
    <3> QED
      BY <2>1, LeadTypes, StartsInReach DEF LeadInv
  <2> HIDE DEF o
  <2>5. d.lead \in Nat /\ d.lead <= Reach(o) /\ Reach(o) \in Nat
    BY <2>1, <2>3, <2>4
  <2>6. d.lead \in T
    <3>1. CASE d.lead = 0
      BY <3>1
    <3>2. CASE d.lead # 0
      <4>1. o - d.lead \in W /\ o - (o - d.lead) = d.lead
        BY <2>1, <2>3, <2>5, <3>2
      <4> QED
        BY <4>1
    <3> QED
      BY <3>1, <3>2
  <2>7. \A x \in T : x <= d.lead /\ x \in 0 .. o
    BY <2>1, <2>3, <2>4, <2>5
  <2>8. Evaluation!Max(T) = d.lead
    <3> HIDE DEF T
    <3>1. T \in SUBSET (0 .. o) /\ T # {}
      BY <2>6, <2>7
    <3>2. Max(T) \in T /\ \A x \in T : x <= Max(T)
      BY <2>1, <3>1, LargestNumber
    <3>3. Max(T) = d.lead
      BY <2>5, <2>6, <2>7, <3>2
    <3> QED
      BY <3>3 DEF Evaluation!Max, Max
  <2>9. d.lead = Evaluation!Max({0} \cup {o - s : s \in Evaluation!WarningStarts(o)})
    BY <2>4, <2>8
  <2> QED
    BY <2>2, <2>9 DEF d, o
<1> QED
  BY <1>2, <1>4, <1>5, <1>6 DEF Evaluation!WarningsExact

----------------------------------------------------------------------------
\* The alarms outside attacks, and the benchmark.

\* The alarms outside attacks in the confusion matrix are the quiet alarms.
LEMMA MatrixCounts ==
    ASSUME LeadInv, cm = Evaluation!evaluate
    PROVE  Evaluation!MapThenSumSet(LAMBDA s : cm[s[1]][s[2]],
                                    (0 .. surge_threshold - 1) \X (surge_threshold .. 4))
             = Evaluation!Cardinality(Evaluation!QuietAlarms)
<1> DEFINE N == Len(t1_true)
           I == 1 .. N
           f == [i \in I |-> <<t1_true[i], t1_pred[i][1]>>]
           G == (0 .. surge_threshold - 1) \X (surge_threshold .. 4)
           w == [s \in G |-> cm[s[1]][s[2]]]
           Eq(g) == g = [T \in SUBSET G |->
                           IF T = {} THEN 0
                           ELSE cm[Chosen(T)[1]][Chosen(T)[2]] + g[T \ {Chosen(T)}]]
<1>0. Evaluation!MapThenSumSet(LAMBDA s : cm[s[1]][s[2]], G) = (CHOOSE g : Eq(g))[G]
  BY DEF Evaluation!MapThenSumSet, Evaluation!MapThenFoldSet, Chosen
<1>1. /\ N \in Nat /\ DOMAIN t1_true = I /\ surge_threshold \in 0 .. 4
      /\ \A i \in I : t1_true[i] \in 0 .. 4 /\ t1_pred[i][1] \in 0 .. 4
  BY LeadTypes DEF LeadInv
<1>2. \A S : Evaluation!Cardinality(S) = Cardinality(S)
  BY Zenon DEF Evaluation!Cardinality, Cardinality
<1>3. IsFiniteSet(I) /\ IsFiniteSet(G)
  <2>1. IsFiniteSet(I)
    BY <1>1, FS_Interval
  <2>2. IsFiniteSet(0 .. surge_threshold - 1) /\ IsFiniteSet(surge_threshold .. 4)
    BY <1>1, FS_Interval
  <2> QED
    BY <2>1, <2>2, FS_Product
<1>4. \A s \in G : w[s] = Cardinality({i \in I : f[i] = s})
  <2>1. ASSUME NEW a \in 0 .. surge_threshold - 1, NEW b \in surge_threshold .. 4
        PROVE  cm[a][b] = Cardinality({i \in I : f[i] = <<a, b>>})
    <3>1. a \in 0 .. 5 - 1 /\ b \in 0 .. 5 - 1
      BY <1>1
    <3>2. cm[a][b] = Evaluation!Cardinality({i \in DOMAIN t1_true :
                                                t1_true[i] = a /\ t1_pred[i][1] = b})
      BY <3>1 DEF Evaluation!evaluate
    <3>3. {i \in DOMAIN t1_true : t1_true[i] = a /\ t1_pred[i][1] = b} = {i \in I : f[i] = <<a, b>>}
      BY <1>1
    <3> QED
      BY <1>2, <3>2, <3>3
  <2>2. ASSUME NEW s \in G
        PROVE  w[s] = Cardinality({i \in I : f[i] = s})
    <3> HIDE DEF f, I
    <3>1. s = <<s[1], s[2]>> /\ s[1] \in 0 .. surge_threshold - 1 /\ s[2] \in surge_threshold .. 4
      OBVIOUS
    <3>2. cm[s[1]][s[2]] = Cardinality({i \in I : f[i] = <<s[1], s[2]>>})
      BY <2>1, <3>1
    <3>3. w[s] = cm[s[1]][s[2]]
      OBVIOUS
    <3> QED
      BY <3>1, <3>2, <3>3
  <2> QED
    BY <2>2
<1>5. {i \in I : f[i] \in G} = Evaluation!QuietAlarms
  <2>1. ASSUME NEW i \in I
        PROVE  f[i] \in G <=> ~ Evaluation!Attack(i) /\ Evaluation!Alarm(i)
    BY <1>1 DEF Evaluation!Attack, Evaluation!Alarm
  <2> HIDE DEF f, G
  <2> QED
    BY <1>1, <2>1 DEF Evaluation!QuietAlarms
<1>6. \A T \in SUBSET G : T # {} => w[Chosen(T)] = cm[Chosen(T)[1]][Chosen(T)[2]]
  <2>1. \A T \in SUBSET G : T # {} => Chosen(T) \in G
    BY DEF Chosen
  <2> HIDE DEF G
  <2> QED
    BY <2>1
<1>7. \A s \in G : w[s] \in Nat
  <2>1. ASSUME NEW s \in G
        PROVE  Cardinality({i \in I : f[i] = s}) \in Nat
    <3> DEFINE J == {i \in I : f[i] = s}
    <3>1. J \in SUBSET I
      OBVIOUS
    <3> HIDE DEF J, I
    <3>2. Cardinality(J) \in Nat
      BY <1>3, <3>1, FS_Subset, FS_CardinalityType
    <3> QED
      BY <3>2 DEF J
  <2> QED
    BY <1>4, <2>1
<1> HIDE DEF w, G, f, I
<1>8. PICK h : IsTable(h, w, G)
  BY <1>3, <1>7, TableExists
<1>9. Eq(h)
  BY <1>6, <1>8 DEF IsTable
<1>10. ASSUME NEW g, Eq(g)
       PROVE  g = h
  <2>1. g = [T \in SUBSET G |-> IF T = {} THEN 0 ELSE w[Chosen(T)] + g[T \ {Chosen(T)}]]
    BY <1>6, <1>10
  <2> QED
    BY <1>3, <1>8, <2>1, TableUnique
<1>11. (CHOOSE g : Eq(g)) = h
  <2> HIDE DEF Eq
  <2> QED
    BY <1>9, <1>10
<1>12. h[G] = SumFunctionOnSet(w, G)
  BY <1>3, <1>8, SumFromTable
<1>13. SumFunctionOnSet(w, G) = Cardinality({i \in I : f[i] \in G})
  <2>1. Counts(w, f, I, G)
    BY <1>4 DEF Counts
  <2> QED
    BY <1>3, <2>1, SumOfCounts
<1>14. (CHOOSE g : Eq(g))[G] = Evaluation!Cardinality(Evaluation!QuietAlarms)
  BY <1>2, <1>5, <1>11, <1>12, <1>13
<1> QED
  BY <1>0, <1>14 DEF G

\* So every alarm is within an attack, before one, or counted as false.
LEMMA AlarmsExact ==
    ASSUME LeadInv, evaluated
    PROVE  Evaluation!AlarmsAccounted
<1> DEFINE N == Len(t1_true)
           Quiet == Evaluation!QuietAlarms
<1>1. /\ N \in Nat /\ DOMAIN t1_true = 1 .. N /\ min_consecutive_correct \in Nat \ {0}
      /\ Lookback \in Nat
  BY LeadTypes DEF LeadInv
<1>2. /\ false_alarms = Evaluation!compute_false_alarms(detections) /\ cm = Evaluation!evaluate
  BY DEF LeadInv
<1>3. \A m \in DOMAIN detections : IsDetection(detections[m], N)
  BY DEF LeadInv, AllDetected
<1>4. false_alarms = {i \in Quiet : i \notin Evaluation!valid_indices(detections)}
  BY <1>2, Zenon DEF Evaluation!compute_false_alarms, Evaluation!QuietAlarms
<1>5. false_alarms \cup Quiet = Quiet
  BY <1>4
<1>6. ASSUME NEW m \in DOMAIN detections
      PROVE  LET d == detections[m]
             IN  /\ d.onset \in Nat \ {0} /\ d.lead \in Nat /\ d.lead <= Lookback
                 /\ d.lead > 0 => d.first_correct = d.onset - d.lead
                 /\ \A s \in Evaluation!WarningStarts(d.onset) :
                      /\ s \in Int /\ d.onset - s <= d.lead
                      /\ s + min_consecutive_correct <= d.onset
  <2> DEFINE d == detections[m]
             o == d.onset
  <2>1. IsDetection(d, N)
    BY <1>3
  <2> HIDE DEF d
  <2>2. o \in Nat \ {0}
    BY <1>1, <2>1 DEF IsDetection, IsEpisode
  <2>3. /\ d.lead \in 0 .. Reach(o) /\ (d.lead > 0 => d.first_correct = o - d.lead)
        /\ \A s \in o - Reach(o) .. o - 1 : WarnsFrom(s, o) => o - s <= d.lead
    BY <2>1 DEF IsDetection
  <2> HIDE DEF o
  <2>4. /\ Reach(o) \in 0 .. o - 1 /\ Reach(o) <= Lookback
        /\ Evaluation!WarningStarts(o) = {s \in o - Reach(o) .. o - 1 : WarnsFrom(s, o)}
    BY <1>1, <2>2, StartsInReach
  <2>5. Reach(o) \in Nat /\ d.lead \in Nat /\ d.lead <= Lookback
    BY <1>1, <2>2, <2>3, <2>4
  <2>6. ASSUME NEW s \in Evaluation!WarningStarts(o)
        PROVE  s \in Int /\ o - s <= d.lead /\ s + min_consecutive_correct <= o
    BY <2>2, <2>3, <2>4, <2>5 DEF WarnsFrom
  <2> QED
    BY <2>2, <2>3, <2>5, <2>6 DEF d, o
<1>7. ASSUME NEW i \in Quiet \ false_alarms
      PROVE  \E m \in DOMAIN detections : /\ i < detections[m].onset
                                          /\ detections[m].onset - i <= Lookback
  <2>1. i \in Evaluation!valid_indices(detections) /\ i \in Int
    BY <1>1, <1>4 DEF Evaluation!QuietAlarms
  <2>2. PICK m \in DOMAIN detections : /\ detections[m].lead > 0
            /\ i \in detections[m].first_correct .. detections[m].onset - 1
    BY <2>1 DEF Evaluation!valid_indices
  <2> DEFINE d == detections[m]
  <2>3. /\ d.onset \in Nat \ {0} /\ d.lead \in Nat /\ d.lead <= Lookback
        /\ d.first_correct = d.onset - d.lead
    BY <1>6, <2>2
  <2>4. i \in d.first_correct .. d.onset - 1
    BY <2>2
  <2> HIDE DEF d
  <2>5. i < d.onset /\ d.onset - i <= Lookback
    BY <1>1, <2>1, <2>3, <2>4
  <2> QED
    BY <2>5 DEF d
<1>8. ASSUME NEW m \in DOMAIN detections, NEW s \in Evaluation!WarningStarts(detections[m].onset)
      PROVE  false_alarms \cap (s .. s + min_consecutive_correct - 1) = {}
  <2> DEFINE d == detections[m]
  <2>1. /\ d.onset \in Nat \ {0} /\ d.lead \in Nat
        /\ d.lead > 0 => d.first_correct = d.onset - d.lead
        /\ s \in Int /\ d.onset - s <= d.lead /\ s + min_consecutive_correct <= d.onset
    BY <1>6
  <2>2. d.lead > 0 => d.first_correct .. d.onset - 1 \subseteq Evaluation!valid_indices(detections)
    BY DEF Evaluation!valid_indices
  <2> HIDE DEF d
  <2>3. d.lead > 0 /\ d.first_correct = d.onset - d.lead
    BY <1>1, <2>1
  <2>4. s .. s + min_consecutive_correct - 1 \subseteq d.first_correct .. d.onset - 1
    BY <1>1, <2>1, <2>3
  <2>5. s .. s + min_consecutive_correct - 1 \subseteq Evaluation!valid_indices(detections)
    BY <2>2, <2>3, <2>4
  <2> QED
    BY <1>4, <2>5
<1>9. Evaluation!MapThenSumSet(LAMBDA s : cm[s[1]][s[2]],
                               (0 .. surge_threshold - 1) \X (surge_threshold .. 5 - 1))
        = Evaluation!Cardinality(false_alarms \cup Quiet)
  <2>1. 5 - 1 = 4
    OBVIOUS
  <2> QED
    BY <1>2, <1>5, <2>1, MatrixCounts
<1> QED
  BY <1>7, <1>8, <1>9 DEF Evaluation!AlarmsAccounted

\* The evaluation runs as by itself.
LEMMA EvaluationAlone == MCSpec => Evaluation!Spec
<1>1. [MCNext]_allVars => [Evaluation!Next]_(Evaluation!vars)
  BY Zenon DEF MCNext, allVars, leadVars, Evaluation!vars,
               Collector, Store, Stage, Feature, Loading, Evaluating, TrainingRun
<1>2. MCInit => Evaluation!Init
  BY DEF MCInit
<1> QED
  BY <1>1, <1>2, PTL DEF MCSpec, Evaluation!Spec

\* The inductive invariant of the evaluation: the detections, the false alarms and the confusion
\* matrix are those of the windows drawn.
THEOREM LeadInvariant == Evaluation!Spec => []LeadInv
<1> USE LeadTimeAssumed DEF Evaluation!LeadTimeAssumption
<1>1. Evaluation!Init => LeadInv
  <2> SUFFICES ASSUME Evaluation!Init PROVE LeadInv
    OBVIOUS
  <2>1. /\ t1_true = <<>> /\ t1_pred = <<>> /\ min_consecutive_correct \in MinConsecutive
    BY DEF Evaluation!Init
  <2>2. evaluated = FALSE
    BY DEF Evaluation!Init
  <2>3. ~ evaluated
    BY <2>2
  <2> QED
    BY <2>1, <2>3 DEF LeadInv, LeadTyped
<1>2. LeadInv /\ [Evaluation!Next]_(Evaluation!vars) => LeadInv'
  <2> SUFFICES ASSUME LeadInv, [Evaluation!Next]_(Evaluation!vars)
               PROVE  LeadInv'
    OBVIOUS
  <2>1. ASSUME NEW stage \in TrueStages, NEW prediction \in Predictions,
               Evaluation!Window(stage, prediction)
        PROVE  LeadInv'
    <3>1. /\ ~ evaluated /\ evaluated' = evaluated
          /\ min_consecutive_correct' = min_consecutive_correct
          /\ t1_true' = Append(t1_true, stage) /\ t1_pred' = Append(t1_pred, prediction)
      BY <2>1 DEF Evaluation!Window
    <3>2. stage \in 0 .. 4 /\ prediction \in (0 .. 4) \X BOOLEAN
      OBVIOUS
    <3>3. ~ evaluated'
      BY <3>1
    <3>4. /\ t1_true' \in Seq(0 .. 4) /\ t1_pred' \in Seq((0 .. 4) \X BOOLEAN)
          /\ Len(t1_pred') = Len(t1_true')
      BY <3>1, <3>2 DEF LeadInv, LeadTyped
    <3> QED
      BY <3>1, <3>3, <3>4 DEF LeadInv, LeadTyped
  <2>2. ASSUME Evaluation!compute_lead_times
        PROVE  LeadInv'
    <3>1. /\ t1_true' = t1_true /\ t1_pred' = t1_pred
          /\ min_consecutive_correct' = min_consecutive_correct
          /\ detections' = Evaluation!evaluate_detections(Evaluation!detect_episodes)
          /\ false_alarms' = Evaluation!compute_false_alarms(detections')
          /\ cm' = Evaluation!evaluate
      BY <2>2 DEF Evaluation!compute_lead_times
    <3>2. AllDetected(detections)'
      <4> DEFINE ds == detections'
      <4>1. AllDetected(ds)
        BY <3>1, Detected DEF LeadInv
      <4> QED
        BY <3>1, <4>1 DEF AllDetected, IsDetection, IsEpisode, WarnsFrom, Sure, Reach,
                         Evaluation!Attack, Evaluation!Alarm
    <3>3. (Evaluation!compute_false_alarms(detections))'
                = Evaluation!compute_false_alarms(detections')
      BY <3>1, Zenon DEF Evaluation!compute_false_alarms, Evaluation!Attack, Evaluation!Alarm,
                Evaluation!valid_indices
    <3>4. Evaluation!evaluate' = Evaluation!evaluate
      BY <3>1, Zenon DEF Evaluation!evaluate
    <3> QED
      BY <3>1, <3>2, <3>3, <3>4 DEF LeadInv, LeadTyped
  <2>3. CASE UNCHANGED Evaluation!vars
    <3>1. /\ t1_true' = t1_true /\ t1_pred' = t1_pred /\ evaluated' = evaluated
          /\ min_consecutive_correct' = min_consecutive_correct
          /\ detections' = detections /\ false_alarms' = false_alarms /\ cm' = cm
      BY <2>3 DEF Evaluation!vars
    <3>2. AllDetected(detections)' <=> AllDetected(detections)
      BY <3>1 DEF AllDetected, IsDetection, IsEpisode, WarnsFrom, Sure, Reach,
                  Evaluation!Attack, Evaluation!Alarm
    <3>3. (Evaluation!compute_false_alarms(detections))'
                = Evaluation!compute_false_alarms(detections)
      BY <3>1, Zenon DEF Evaluation!compute_false_alarms, Evaluation!Attack, Evaluation!Alarm,
                Evaluation!valid_indices
    <3>4. Evaluation!evaluate' = Evaluation!evaluate
      BY <3>1, Zenon DEF Evaluation!evaluate
    <3> QED
      BY <3>1, <3>2, <3>3, <3>4 DEF LeadInv, LeadTyped
  <2> QED
    BY <2>1, <2>2, <2>3 DEF Evaluation!Next
<1> QED
  BY <1>1, <1>2, PTL DEF Evaluation!Spec

\* Whatever the windows, detect_episodes lists the longest runs of attack windows, each once, and
\* the lead time evaluate_detections gives one is the distance to the earliest run of the required
\* number of confident alarms within the lookback.
THEOREM WarningsFound ==
    /\ Evaluation!Spec => []Evaluation!WarningsExact
    /\ MCSpec => []WarningsExact
<1>1. LeadInv => Evaluation!WarningsExact /\ WarningsExact
  <2>1. LeadInv /\ ~ evaluated => Evaluation!WarningsExact
    BY DEF Evaluation!WarningsExact
  <2>2. LeadInv /\ evaluated => Evaluation!WarningsExact
    BY EpisodesExact
  <2> QED
    BY <2>1, <2>2 DEF WarningsExact
<1> QED
  BY <1>1, LeadInvariant, EvaluationAlone, PTL

\* Whatever the windows, the alarms outside attacks in the confusion matrix are each a false
\* alarm or within the lookback of an onset, and no alarm of a warning counts as false: the two
\* evaluators agree.
THEOREM AlarmsExplained ==
    /\ Evaluation!Spec => []Evaluation!AlarmsAccounted
    /\ MCSpec => []AlarmsAccounted
<1>1. LeadInv => Evaluation!AlarmsAccounted /\ AlarmsAccounted
  <2>1. LeadInv /\ ~ evaluated => Evaluation!AlarmsAccounted
    BY DEF Evaluation!AlarmsAccounted
  <2>2. LeadInv /\ evaluated => Evaluation!AlarmsAccounted
    BY AlarmsExact
  <2> QED
    BY <2>1, <2>2 DEF AlarmsAccounted
<1> QED
  BY <1>1, LeadInvariant, EvaluationAlone, PTL
=============================================================================
