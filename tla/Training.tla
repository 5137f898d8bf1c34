------------------------------ MODULE Training ------------------------------
(***************************************************************************)
(* The scripts that train and export the forecasters: train_lstm.py,       *)
(* train_transformer.py, train_hmm.py and the mains of export/.  They run  *)
(* one after the other and leave their files in one directory, where the   *)
(* next script and the proxy find them; a file is known by the run that    *)
(* made it and, for weights, by the epoch they are from.  A script may be  *)
(* killed at any time, and a file it was writing is then torn.             *)
(***************************************************************************)
EXTENDS Integers, Sequences, FiniteSets, SequencesExt, FiniteSetsExt

CONSTANTS
    epochs, patience,   \* of the training loops
    Losses,             \* validation losses that are numbers
    MaxRuns             \* bound on the scripts started

TrainingAssumption ==
    /\ epochs \in Nat \ {0} /\ patience \in Nat \ {0} /\ MaxRuns \in Nat
    /\ Losses \subseteq Nat \ {0} /\ IsFiniteSet(Losses)

VARIABLES
    script, run, pc,    \* the script that runs, its number, its next step
    opts,               \* --evaluate, --export-onnx, and the loaders without a window
    history,            \* val_loss by epoch
    weights,            \* the epoch the model's weights are from
    best_val_loss, best_weights, epochs_no_improve,
    onnx_exported,      \* the script's flag
    disk                \* the files, by name

NaN  == -1
Inf  == 1 + Max(Losses \cup {0})
None == 0

Missing == [run |-> 0, epoch |-> 0]
Torn    == 0                                    \* the epoch of a file cut off
Saved(e) == [run |-> run, epoch |-> e]
Files   == {"csv", "scaler", "markov", "hmm", "lstm", "transformer", "lstm_onnx", "transformer_onnx"}

Exporters == [export_lstm |-> "lstm", export_transformer |-> "transformer"]

memory == <<history, weights, best_val_loss, best_weights, epochs_no_improve>>

Init ==
    /\ script = "none" /\ run = 0 /\ pc = "idle"
    /\ opts = [evaluate |-> FALSE, export |-> FALSE, empty |-> {}]
    /\ history = <<>> /\ weights = None
    /\ best_val_loss = Inf /\ best_weights = None /\ epochs_no_improve = 0
    /\ onnx_exported = FALSE
    /\ \E csv \in {Missing, [run |-> 0, epoch |-> 1]} :     \* or a data set from the labeler
         disk = [files |-> [f \in Files |-> IF f = "csv" THEN csv ELSE Missing],
                 report |-> [run |-> 0, validated |-> FALSE]]

Write(f, file) == disk' = [disk EXCEPT !.files[f] = file]
Exit == pc' = "idle"

----------------------------------------------------------------------------

\* What is left of a torn CSV may still be a data set; any other torn file does not load.
Loads(f) == IF f = "csv" /\ disk.files[f].epoch = Torn /\ disk.files[f] # Missing THEN BOOLEAN
            ELSE {disk.files[f].epoch # Torn}

\* The mains up to training: create_dataloaders needs a data set, an exporter a checkpoint.
Start(s, o) ==
    /\ pc = "idle" /\ run < MaxRuns
    /\ script' = s /\ run' = run + 1 /\ opts' = o
    /\ history' = <<>> /\ weights' = None
    /\ best_val_loss' = Inf /\ best_weights' = None /\ epochs_no_improve' = 0
    /\ onnx_exported' = FALSE
    /\ \/ s = "hmm" /\ pc' = "csv"
       \/ s \in {"lstm", "transformer"} /\ \E loaded \in Loads("csv") :
            pc' = IF ~loaded THEN "idle" ELSE IF s = "lstm" THEN "scaler" ELSE "train"
       \/ s \in DOMAIN Exporters /\ \E loaded \in Loads(Exporters[s]) :
            pc' = IF loaded THEN "export" ELSE "idle"
    /\ UNCHANGED disk

SaveScaler ==
    /\ pc = "scaler"
    /\ Write("scaler", Saved(1))
    /\ pc' = "train"
    /\ UNCHANGED <<script, run, opts, memory, onnx_exported>>

\* The end of an epoch: keep a copy of better weights, count the epochs without any, stop
\* after patience of them.  NaN is not less than anything; no validation windows give loss 0.
EpochEnd_NoReset(val_loss) ==
    /\ history' = Append(history, val_loss)
    /\ weights' = Len(history')
    /\ IF val_loss # NaN /\ val_loss < best_val_loss
       THEN /\ best_val_loss' = val_loss /\ best_weights' = weights'
            /\ UNCHANGED epochs_no_improve
       ELSE /\ epochs_no_improve' = epochs_no_improve + 1
            /\ UNCHANGED <<best_val_loss, best_weights>>
    /\ pc' = IF epochs_no_improve' >= patience \/ Len(history') = epochs THEN "restore" ELSE "train"
EpochEnd(val_loss) ==
    /\ history' = Append(history, val_loss)
    /\ weights' = Len(history')
    /\ IF val_loss # NaN /\ val_loss < best_val_loss
       THEN /\ best_val_loss' = val_loss /\ best_weights' = weights'
            /\ epochs_no_improve' = 0
       ELSE /\ epochs_no_improve' = epochs_no_improve + 1
            /\ UNCHANGED <<best_val_loss, best_weights>>
    /\ pc' = IF epochs_no_improve' >= patience \/ Len(history') = epochs THEN "restore" ELSE "train"

\* One turn of train_lstm_forecaster's loop, and of train_transformer_forecaster's.
train_lstm_forecaster(loss) ==
    /\ pc = "train" /\ script = "lstm"
    /\ EpochEnd(IF "val" \in opts.empty THEN 0 ELSE loss)
    /\ UNCHANGED <<script, run, opts, onnx_exported, disk>>
train_transformer_forecaster(loss) ==
    /\ pc = "train" /\ script = "transformer"
    /\ EpochEnd(IF "val" \in opts.empty THEN 0 ELSE loss)
    /\ UNCHANGED <<script, run, opts, onnx_exported, disk>>

\* load_state_dict(best_weights), unless there are none
RestoreBest ==
    /\ pc = "restore"
    /\ weights' = IF best_weights # None THEN best_weights ELSE weights
    /\ pc' = "save"
    /\ UNCHANGED <<script, run, opts, history, best_val_loss, best_weights, epochs_no_improve,
                   onnx_exported, disk>>

save_weights ==
    /\ pc = "save"
    /\ Write(script, Saved(weights))
    /\ pc' = IF opts.evaluate THEN "evaluate" ELSE "export"
    /\ UNCHANGED <<script, run, opts, memory, onnx_exported>>

\* evaluate_test_set raises on an empty test set, and on baseline files that do not load (it
\* makes up missing ones); the transformer's main just reports no samples.
EvaluationRaises ==
    \/ "test" \in opts.empty
    \/ \E f \in {"hmm", "markov"} : disk.files[f] # Missing /\ disk.files[f].epoch = Torn
evaluate_test_set ==
    /\ pc = "evaluate" /\ script = "lstm"
    /\ pc' = IF EvaluationRaises THEN "idle" ELSE "export"
    /\ UNCHANGED <<script, run, opts, memory, onnx_exported, disk>>
EvaluateTransformer ==
    /\ pc = "evaluate" /\ script = "transformer"
    /\ pc' = "export"
    /\ UNCHANGED <<script, run, opts, memory, onnx_exported, disk>>

\* export_..._to_onnx, then validate_onnx_parity.  The export raises before or after it wrote,
\* or the two models are compared.
WriteGraph(f, checkpoint, outcome) ==
    disk' = CASE outcome = "raised" -> disk
              [] outcome = "partial" -> [disk EXCEPT !.files[f] = [checkpoint EXCEPT !.epoch = Torn]]
              [] OTHER -> [disk EXCEPT !.files[f] = checkpoint]
export_lstm_to_onnx(checkpoint, outcome) == WriteGraph("lstm_onnx", checkpoint, outcome)
export_transformer_to_onnx(checkpoint, outcome) == WriteGraph("transformer_onnx", checkpoint, outcome)

\* train_lstm.py takes an exception for a warning; onnx_exported only follows a comparison
\* that succeeded.
ExportONNX_FlagFirst(outcome) ==
    /\ pc = "export" /\ script = "lstm" /\ opts.export
    /\ export_lstm_to_onnx(Saved(weights), outcome)
    /\ onnx_exported' = TRUE
    /\ pc' = "report"
    /\ UNCHANGED <<script, run, opts, memory>>
ExportONNX(outcome) ==
    /\ pc = "export" /\ script = "lstm" /\ opts.export
    /\ export_lstm_to_onnx(Saved(weights), outcome)
    /\ onnx_exported' = (outcome = "valid")
    /\ pc' = "report"
    /\ UNCHANGED <<script, run, opts, memory>>
SkipExport ==
    /\ pc = "export" /\ script = "lstm" /\ ~opts.export
    /\ pc' = "report"
    /\ UNCHANGED <<script, run, opts, memory, onnx_exported, disk>>

\* The transformer's main ends here; its model is exported by a script of its own, as the
\* checkpoint of an earlier LSTM training may be.
EndTransformer ==
    /\ pc = "export" /\ script = "transformer"
    /\ Exit
    /\ UNCHANGED <<script, run, opts, memory, onnx_exported, disk>>
ExportLSTMMain(outcome) ==
    /\ pc = "export" /\ script = "export_lstm"
    /\ export_lstm_to_onnx(disk.files["lstm"], outcome)
    /\ Exit
    /\ UNCHANGED <<script, run, opts, memory, onnx_exported>>
ExportTransformerMain(outcome) ==
    /\ pc = "export" /\ script = "export_transformer"
    /\ export_transformer_to_onnx(disk.files["transformer"], outcome)
    /\ Exit
    /\ UNCHANGED <<script, run, opts, memory, onnx_exported>>

\* "Fully validated" in the report means onnx_exported
generate_v3_report ==
    /\ pc = "report"
    /\ disk' = IF opts.evaluate THEN [disk EXCEPT !.report = [run |-> run, validated |-> onnx_exported]]
               ELSE disk
    /\ Exit
    /\ UNCHANGED <<script, run, opts, memory, onnx_exported>>

\* train_and_evaluate of train_hmm.py: the data set, then one model, then the other
train_and_evaluate ==
    /\ \/ pc = "csv" /\ Write("csv", Saved(1)) /\ pc' = "markov"
       \/ pc = "markov" /\ Write("markov", Saved(1)) /\ pc' = "hmm"
       \/ pc = "hmm" /\ Write("hmm", Saved(1)) /\ Exit
    /\ UNCHANGED <<script, run, opts, memory, onnx_exported>>

\* The script is killed; the file it was writing is left as it was, or torn.  A torn report, which no
\* reader of JSON accepts, is left out.
Writing == CASE pc = "save" -> {script}
             [] pc = "export" -> CASE script = "export_transformer" -> {"transformer_onnx"}
                                   [] script = "transformer" -> {}
                                   [] OTHER -> {"lstm_onnx"}
             [] pc \in {"scaler", "csv", "markov", "hmm"} -> {pc}
             [] OTHER -> {}
Crash ==
    /\ pc # "idle"
    /\ Exit
    /\ \E S \in SUBSET Writing :
         disk' = [disk EXCEPT !.files = [f \in Files |-> IF f \in S THEN Saved(Torn) ELSE @[f]]]
    /\ UNCHANGED <<script, run, opts, memory, onnx_exported>>

Options(s) == [evaluate : IF s \in {"lstm", "transformer"} THEN BOOLEAN ELSE {FALSE},
               export : IF s = "lstm" THEN BOOLEAN ELSE {FALSE},
               empty : IF s \in {"lstm", "transformer"} THEN SUBSET {"val", "test"} ELSE {{}}]

Next ==
    \/ \E s \in {"lstm", "transformer", "hmm", "export_lstm", "export_transformer"} :
         \E o \in Options(s) : Start(s, o)
    \/ SaveScaler
    \/ \E loss \in Losses \cup {NaN} : train_lstm_forecaster(loss) \/ train_transformer_forecaster(loss)
    \/ RestoreBest \/ save_weights \/ evaluate_test_set \/ EvaluateTransformer
    \/ SkipExport \/ EndTransformer
    \/ \E outcome \in {"raised", "partial", "invalid", "valid"} :
         ExportONNX(outcome) \/ ExportLSTMMain(outcome) \/ ExportTransformerMain(outcome)
    \/ generate_v3_report \/ train_and_evaluate \/ Crash

vars == <<script, run, pc, opts, memory, onnx_exported, disk>>
Spec == Init /\ [][Next]_vars

----------------------------------------------------------------------------

Improves(e) == history[e] # NaN /\ \A d \in 1 .. e - 1 : history[d] = NaN \/ history[e] < history[d]
Stalled(n)  == n >= patience /\ \A e \in n - patience + 1 .. n : ~Improves(e)

\* Early stopping returns what it promises: the checkpoint a training run saves holds the
\* weights of the first epoch with the lowest validation loss, or the last ones when every loss
\* was NaN; and training ended at the first epoch that made patience epochs in a row without
\* improvement, or with the last epoch.
BestWeightsReturned ==
    pc \in {"save", "evaluate"} =>
        LET numbers == {e \in DOMAIN history : history[e] # NaN}
            n == Len(history)
        IN  /\ weights = IF numbers = {} THEN n
                         ELSE Min({e \in numbers : \A d \in numbers : history[e] <= history[d]})
            /\ Stalled(n) \/ n = epochs
            /\ \A m \in 1 .. n - 1 : ~Stalled(m)
            /\ pc = "evaluate" => disk.files[script] = Saved(weights)

\* A report that calls the ONNX model fully validated tells the truth as long as no LSTM
\* training has begun since: checkpoint, scaler and ONNX graph are then all of the run it
\* reports on, whatever scripts ran or were killed before and after, and the graph has the
\* checkpoint's weights unless a later export was cut off (main of train_lstm.py).
HonestReport ==
    LET r == disk.report.run
        onnx == disk.files["lstm_onnx"]
    IN  disk.report.validated /\ disk.files["scaler"].run = r =>
            /\ disk.files["lstm"].run = r
            /\ onnx # Missing
            /\ onnx = disk.files["lstm"] \/ onnx.epoch = Torn
=============================================================================
