---------------------------- MODULE MCForecasting ----------------------------
(***************************************************************************)
(* The Python side: what becomes of the telemetry and of the traffic log.  *)
(* The parts hand files to one another and share no memory, so a behaviour *)
(* follows one of them and leaves the others as they began.  The collector *)
(* is followed with its store, and the store also alone, with two threads. *)
(***************************************************************************)
EXTENDS TelemetryCollector

CONSTANTS
    \* Stages
    n_states, smoothing_alpha, Symbols, Emission, Scores, MaxSteps, Horizon,
    \* FeatureWindows
    Times, Statuses, MaxEntries, window_size, Steps, SubWindow, BurstMin, BruteMin, FloodMin,
    \* SequenceData
    seq_len, forecast_horizon, Ratios, Lengths, MaxSequences,
    \* LeadTime
    surge_threshold, TrueStages, Predictions, MinConsecutive, Lookback, MaxWindows,
    \* Training
    epochs, patience, Losses, MaxRuns

VARIABLES
    scores, labels, markov, hmm,
    log, window_step, phase, curr_end, window_eval_times, dataset,
    lengths, split, samples, scaler,
    t1_true, t1_pred, min_consecutive_correct, evaluated, detections, false_alarms, cm,
    script, run, trainPc, opts, history, weights, best_val_loss, best_weights,
    epochs_no_improve, onnx_exported, models,
    followed

Forecasts  == INSTANCE Stages
Features   == INSTANCE FeatureWindows
Data       == INSTANCE SequenceData
Evaluation == INSTANCE LeadTime WITH n_states <- 5
Train      == INSTANCE Training WITH pc <- trainPc, disk <- models

ASSUME CollectorAssumed == CollectorAssumption
ASSUME StagesAssumed    == Forecasts!StagesAssumption
ASSUME WindowsAssumed   == Features!WindowsAssumption
ASSUME DataAssumed      == Data!DataAssumption
ASSUME LeadTimeAssumed  == Evaluation!LeadTimeAssumption
ASSUME TrainingAssumed  == Train!TrainingAssumption

\* Two lines of one client and one of another.
MCOwner       == [l \in Lines |-> IF l = 3 THEN 2 ELSE 1]
MCEmission    == <<[calm |-> 3, loud |-> 1], [calm |-> 2, loud |-> 2], [calm |-> 1, loud |-> 4]>>
MCEmissionOf  == [s \in 0 .. 2 |-> MCEmission[s + 1]]
MCStatuses    == {[error |-> FALSE, ms |-> 50], [error |-> TRUE, ms |-> 300]}
MCRatios      == {<<70, 15>>, <<50, 50>>, <<80, 0>>}
MCPredictions == {<<0, FALSE>>, <<3, TRUE>>, <<3, FALSE>>}

stageVars    == <<scores, labels, markov, hmm>>
featureVars  == <<log, window_step, phase, curr_end, window_eval_times, dataset>>
dataVars     == <<lengths, split, samples, scaler>>
leadVars     == <<t1_true, t1_pred, min_consecutive_correct, evaluated, detections, false_alarms, cm>>
trainingVars == <<script, run, trainPc, opts, history, weights, best_val_loss, best_weights,
                  epochs_no_improve, onnx_exported, models>>
allVars      == <<vars, stageVars, featureVars, dataVars, leadVars, trainingVars, followed>>

\* The initial choices of a part matter only where it is followed; a file is followed on both
\* platforms, drained on one and read once on the other.
MCInit ==
    /\ Init /\ Forecasts!Init /\ Features!Init /\ Data!Init /\ Evaluation!Init /\ Train!Init
    /\ followed \in {"collector", "store", "stages", "features", "data", "leads", "training"}
    /\ <<platform, mode>> \notin {<<"posix", "drain">>, <<"windows", "once">>}
    /\ followed # "collector" => platform = "posix" /\ mode = "follow"
    /\ followed # "features" => window_step = 1
    /\ followed # "leads" => min_consecutive_correct = 1
    /\ followed # "training" => models.files["csv"] = Train!Missing

Collector(A) == /\ followed = "collector" /\ A
                /\ UNCHANGED <<stageVars, featureVars, dataVars, leadVars, trainingVars, followed>>
Store(A)     == /\ followed = "store" /\ A
                /\ UNCHANGED <<fsVars, ctlVars, runVars, stageVars, featureVars, dataVars, leadVars,
                               trainingVars, followed>>
Stage(A)     == /\ followed = "stages" /\ A
                /\ UNCHANGED <<vars, featureVars, dataVars, leadVars, trainingVars, followed>>
Feature(A)   == /\ followed = "features" /\ A
                /\ UNCHANGED <<vars, stageVars, dataVars, leadVars, trainingVars, followed>>
Loading(A)   == /\ followed = "data" /\ A
                /\ UNCHANGED <<vars, stageVars, featureVars, leadVars, trainingVars, followed>>
Evaluating(A) == /\ followed = "leads" /\ A
                 /\ UNCHANGED <<vars, stageVars, featureVars, dataVars, trainingVars, followed>>
TrainingRun(A) == /\ followed = "training" /\ A
                  /\ UNCHANGED <<vars, stageVars, featureVars, dataVars, leadVars, followed>>

MCNext ==
    \/ Collector(Next) \/ Store(StoreNext) \/ Stage(Forecasts!Next) \/ Feature(Features!Next)
    \/ Loading(Data!Next) \/ Evaluating(Evaluation!Next) \/ TrainingRun(Train!Next)

MCSpec == MCInit /\ [][MCNext]_allVars /\ WF_allVars(Collector(Step))

----------------------------------------------------------------------------

\* A step is SUSTAINED, and critical, exactly in a long surge (module Stages).
LabelsExact == followed = "stages" => Forecasts!LabelsExact

\* The Markov chain's distributions are sums over all paths (module Stages).
TrajectoryExact == followed = "stages" => Forecasts!TrajectoryExact

\* Viterbi's path is the likeliest, and the forecasts are the likeliest stages (module Stages).
ViterbiOptimal == followed = "stages" => Forecasts!ViterbiOptimal

\* No request falls between the evaluated windows (module FeatureWindows).
EveryRequestCovered == followed = "features" => Features!EveryRequestCovered

\* Training, validation and test data do not touch (module SequenceData).
NoLeakage == followed = "data" => Data!NoLeakage

\* Episodes and lead times are what LeadTimeConfig defines (module LeadTime).
WarningsExact == followed = "leads" => Evaluation!WarningsExact

\* Every alarm is a false alarm or part of a warning (module LeadTime).
AlarmsAccounted == followed = "leads" => Evaluation!AlarmsAccounted

\* Early stopping saves the best epoch's weights (module Training).
BestWeightsReturned == followed = "training" => Train!BestWeightsReturned

\* A report of a validated export matches the files (module Training).
HonestReport == followed = "training" => Train!HonestReport
=============================================================================
