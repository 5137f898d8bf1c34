------------------------------ MODULE LeadTime ------------------------------
(***************************************************************************)
(* forecasting/evaluation/lead_time.py and evaluator.py: how long before   *)
(* an attack a model warned of it, which of its alarms were false, and the *)
(* confusion matrix.  A test window has the true and the predicted stage   *)
(* of t+1, and whether the model's probability reaches min_confidence.     *)
(***************************************************************************)
EXTENDS Integers, Sequences, FiniteSets, SequencesExt, FiniteSetsExt

CONSTANTS
    n_states, surge_threshold,      \* 5 and SURGE
    TrueStages, Predictions,        \* stages that occur; <<stage, confident>> pairs
    MinConsecutive,                 \* values of min_consecutive_correct
    Lookback,                       \* 20 windows
    MaxWindows                      \* bound on the test windows

LeadTimeAssumption ==
    /\ surge_threshold \in 0 .. n_states - 1 /\ TrueStages \subseteq 0 .. n_states - 1
    /\ Predictions \subseteq (0 .. n_states - 1) \X BOOLEAN
    /\ MinConsecutive \subseteq Nat \ {0} /\ Lookback \in Nat /\ MaxWindows \in Nat

VARIABLES
    t1_true, t1_pred,           \* by window
    min_consecutive_correct,
    evaluated,
    detections,                 \* per episode: onset, peak, resolution, lead, first_correct
    false_alarms,               \* the windows counted as false alarms
    cm                          \* confusion_matrix[true][predicted]

Init ==
    /\ t1_true = <<>> /\ t1_pred = <<>> /\ min_consecutive_correct \in MinConsecutive
    /\ evaluated = FALSE /\ detections = <<>> /\ false_alarms = {} /\ cm = <<>>

\* one more window of the test set, and what the model says of it
Window(stage, prediction) ==
    /\ ~evaluated /\ Len(t1_true) < MaxWindows
    /\ t1_true' = Append(t1_true, stage) /\ t1_pred' = Append(t1_pred, prediction)
    /\ UNCHANGED <<min_consecutive_correct, evaluated, detections, false_alarms, cm>>

Attack(i) == t1_true[i] >= surge_threshold
Alarm(i)  == t1_pred[i][1] >= surge_threshold

\* a run of attack windows, its peak the first of the highest
Extend(episodes, i) ==
    IF ~Attack(i) THEN episodes
    ELSE IF episodes = <<>> \/ Last(episodes).resolution < i - 1
    THEN Append(episodes, [onset |-> i, peak |-> i, resolution |-> i])
    ELSE LET e == Last(episodes)
         IN  Append(Front(episodes), [e EXCEPT !.resolution = i,
                                               !.peak = IF t1_true[i] > t1_true[@] THEN i ELSE @])
detect_episodes == FoldLeftDomain(Extend, <<>>, t1_true)

\* One step back from the onset: a streak of confident alarms that is long enough counts from
\* its first window.
ScanBack_NoReset(acc, idx, onset) ==
    LET predicted_attack == Alarm(idx) /\ t1_pred[idx][2]
        streak == IF predicted_attack THEN acc.consecutive + 1 ELSE acc.consecutive
    IN  IF predicted_attack /\ streak >= min_consecutive_correct /\ onset - idx > acc.lead
        THEN [consecutive |-> streak, lead |-> onset - idx, first_correct |-> idx]
        ELSE [acc EXCEPT !.consecutive = streak]
ScanBack(acc, idx, onset) ==
    LET predicted_attack == Alarm(idx) /\ t1_pred[idx][2]
        streak == IF predicted_attack THEN acc.consecutive + 1 ELSE 0
    IN  IF predicted_attack /\ streak >= min_consecutive_correct /\ onset - idx > acc.lead
        THEN [consecutive |-> streak, lead |-> onset - idx, first_correct |-> idx]
        ELSE [acc EXCEPT !.consecutive = streak]

\* lead 0 is "not detected"
evaluate_detections(episodes) ==
    LET Scanned(onset) == FoldLeft(LAMBDA acc, k : ScanBack(acc, onset - k, onset),
                                   [consecutive |-> 0, lead |-> 0, first_correct |-> 0],
                                   [k \in 1 .. Min({onset - 1, Lookback}) |-> k])
    IN  [n \in DOMAIN episodes |->
            LET best == Scanned(episodes[n].onset)
            IN  [onset |-> episodes[n].onset, peak |-> episodes[n].peak,
                 resolution |-> episodes[n].resolution,
                 lead |-> best.lead, first_correct |-> best.first_correct]]

\* the windows from a detection's first correct one to the onset
valid_indices_FirstOnly(ds) ==
    UNION {{ds[n].first_correct} : n \in {m \in DOMAIN ds : ds[m].lead > 0}}
valid_indices(ds) ==
    UNION {ds[n].first_correct .. ds[n].onset - 1 : n \in {m \in DOMAIN ds : ds[m].lead > 0}}

compute_false_alarms(ds) ==
    {i \in DOMAIN t1_true : ~Attack(i) /\ Alarm(i) /\ i \notin valid_indices(ds)}

\* ForecastEvaluator.evaluate
evaluate == [t \in 0 .. n_states - 1 |-> [p \in 0 .. n_states - 1 |->
                Cardinality({i \in DOMAIN t1_true : t1_true[i] = t /\ t1_pred[i][1] = p})]]

compute_lead_times ==
    /\ ~evaluated /\ evaluated' = TRUE
    /\ detections' = evaluate_detections(detect_episodes)
    /\ false_alarms' = compute_false_alarms(detections')
    /\ cm' = evaluate
    /\ UNCHANGED <<t1_true, t1_pred, min_consecutive_correct>>

Next == \/ \E stage \in TrueStages, prediction \in Predictions : Window(stage, prediction)
        \/ compute_lead_times

vars == <<t1_true, t1_pred, min_consecutive_correct, evaluated, detections, false_alarms, cm>>
Spec == Init /\ [][Next]_vars

----------------------------------------------------------------------------

\* The windows at which a warning of the attack at onset starts, told without a scan.
WarningStarts(onset) ==
    {s \in Max({1, onset - Lookback}) .. onset - min_consecutive_correct :
        \A i \in s .. s + min_consecutive_correct - 1 : Alarm(i) /\ t1_pred[i][2]}

\* detect_episodes and evaluate_detections say exactly what LeadTimeConfig defines: episodes
\* are the longest runs of attack windows, and the lead time of one is the distance to the
\* earliest window, not further back than Lookback, from which the required number of alarms
\* follow one another before the onset.
WarningsExact ==
    evaluated =>
        /\ \A i \in DOMAIN t1_true :
              LET around == {n \in DOMAIN detections :
                                detections[n].onset - 1 <= i /\ i <= detections[n].resolution + 1}
              IN  /\ Attack(i) => Cardinality(around) = 1
                  /\ Attack(i) <=> \E n \in around : i \in detections[n].onset .. detections[n].resolution
        /\ \A n \in DOMAIN detections :
              LET d == detections[n]
              IN  /\ \A i \in d.onset .. d.resolution :
                        t1_true[i] <= t1_true[d.peak] - (IF i < d.peak THEN 1 ELSE 0)
                  /\ d.lead = Max({0} \cup {d.onset - s : s \in WarningStarts(d.onset)})

QuietAlarms == {i \in DOMAIN t1_true : ~Attack(i) /\ Alarm(i)}

\* The two evaluators agree on the alarms: those in the confusion matrix are each either a
\* false alarm or forgiven because an attack starts within Lookback windows, and no alarm that
\* is part of a warning counts as false (compute_false_alarms, ForecastEvaluator.evaluate).
AlarmsAccounted ==
    evaluated =>
        /\ MapThenSumSet(LAMBDA s : cm[s[1]][s[2]],
                         (0 .. surge_threshold - 1) \X (surge_threshold .. n_states - 1))
              = Cardinality(false_alarms \cup QuietAlarms)
        /\ \A i \in QuietAlarms \ false_alarms :
              \E n \in DOMAIN detections : i < detections[n].onset /\ detections[n].onset - i <= Lookback
        /\ \A n \in DOMAIN detections, s \in DOMAIN t1_true :
              s \in WarningStarts(detections[n].onset) =>
                  false_alarms \cap (s .. s + min_consecutive_correct - 1) = {}
=============================================================================
