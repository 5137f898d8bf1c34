------------------------------- MODULE Stages -------------------------------
(***************************************************************************)
(* From anomaly scores to forecast stages: forecasting/config.py,          *)
(* state_labeler.py, models/markov_chain.py, models/hmm_model.py,          *)
(* attack_progression.py and mitre_mapping.py.  Scores are per cent.  A    *)
(* row of probabilities is kept as whole weights over the row's sum, and a *)
(* distribution k steps ahead as whole numbers over the k-th power of that *)
(* sum, so that comparisons are exact.  Viterbi's sums of logarithms are   *)
(* products of weights here.                                               *)
(***************************************************************************)
EXTENDS Integers, Sequences, FiniteSets, SequencesExt, FiniteSetsExt, Functions

CONSTANTS
    n_states,           \* of the Markov chain and of the HMM; the labels are 0 .. 4
    smoothing_alpha,
    Symbols, Emission,  \* observations, and the weight of each in a hidden state
    Scores, MaxSteps,   \* anomaly scores in per cent, bound on a client's states
    Horizon             \* FORECAST_HORIZON

StagesAssumption ==
    /\ n_states \in 1 .. 5 /\ smoothing_alpha \in Nat \ {0}
    /\ Emission \in [0 .. n_states - 1 -> [Symbols -> Nat \ {0}]]
    /\ Scores \subseteq Int /\ MaxSteps \in Nat /\ Horizon \in Nat \ {0}

VARIABLES
    scores, labels,     \* the states of a client in order, and their labels
    markov,             \* transition_matrix
    hmm                 \* start_prob and transition_matrix

NORMAL     == 0
RECON      == 1
ESCALATION == 2
SURGE      == 3
SUSTAINED  == 4
SUSTAINED_MIN_CONSECUTIVE_STEPS == 3

label_state(score) == CASE score < 30 -> NORMAL
                        [] score >= 30 /\ score < 50 -> RECON
                        [] score >= 50 /\ score < 70 -> ESCALATION
                        [] OTHER -> SURGE

\* One turn of the second pass: acc holds consecutive_surge and refined_labels.
Promote_LastStepsOnly(acc, i, raw_labels) ==
    LET run == IF raw_labels[i] = SURGE THEN acc.run + 1 ELSE 0
    IN  [run |-> run,
         labels |-> [j \in DOMAIN acc.labels |->
            IF run >= SUSTAINED_MIN_CONSECUTIVE_STEPS /\ j = i THEN SUSTAINED ELSE acc.labels[j]]]
Promote(acc, i, raw_labels) ==
    LET run == IF raw_labels[i] = SURGE THEN acc.run + 1 ELSE 0
    IN  [run |-> run,
         labels |-> [j \in DOMAIN acc.labels |->
            IF run >= SUSTAINED_MIN_CONSECUTIVE_STEPS /\ j \in i - run + 1 .. i
            THEN SUSTAINED ELSE acc.labels[j]]]

label_sequence(states) ==
    LET raw_labels == [i \in DOMAIN states |-> label_state(states[i])]
    IN  FoldLeftDomain(LAMBDA acc, i : Promote(acc, i, raw_labels),
                       [run |-> 0, labels |-> raw_labels], raw_labels).labels

----------------------------------------------------------------------------
\* Markov chain over the stages.

States == 0 .. n_states - 1

\* StateStore.get_all_sequences, for the states of one client
get_all_sequences(states, window_size, min_length) ==
    IF Len(states) < min_length THEN <<>>
    ELSE [i \in 1 .. Len(states) - window_size + 1 |-> SubSeq(states, i, i + window_size - 1)]

\* transitions between valid stages, over all sequences
Transitions(seqs, i, j) ==
    SumFunction([k \in DOMAIN seqs |->
        Cardinality({t \in 1 .. Len(seqs[k]) - 1 : seqs[k][t] = i /\ seqs[k][t + 1] = j})])

\* fit: smoothed counts divided by their row's sum, here over the product of all row sums;
\* without sequences this is the uniform matrix of __init__
Normalised(smoothed) ==
    LET row_sums == [i \in States |-> SumFunction(smoothed[i])]
        product  == FoldFunction(LAMBDA r, acc : r * acc, 1, row_sums)
    IN  [i \in States |-> [j \in States |-> smoothed[i][j] * (product \div row_sums[i])]]
fit_markov(seqs) ==
    Normalised([i \in States |-> [j \in States |-> smoothing_alpha + Transitions(seqs, i, j)]])

\* AttackProgressionModel.from_state_store
from_state_store(client_labels) == fit_markov(get_all_sequences(client_labels, 4, 2))

\* state_vec @ transition_matrix
Project_Transposed(m, vec) ==
    [j \in States |-> SumFunction([i \in States |-> vec[i] * m[j][i]])]
Project(m, vec) ==
    [j \in States |-> SumFunction([i \in States |-> vec[i] * m[i][j]])]

OneHot(s) == [i \in States |-> IF i = s THEN 1 ELSE 0]

\* predict_trajectory_proba, forecast_proba: the distributions for t+1 .. t+steps
predict_trajectory_proba(m, s, steps) ==
    FoldLeft(LAMBDA acc, k : Append(acc, Project(m, IF acc = <<>> THEN OneHot(s) ELSE Last(acc))),
             <<>>, [k \in 1 .. steps |-> k])

\* np.argmax, and max over the keys in order: the first of the greatest
argmax(f) == LET top == Max(Range(f)) IN Min({i \in DOMAIN f : f[i] = top})

\* predict_trajectory and get_likely_trajectory; an unknown stage forecasts NORMAL
predict_trajectory(m, s, steps) ==
    LET ahead == predict_trajectory_proba(m, s, steps)
    IN  [k \in 1 .. steps |-> IF s \in States THEN argmax(ahead[k]) ELSE NORMAL]

\* get_escalation_, get_deescalation_ and get_stability_probability, over the row's sum
get_escalation(m, s)   == SumFunctionOnSet(m[s], {j \in States : j > s})
get_deescalation(m, s) == SumFunctionOnSet(m[s], {j \in States : j < s})
get_stability(m, s)    == m[s][s]

----------------------------------------------------------------------------
\* Hidden Markov model.

\* fit: smoothed counts of the first state and of the transitions of labelled sequences
fit_hmm(seqs) ==
    [start |-> [s \in States |-> smoothing_alpha
                    + Cardinality({k \in DOMAIN seqs : seqs[k] # <<>> /\ seqs[k][1] = s})],
     trans |-> fit_markov(seqs)]

\* Row t of the tables from row t - 1: per state the best score and the state it came from.
ViterbiRow_Reversed(h, prev, o) ==
    [s \in States |->
        LET came == [p \in States |-> prev[p].score * h.trans[s][p]]
            from == argmax(came)
        IN  [score |-> came[from] * Emission[s][o], back |-> from]]
ViterbiRow(h, prev, o) ==
    [s \in States |->
        LET came == [p \in States |-> prev[p].score * h.trans[p][s]]
            from == argmax(came)
        IN  [score |-> came[from] * Emission[s][o], back |-> from]]

viterbi_table(h, obs) ==
    FoldLeft(LAMBDA rows, o : Append(rows, IF rows = <<>>
                 THEN [s \in States |-> [score |-> h.start[s] * Emission[s][o], back |-> 0]]
                 ELSE ViterbiRow(h, Last(rows), o)), <<>>, obs)

\* the best last state, then backwards along the pointers
viterbi(h, obs) ==
    LET rows == viterbi_table(h, obs)
        best == argmax([s \in States |-> Last(rows)[s].score])
    IN  IF obs = <<>> THEN <<>>
        ELSE FoldRight(LAMBDA row, path : <<row[path[1]].back>> \o path, Tail(rows), <<best>>)

\* predict and forecast
predict(h, obs)         == IF obs = <<>> THEN NORMAL ELSE Last(viterbi(h, obs))
forecast(h, obs, steps) == predict_trajectory(h.trans, predict(h, obs), steps)

\* The adapters of models/protocol.py.  The Markov chain takes the current stage from the HMM
\* it was given, if any (attached is empty or has the HMM).
decode_current_state(attached, obs) ==
    IF attached = <<>> THEN NORMAL ELSE predict(attached[1], obs)
MarkovChainAdapter_predict(m, attached, obs) ==
    predict_trajectory(m, decode_current_state(attached, obs), Horizon)
HMMAdapter_predict(h, obs) == forecast(h, obs, Horizon)

----------------------------------------------------------------------------
\* MITRE_STAGE_MAPPING: the severities of a stage's techniques.

Severities == <<"INFO", "LOW", "MEDIUM", "HIGH", "CRITICAL">>
map_stage_to_techniques(stage) == CASE stage = RECON -> {"MEDIUM", "LOW"}
                                    [] stage \in {ESCALATION, SURGE} -> {"HIGH"}
                                    [] stage = SUSTAINED -> {"CRITICAL"}
                                    [] OTHER -> {}

\* max_severity of map_forecast_to_mitre, as a rank in Severities
max_severity(stage) ==
    Max({1} \cup {k \in 2 .. 5 : Severities[k] \in map_stage_to_techniques(stage)})

----------------------------------------------------------------------------
\* One client's states arrive; after each its history is labelled and the models are fitted.

Init ==
    /\ scores = <<>> /\ labels = <<>>
    /\ markov = fit_markov(<<>>) /\ hmm = fit_hmm(<<>>)

\* generate_labeled_dataset, then the two fits
Observe(score) ==
    /\ Len(scores) < MaxSteps
    /\ scores' = Append(scores, score)
    /\ labels' = label_sequence(scores')
    /\ markov' = from_state_store(labels')
    /\ hmm' = fit_hmm(<<labels'>>)

Next == \E score \in Scores : Observe(score)

vars == <<scores, labels, markov, hmm>>
Spec == Init /\ [][Next]_vars

----------------------------------------------------------------------------

InLongSurge(i) ==
    \E a, b \in DOMAIN scores : /\ a <= i /\ i <= b /\ b - a + 1 >= SUSTAINED_MIN_CONSECUTIVE_STEPS
                                /\ \A k \in a .. b : scores[k] >= 70

\* The second pass of label_sequence promotes a step exactly when it lies in a stretch of at
\* least three steps at surge level, steps before the third included, and map_forecast_to_mitre
\* calls exactly those steps critical, whatever the states before and after.
LabelsExact ==
    \A i \in DOMAIN scores :
        /\ labels[i] = IF InLongSurge(i) THEN SUSTAINED ELSE label_state(scores[i])
        /\ Severities[max_severity(labels[i])] = "CRITICAL" <=> InLongSurge(i)

\* All ways from s to j in k steps, each with the product of its weights.
PathSum(m, s, j, k) ==
    MapThenSumSet(LAMBDA p : FoldLeftDomain(LAMBDA acc, t :
                        IF t > k THEN acc ELSE acc * m[p[t]][p[t + 1]], 1, p),
                  {p \in [1 .. k + 1 -> States] : p[1] = s /\ p[k + 1] = j})

\* The distribution that predict_trajectory_proba gives for t+k is the sum over all ways to
\* get there, no mass is lost on the way, and for the next step the mass splits into
\* escalation, stability and de-escalation (markov_chain.py, attack_progression.py).
TrajectoryExact ==
    \A s \in States :
        LET whole == SumFunction(markov[0])
            ahead == predict_trajectory_proba(markov, s, Horizon)
        IN /\ \A k \in 1 .. Horizon :
                 /\ \A j \in States : ahead[k][j] = PathSum(markov, s, j, k)
                 /\ SumFunction(ahead[k]) = whole * (IF k = 1 THEN 1 ELSE SumFunction(ahead[k - 1]))
           /\ get_escalation(markov, s) + get_deescalation(markov, s) + get_stability(markov, s) = whole

PathScore(path, obs) ==
    FoldLeftDomain(LAMBDA acc, t : acc * Emission[path[t]][obs[t]]
                        * (IF t = 1 THEN hmm.start[path[1]] ELSE hmm.trans[path[t - 1]][path[t]]),
                   1, path)

\* Every step of the forecast f is a stage that a chain started in s is most likely to be in by
\* then, over all ways there.
Likeliest(f, m, s) ==
    \A k \in 1 .. Horizon :
        LET reached == PathSum(m, s, f[k], k)
        IN  f[k] \in States /\ \A j \in States : PathSum(m, s, j, k) <= reached

\* The path viterbi decodes is at least as likely as every other path of its length, and what
\* an adapter forecasts is the likeliest by its own transitions: from the end of that path with
\* the HMM, from NORMAL for a Markov chain that has none (hmm_model.py, protocol.py).
ViterbiOptimal ==
    \A obs \in [1 .. Horizon -> Symbols] :
        LET best == viterbi(hmm, obs)
        IN /\ \A path \in [1 .. Horizon -> States] : PathScore(path, obs) <= PathScore(best, obs)
           /\ Likeliest(HMMAdapter_predict(hmm, obs), hmm.trans, best[Horizon])
           /\ Likeliest(MarkovChainAdapter_predict(markov, <<hmm>>, obs), markov, best[Horizon])
           /\ Likeliest(MarkovChainAdapter_predict(markov, <<>>, obs), markov, NORMAL)
=============================================================================
