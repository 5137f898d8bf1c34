--------------------------- MODULE FeatureWindows ---------------------------
(***************************************************************************)
(* pipeline/feature_extraction/feature_extractor.py and                    *)
(* pipeline/dataset_builder/build_dataset.py: from one client's log        *)
(* entries to feature rows over sliding windows, and from rows to labels.  *)
(* Time is in steps of an arbitrary length.  Entropy and variance, which   *)
(* no label depends on, are left out.                                      *)
(***************************************************************************)
EXTENDS Integers, Sequences, FiniteSets, SequencesExt, FiniteSetsExt, Functions

CONSTANTS
    Times, Statuses,                \* timestamps, and [error, ms] pairs of an entry
    MaxEntries,                     \* bound on the log
    window_size, Steps, SubWindow,  \* 60, window_step, and the 10 of the sub-window
    BurstMin, BruteMin, FloodMin    \* the thresholds 50, 20 and 200 of classify_row

\* The defaults 60, 10 and 10 are in this order.
WindowsAssumption ==
    /\ Times \subseteq Nat /\ MaxEntries \in Nat /\ Steps \subseteq Nat \ {0}
    /\ SubWindow \in Nat /\ \A step \in Steps : step <= SubWindow
    /\ window_size \in Nat /\ SubWindow <= window_size
    /\ BurstMin \in Nat

VARIABLES
    log,                \* the entries of one ip_hash; ts is Missing when it does not parse
    window_step,
    phase,              \* "logging", "scan" while the loop runs, "rows", "done"
    curr_end, window_eval_times,
    dataset             \* the labelled rows

Missing == -1

valid_logs == {i \in DOMAIN log : log[i].ts # Missing}
t_first    == Min({log[i].ts : i \in valid_logs})
t_last     == Max({log[i].ts : i \in valid_logs})

Init ==
    /\ log = <<>> /\ window_step \in Steps /\ phase = "logging"
    /\ curr_end = 0 /\ window_eval_times = <<>> /\ dataset = <<>>

\* read_traffic_logs: an entry of the log, in the order of the file
Read(ts, status) ==
    /\ phase = "logging" /\ Len(log) < MaxEntries
    /\ log' = Append(log, [ts |-> ts, error |-> status.error, ms |-> status.ms])
    /\ UNCHANGED <<window_step, phase, curr_end, window_eval_times, dataset>>

InWindow(i, w_end, size) == 0 <= w_end - log[i].ts /\ w_end - log[i].ts <= size

\* One window is enough when all requests fall into one step; otherwise the loop starts.
StartScan ==
    /\ phase = "logging" /\ log # <<>>
    /\ \/ /\ valid_logs = {}
          /\ phase' = "rows" /\ UNCHANGED <<curr_end, window_eval_times>>
       \/ /\ valid_logs # {} /\ t_last - t_first <= window_step
          /\ window_eval_times' = <<t_last>>
          /\ phase' = "rows" /\ UNCHANGED curr_end
       \/ /\ valid_logs # {} /\ t_last - t_first > window_step
          /\ curr_end' = t_first + window_step
          /\ phase' = "scan" /\ UNCHANGED window_eval_times
    /\ UNCHANGED <<log, window_step, dataset>>

\* the end of the next window, past a gap longer than a window
NextEnd_PastRequest(next_reqs) ==
    IF next_reqs # {} /\ Min(next_reqs) - curr_end > window_size
    THEN Min(next_reqs) + SubWindow + window_step
    ELSE curr_end + window_step
NextEnd(next_reqs) ==
    IF next_reqs # {} /\ Min(next_reqs) - curr_end > window_size
    THEN Min(next_reqs) + window_step
    ELSE curr_end + window_step

ScanWindow ==
    /\ phase = "scan" /\ curr_end <= t_last + window_step
    /\ window_eval_times' = IF \E i \in valid_logs : InWindow(i, curr_end, window_size)
                            THEN Append(window_eval_times, curr_end) ELSE window_eval_times
    /\ curr_end' = NextEnd({log[i].ts : i \in valid_logs} \cap {t \in Times : t > curr_end})
    /\ UNCHANGED <<log, window_step, phase, dataset>>
ScanEnds ==
    /\ phase = "scan" /\ curr_end > t_last + window_step
    /\ phase' = "rows"
    /\ UNCHANGED <<log, window_step, curr_end, window_eval_times, dataset>>

\* latency_spike: the slowest is over 100 ms and over 1.5 times the average
Spike(S) ==
    LET total == MapThenSumSet(LAMBDA i : log[i].ms, S)
        slowest == Max({log[i].ms : i \in S})
    IN  2 * slowest * Cardinality(S) > 3 * total /\ slowest > 100

FeatureRow(w60, requests_10s) ==
    [requests_10s |-> requests_10s, requests_60s |-> Cardinality(w60),
     errors |-> Cardinality({i \in w60 : log[i].error}), spike |-> Spike(w60)]

\* the rows of the evaluated windows, or of one batch when no entry has a timestamp
feature_rows ==
    IF valid_logs = {} THEN <<FeatureRow(DOMAIN log, 1)>>
    ELSE [k \in DOMAIN window_eval_times |->
            FeatureRow({i \in valid_logs : InWindow(i, window_eval_times[k], window_size)},
                       Cardinality({i \in valid_logs : InWindow(i, window_eval_times[k], SubWindow)}))]

\* burst; brute force: half of many are errors; flood; spike with a third of errors
classify_row(row) ==
    IF \/ row.requests_10s >= BurstMin
       \/ 2 * row.errors >= row.requests_60s /\ row.requests_60s >= BruteMin
       \/ row.requests_60s >= FloodMin
       \/ row.spike /\ 10 * row.errors >= 3 * row.requests_60s
    THEN 1 ELSE 0

\* build_dataset's label_dataset and main
label_dataset ==
    /\ phase = "rows"
    /\ dataset' = [k \in DOMAIN feature_rows |-> [row |-> feature_rows[k],
                                                  label |-> classify_row(feature_rows[k])]]
    /\ phase' = "done"
    /\ UNCHANGED <<log, window_step, curr_end, window_eval_times>>

Next == \/ \E ts \in Times \cup {Missing}, status \in Statuses : Read(ts, status)
        \/ StartScan \/ ScanWindow \/ ScanEnds \/ label_dataset

vars == <<log, window_step, phase, curr_end, window_eval_times, dataset>>
Spec == Init /\ [][Next]_vars

----------------------------------------------------------------------------

\* Skipping idle gaps and stepping the window loses nothing: every request with a timestamp
\* lies in the 10-second part of some evaluated window (extract_features), so a burst at one
\* instant always ends up in a row that classify_row labels an attack.
EveryRequestCovered ==
    phase = "done" =>
        \A i \in valid_logs :
            /\ \E k \in DOMAIN window_eval_times : InWindow(i, window_eval_times[k], SubWindow)
            /\ Cardinality({j \in valid_logs : log[j].ts = log[i].ts}) >= BurstMin
                  => \E k \in DOMAIN dataset : dataset[k].label = 1
=============================================================================
