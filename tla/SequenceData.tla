---------------------------- MODULE SequenceData ----------------------------
(***************************************************************************)
(* forecasting/models/data_loader.py: labelled sequences are shuffled,     *)
(* split into training, validation and test data, cut into windows and     *)
(* scaled.  A sequence is known by its position in the CSV, a value by     *)
(* sequence and step.                                                      *)
(***************************************************************************)
EXTENDS Integers, Sequences, FiniteSets, SequencesExt, FiniteSetsExt

CONSTANTS
    seq_len, forecast_horizon,
    Ratios,                     \* <<train_ratio, val_ratio>> in per cent
    Lengths, MaxSequences       \* of sequences, and bound on their number

DataAssumption ==
    /\ seq_len \in Nat \ {0} /\ forecast_horizon \in Nat \ {0}
    /\ Ratios \subseteq (0 .. 100) \X (0 .. 100)
    /\ Lengths \subseteq Nat \ {0} /\ MaxSequences \in Nat

VARIABLES
    lengths,            \* of the sequences in the CSV
    split,              \* sequence indices by loader, once created
    samples,            \* windows by loader: [seq, x, y], x and y the steps taken
    scaler              \* the values the scaler was fitted on

NotLoaded == [loader \in {"train", "val", "test"} |-> <<>>]

Init == lengths = <<>> /\ split = NotLoaded /\ samples = NotLoaded /\ scaler = {}

AddSequence(n) ==
    /\ split = NotLoaded /\ Len(lengths) < MaxSequences
    /\ lengths' = Append(lengths, n)
    /\ UNCHANGED <<split, samples, scaler>>

\* how many sequences train and validate: at least one each, never more than there are
Sizes(n, ratio) ==
    LET n_train == Max({1, (n * ratio[1]) \div 100})
        n_val   == IF ratio[2] > 0 THEN Max({1, (n * ratio[2]) \div 100}) ELSE 0
    IN  <<n_train, IF n_train + n_val >= n THEN Max({0, n - n_train}) ELSE n_val>>

\* the slices of the shuffled indices; an empty test set borrows from a val set of several
Split_BorrowCopies(indices, ratio) ==
    LET n == Len(indices)
        sizes == Sizes(n, ratio)
        val  == SubSeq(indices, sizes[1] + 1, sizes[1] + sizes[2])
        test == SubSeq(indices, sizes[1] + sizes[2] + 1, n)
    IN  [train |-> SubSeq(indices, 1, sizes[1]), val |-> val,
         test |-> IF test = <<>> /\ Len(val) > 1 THEN <<Last(val)>> ELSE test]
Split(indices, ratio) ==
    LET n == Len(indices)
        sizes == Sizes(n, ratio)
        val  == SubSeq(indices, sizes[1] + 1, sizes[1] + sizes[2])
        test == SubSeq(indices, sizes[1] + sizes[2] + 1, n)
        borrow == test = <<>> /\ Len(val) > 1
    IN  [train |-> SubSeq(indices, 1, sizes[1]),
         val |-> IF borrow THEN Front(val) ELSE val,
         test |-> IF borrow THEN <<Last(val)>> ELSE test]

\* extract_sliding_windows of one sequence
Windows(s) ==
    LET total_window == seq_len + forecast_horizon
    IN  [i \in 1 .. lengths[s] - total_window + 1 |->
            [seq |-> s, x |-> i .. i + seq_len - 1, y |-> i + seq_len .. i + total_window - 1]]

extract_sliding_windows(seqs) == FlattenSeq([k \in DOMAIN seqs |-> Windows(seqs[k])])

\* FeatureScaler.fit: on all steps of the given sequences
fit(seqs) == UNION {{s} \X (1 .. lengths[s]) : s \in ToSet(seqs)}

create_dataloaders(indices, ratio) ==
    /\ split = NotLoaded /\ lengths # <<>>
    /\ split' = Split(indices, ratio)
    /\ scaler' = fit(split'.train)
    /\ samples' = [loader \in DOMAIN split |-> extract_sliding_windows(split'[loader])]
    /\ UNCHANGED lengths

Next == \/ \E n \in Lengths : AddSequence(n)
        \/ \E indices \in SetToSeqs(DOMAIN lengths), ratio \in Ratios : create_dataloaders(indices, ratio)

vars == <<lengths, split, samples, scaler>>
Spec == Init /\ [][Next]_vars

----------------------------------------------------------------------------

Used(loader) == UNION {{w.seq} \X (w.x \cup w.y) : w \in ToSet(samples[loader])}

\* "split strictly at sequence boundary, fit FeatureScaler only on training data": after
\* create_dataloaders every sequence is in exactly one split, no value of a validation or test
\* window is among those the scaler was fitted on, no value occurs in windows of two loaders,
\* and a sequence gives a window at each step where one fits, with the future it must predict.
NoLeakage ==
    split # NotLoaded =>
        /\ \A s \in DOMAIN lengths :
              Cardinality({p \in (DOMAIN split) \X (DOMAIN lengths) :
                              p[2] <= Len(split[p[1]]) /\ split[p[1]][p[2]] = s}) = 1
        /\ \A l, m \in DOMAIN split : l # m => Used(l) \cap Used(m) = {}
        /\ scaler \cap (Used("val") \cup Used("test")) = {}
        /\ \A l \in DOMAIN split, s \in DOMAIN lengths : s \in ToSet(split[l]) =>
              {Max(w.x) : w \in {v \in ToSet(samples[l]) : v.seq = s}}
                  = {t \in seq_len .. lengths[s] : t + forecast_horizon <= lengths[s]}
        /\ \A l \in DOMAIN split : \A w \in ToSet(samples[l]) :
              Min(w.y) = Max(w.x) + 1 /\ Max(w.y) <= lengths[w.seq]
=============================================================================
