---------------------------- MODULE CostPipeline -----------------------------
(***************************************************************************)
(* The two stages of the cost model.  bench_baselines times the pure       *)
(* suites and writes baseline_matrix_weights.json; bench_hybrid loads that *)
(* file, times the hybrid suites under either KDF, and sets what it        *)
(* measured against what the weights predict.  Both exist in C and in      *)
(* Python, share the file, and nothing keeps them from running at once.    *)
(*                                                                         *)
(* Arithmetic is left out: a mean stands for the set of samples it is      *)
(* taken over, {} for the 0.0 of no sample.  A sample is known by its      *)
(* suite, KDF, run and the start of the program it was measured in.        *)
(***************************************************************************)
EXTENDS AlgoConfig, Sequences

CONSTANTS Baselines, Hybrids,   \* the pure and the hybrid suites, in table order
          Kinds,                \* which implementations take part
          RunCounts, NUM_RUNS,  \* what --runs may say; the constant of Python
          Counters,             \* performance counters, all used alike
          MaxTrainings, MaxEvaluations

ASSUME PipelineAssumption ==
  /\ Baselines \in Seq(AlgoCombo) /\ Hybrids \in Seq(AlgoCombo)
  /\ \A i \in DOMAIN Baselines : Baselines[i].profile # "HYBRID" /\ Consistent(Baselines[i])
  /\ \A i \in DOMAIN Hybrids : Hybrids[i].profile = "HYBRID" /\ Consistent(Hybrids[i])
  /\ \A i \in DOMAIN Hybrids : Hybrids[i].pqc \in {"MLKEM_768", "MLKEM_1024"}
  /\ \A i, j \in DOMAIN Hybrids : Hybrids[i].id = Hybrids[j].id => i = j
  /\ Kinds \subseteq {"c", "python"}
  /\ RunCounts \subseteq Int /\ NUM_RUNS \in Nat \ {0, 1}
  /\ MaxTrainings \in Nat /\ MaxEvaluations \in Nat

VARIABLES
  file,      \* baseline_matrix_weights.json
  b,         \* the baseline program
  h,         \* the hybrid program
  report     \* hybrid_telemetry_matrix.json

vars == <<file, b, h, report>>

Sample(c, kdf, run, start) == [id |-> c.id, kdf |-> kdf, run |-> run, start |-> start]
Phases == <<"sha256", "blake3">>

Absent == [state |-> "absent"]
Torn   == [state |-> "torn"]     \* opened for writing, and nothing written yet
Weights(start, w) == [state |-> "written", start |-> start, w |-> w]

\* A buffer of samples; a slot that was never written holds {}.
Empty == [i \in {} |-> {}]
With(f, x, v) == [y \in DOMAIN f \cup {x} |-> IF y = x THEN v ELSE f[y]]
Put(buf, i, s) == With(buf, i, {s})
Window(buf, lo, hi) == UNION {buf[i] : i \in (lo .. hi - 1) \cap DOMAIN buf}

\* metrics_stable_cost(): skip iteration 0, the cold start, if there is another.
metrics_stable_cost(buf, n) == Window(buf, IF n <= 1 THEN 0 ELSE 1, n)

\* extract_stable_baseline_cost() of metrics_collector.py.
extract_stable_baseline_cost(buf, n) ==
  IF n <= 1 THEN Window(buf, 0, n) ELSE Window(buf, 1, n)

\* stats["avg"] of calculate_summary_stats(): every run, the cold start included.
calculate_summary_stats(buf, n) == Window(buf, 0, n)

Off(start) == [pc |-> "off", start |-> start]

Init == file = Absent /\ b = Off(0) /\ h = Off(0) /\ report = {}

----------------------------------------------------------------------------
(* Defects, used by no specification *)

\* An aborted profile is used as far as it went, and over the whole buffer.
BaselineRunFails_StillUsed ==
  /\ b.pc = "run" /\ b.i <= Len(Baselines) /\ b.ok < b.runs
  /\ b' = [b EXCEPT !.ok = b.runs]
  /\ UNCHANGED <<file, h, report>>

\* The cold start is averaged with the other counts.
Warm_All(run) == TRUE

\* Counters are switched on without being reset.
hw_telemetry_start_NoReset(fd, cnt) == cnt

\* The fallback counter is not closed.
hw_telemetry_cleanup_Forgets(fd) ==
  [c \in Counters |-> IF c = "l2_miss" THEN fd[c] ELSE "zero"]

\* Names are registered as the labels spell them.
Normalised_AsIs(name) == name

\* A line of load_weights() is copied without its key being changed.
KeyOf_P256IsP384(curve) == IF curve = "P256" THEN "P384" ELSE curve

\* ... or asks for the name of the label.
KeyOf_Label(curve) == IF curve = "P384" THEN "SecP384r1" ELSE curve

----------------------------------------------------------------------------
(* bench_baselines *)

\* How many runs; the C program allocates the buffer and fails for a negative
\* number of them.
StartBaselines ==
  /\ b.pc = "off" /\ b.start < MaxTrainings
  /\ \E kind \in Kinds : \E n \in IF kind = "c" THEN RunCounts ELSE {NUM_RUNS} :
       b' = IF n < 0 THEN Off(b.start + 1)
            ELSE [pc |-> "run", start |-> b.start + 1, kind |-> kind, runs |-> n,
                  i |-> 1, ok |-> 0, buf |-> Empty, w |-> Empty]
  /\ UNCHANGED <<file, h, report>>

\* The buffer is one for all profiles in C, and a new list for each in Python.
NextBaseline(w) ==
  b' = [b EXCEPT !.i = @ + 1, !.ok = 0, !.w = w,
                 !.buf = IF b.kind = "c" THEN @ ELSE Empty]

BaselineRun ==
  /\ b.pc = "run" /\ b.i <= Len(Baselines) /\ b.ok < b.runs
  /\ b' = [b EXCEPT !.ok = @ + 1,
                    !.buf = Put(@, b.ok, Sample(Baselines[b.i], "sha256", b.ok, b.start))]
  /\ UNCHANGED <<file, h, report>>

\* A failed handshake, or an exception, aborts the profile.
BaselineRunFails ==
  /\ b.pc = "run" /\ b.i <= Len(Baselines) /\ b.ok < b.runs
  /\ NextBaseline(b.w)
  /\ UNCHANGED <<file, h, report>>

Key(c) == IF c.profile = "PURE_CLASSICAL" THEN c.curve ELSE c.pqc

BaselineDone ==
  /\ b.pc = "run" /\ b.i <= Len(Baselines) /\ b.ok = b.runs
  /\ LET c == Baselines[b.i]
         cost == IF b.kind = "c" THEN metrics_stable_cost(b.buf, b.ok)
                 ELSE extract_stable_baseline_cost(b.buf, b.ok)
     IN NextBaseline(With(b.w, Key(c), [label |-> c, cost |-> cost]))
  /\ UNCHANGED <<file, h, report>>

\* Open the file, which empties it, and write it when it is closed.
OpenWeights ==
  /\ b.pc = "run" /\ b.i > Len(Baselines)
  /\ \/ file' = Torn /\ b' = [b EXCEPT !.pc = "write"]
     \/ b' = Off(b.start) /\ UNCHANGED file
  /\ UNCHANGED <<h, report>>

WriteWeights ==
  /\ b.pc = "write"
  /\ file' = Weights(b.start, b.w) /\ b' = Off(b.start)
  /\ UNCHANGED <<h, report>>

KillBaselines ==
  /\ b.pc # "off" /\ b' = Off(b.start)
  /\ UNCHANGED <<file, h, report>>

----------------------------------------------------------------------------
(* The cost model: what an algorithm's weight is, {} if there is none *)

CostOf(w, key) == IF key \in DOMAIN w THEN w[key].cost ELSE {}

\* load_weights() knows five keys.
KnownKeys == {"X25519", "P256", "P384", "MLKEM_768", "MLKEM_1024"}
KeyOf(curve) == curve
LoadedModel(w) == [k \in KnownKeys |-> CostOf(w, KeyOf(k))]

get_classical_cost(model, curve) == IF curve \in {"X25519", "P256", "P384"}
                                    THEN model[curve] ELSE {}
get_pqc_cost(model, pqc) == IF pqc \in {"MLKEM_768", "MLKEM_1024"} THEN model[pqc] ELSE {}

\* register_baseline_cost() goes by the label, and has to know its spelling.
LabelName(c) ==
  IF c.profile = "PURE_CLASSICAL"
  THEN [X25519 |-> "X25519", P256 |-> "SecP256r1", P384 |-> "SecP384r1"][c.curve]
  ELSE c.pqc
Normalised(name) ==
  CASE name \in {"SecP256r1", "P256"} -> "P256"
    [] name \in {"SecP384r1", "P384"} -> "P384"
    [] OTHER -> name

register_baseline_cost(w) ==
  [n \in {Normalised(LabelName(w[k].label)) : k \in DOMAIN w} |->
     w[CHOOSE k \in DOMAIN w : Normalised(LabelName(w[k].label)) = n]]

\* The prediction's parts, and which training they come from.  KDF costs are
\* calibrated at start, or constants.
Prediction(start, classical, pqc) == [start |-> start, c |-> classical, q |-> pqc]
predict_hybrid_performance(model, c) ==
  Prediction(model.start, CostOf(model.w, c.curve), CostOf(model.w, c.pqc))
NoModel == [start |-> 0, w |-> Empty]

----------------------------------------------------------------------------
(* hw_telemetry *)

\* perf_event_open() may refuse any counter; -1 is kept for it.
hw_telemetry_init == [Counters -> {"open", "failed"}]
hw_telemetry_start(fd, cnt) == [c \in Counters |-> IF fd[c] = "open" THEN {} ELSE cnt[c]]
\* What the open counters saw goes to the result, 0 for the others.
hw_telemetry_stop(fd, cnt) == [c \in Counters |-> IF fd[c] = "open" THEN cnt[c] ELSE {}]
hw_telemetry_zero == [c \in Counters |-> "zero"]
hw_telemetry_cleanup(fd) == hw_telemetry_zero
Nothing == [c \in Counters |-> {}]
Both(f, g) == [c \in Counters |-> f[c] \cup g[c]]

----------------------------------------------------------------------------
(* bench_hybrid *)

Evaluating(kind, n, model) ==
  [pc |-> "track", start |-> h.start + 1, kind |-> kind, runs |-> n, phase |-> 1,
   i |-> 1, ok |-> 0, buf |-> Empty, tot |-> Nothing, rows |-> {}, model |-> model,
   weights |-> NoModel, fd |-> hw_telemetry_zero, cnt |-> Nothing]

\* C needs the file, and memory for the runs.
StartHybridC ==
  /\ h.pc = "off" /\ h.start < MaxEvaluations /\ "c" \in Kinds
  /\ \E n \in RunCounts :
       h' = IF file.state # "written" \/ n < 0 THEN Off(h.start + 1)
            ELSE Evaluating("c", n, [start |-> file.start, w |-> LoadedModel(file.w)])
  /\ UNCHANGED <<file, b, report>>

\* Python goes on without a predictor, and dies of a file it cannot parse.
StartHybridPython ==
  /\ h.pc = "off" /\ h.start < MaxEvaluations /\ "python" \in Kinds
  /\ h' = CASE file.state = "torn"    -> Off(h.start + 1)
            [] file.state = "absent"  -> Evaluating("python", NUM_RUNS, NoModel)
            [] file.state = "written" ->
                 Evaluating("python", NUM_RUNS,
                            [start |-> file.start, w |-> register_baseline_cost(file.w)])
  /\ UNCHANGED <<file, b, report>>

\* Each track opens the counters in C, and reads the weights again in Python.
StartTrackC ==
  /\ h.pc = "track" /\ h.kind = "c"
  /\ \E fd \in hw_telemetry_init :
       h' = [h EXCEPT !.pc = "run", !.i = 1, !.ok = 0, !.tot = Nothing, !.fd = fd,
                      !.cnt = Nothing]
  /\ UNCHANGED <<file, b, report>>

StartTrackPython ==
  /\ h.pc = "track" /\ h.kind = "python"
  /\ h' = CASE file.state = "torn"    -> Off(h.start)
            [] file.state = "absent"  -> [h EXCEPT !.pc = "run", !.i = 1, !.weights = NoModel]
            [] file.state = "written" ->
                 [h EXCEPT !.pc = "run", !.i = 1,
                           !.weights = [start |-> file.start, w |-> file.w]]
  /\ UNCHANGED <<file, b, report>>

Measuring == h.pc = "run" /\ h.i <= Len(Hybrids) /\ h.ok < h.runs
ThisSample == Sample(Hybrids[h.i], Phases[h.phase], h.ok, h.start)
Counting(cnt) == [c \in Counters |-> IF h.fd[c] = "open" THEN cnt[c] \cup {ThisSample} ELSE cnt[c]]
Started == Counting(hw_telemetry_start(h.fd, h.cnt))

\* Warm-up run 0 is not counted.
Warm(run) == run > 0

HybridRun ==
  /\ Measuring
  /\ h' = [h EXCEPT !.ok = @ + 1, !.buf = Put(@, h.ok, ThisSample),
                    !.cnt = IF h.kind = "c" THEN Started ELSE @,
                    !.tot = IF h.kind = "c" /\ Warm(h.ok)
                            THEN Both(@, hw_telemetry_stop(h.fd, Started)) ELSE @]
  /\ UNCHANGED <<file, b, report>>

\* A failure before the connection stands leaves the counters alone, a later one
\* leaves them running.
HybridRunFails ==
  /\ Measuring
  /\ \E cnt \in IF h.kind = "c" THEN {h.cnt, Started} ELSE {h.cnt} :
       h' = [h EXCEPT !.pc = "failed", !.cnt = cnt]
  /\ UNCHANGED <<file, b, report>>

\* emp is the mean in the table, all what the prediction is evaluated against.
Row(emp, all, telem, pred, drift) ==
  [id |-> Hybrids[h.i].id, kdf |-> Phases[h.phase], start |-> h.start, kind |-> h.kind,
   emp |-> emp, all |-> all, telem |-> telem, pred |-> pred, drift |-> drift]

\* C takes the runs there are, if there are two.
RowC ==
  LET c == Hybrids[h.i]
      emp == Window(h.buf, 1, h.ok)
      pred == Prediction(h.model.start, get_classical_cost(h.model.w, c.curve),
                         get_pqc_cost(h.model.w, c.pqc))
  IN IF h.ok < 2 THEN {} ELSE {Row(emp, emp, h.tot, pred, pred)}

\* Python takes all or nothing, predicts by the label and drifts by the key; the
\* drift is from the warm mean, the accuracy from the mean of all runs.
RowPython ==
  LET c == Hybrids[h.i]
      keyed == Prediction(h.weights.start, CostOf(h.weights.w, c.curve),
                          CostOf(h.weights.w, c.pqc))
  IN IF h.pc = "failed" THEN {}
     ELSE {Row(Window(h.buf, 1, h.ok), calculate_summary_stats(h.buf, h.ok), Nothing,
               predict_hybrid_performance(h.model, c), keyed)}

HybridDone ==
  /\ h.pc = "failed" \/ (h.pc = "run" /\ h.i <= Len(Hybrids) /\ h.ok = h.runs)
  /\ h' = [h EXCEPT !.pc = "run", !.i = @ + 1, !.ok = 0, !.tot = Nothing,
                    !.buf = IF h.kind = "c" THEN @ ELSE Empty,
                    !.rows = @ \cup (IF h.kind = "c" THEN RowC ELSE RowPython)]
  /\ UNCHANGED <<file, b, report>>

EndTrack ==
  /\ h.pc = "run" /\ h.i > Len(Hybrids)
  /\ h' = [h EXCEPT !.pc = IF h.phase = Len(Phases) THEN "export" ELSE "track",
                    !.phase = IF h.phase = Len(Phases) THEN @ ELSE @ + 1,
                    !.fd = IF h.kind = "c" THEN hw_telemetry_cleanup(@) ELSE @]
  /\ UNCHANGED <<file, b, report>>

\* C exports both tracks, if the file can be opened; Python only prints and plots.
Export ==
  /\ h.pc = "export" /\ h' = Off(h.start)
  /\ \/ h.kind = "c" /\ report' = h.rows
     \/ UNCHANGED report
  /\ UNCHANGED <<file, b>>

KillHybrid ==
  /\ h.pc # "off" /\ h' = Off(h.start)
  /\ UNCHANGED <<file, b, report>>

----------------------------------------------------------------------------
Next ==
  \/ StartBaselines \/ BaselineRun \/ BaselineRunFails \/ BaselineDone
  \/ OpenWeights \/ WriteWeights \/ KillBaselines
  \/ StartHybridC \/ StartHybridPython \/ StartTrackC \/ StartTrackPython
  \/ HybridRun \/ HybridRunFails \/ HybridDone \/ EndTrack \/ Export \/ KillHybrid

Spec == Init /\ [][Next]_vars

----------------------------------------------------------------------------
(* Properties *)

Rows == report \cup (IF h.pc = "off" THEN {} ELSE h.rows)

\* Run after run of one suite under one KDF in one start, from run lo on.
Runs(id, kdf, start, lo, n) ==
  {[id |-> id, kdf |-> kdf, run |-> r, start |-> start] : r \in lo .. n - 1}

PipelineTypeOK ==
  /\ file.state \in {"absent", "torn", "written"}
  /\ b.pc \in {"off", "run", "write"} /\ b.start \in 0 .. MaxTrainings
  /\ b.pc # "off" => /\ b.kind \in Kinds /\ b.runs \in Nat /\ b.ok \in 0 .. b.runs
                     /\ b.i \in 1 .. Len(Baselines) + 1
                     /\ DOMAIN b.buf \subseteq 0 .. b.runs - 1
  /\ h.pc \in {"off", "track", "run", "failed", "export"}
  /\ h.start \in 0 .. MaxEvaluations
  /\ h.pc # "off" => /\ h.kind \in Kinds /\ h.runs \in Nat /\ h.ok \in 0 .. h.runs
                     /\ h.i \in 1 .. Len(Hybrids) + 1 /\ h.phase \in DOMAIN Phases
                     /\ DOMAIN h.buf \subseteq 0 .. h.runs - 1

\* Every weight in the file is the steady state of a complete series of runs of
\* its own algorithm, all of one start of the program: an aborted profile and what
\* it left in the buffer are in none.
WeightsAreWholeProfiles ==
  file.state = "written" =>
    \A k \in DOMAIN file.w :
      LET e == file.w[k] IN
      /\ k = Key(e.label)
      /\ \E n \in RunCounts \cup {NUM_RUNS} :
           e.cost = Runs(e.label.id, "sha256", file.start, IF n <= 1 THEN 0 ELSE 1, n)

\* A row's latency is that of consecutive warm runs of its own suite and KDF; what
\* its prediction is evaluated against is the same in C and, in Python, the same
\* runs and the cold start before them.  Its counters counted these handshakes and
\* no others, failed ones included.
RowsAreOwnRuns ==
  \A row \in Rows :
    /\ \E m \in RunCounts \cup {NUM_RUNS} : \E n \in 2 .. m :
         /\ row.emp = Runs(row.id, row.kdf, row.start, 1, n)
         /\ row.all = Runs(row.id, row.kdf, row.start, IF row.kind = "c" THEN 1 ELSE 0, n)
    /\ row.kind = "c" => \A c \in Counters : row.telem[c] \in {{}, row.emp}

\* Whatever is predicted from is a baseline of the very algorithms the suite is
\* made of, measured in one start of bench_baselines.
Trained(pred, c) ==
  /\ \A s \in pred.c : \E i \in DOMAIN Baselines :
       Baselines[i].curve = c.curve /\ Baselines[i].id = s.id /\ s.start = pred.start
  /\ \A s \in pred.q : \E i \in DOMAIN Baselines :
       Baselines[i].pqc = c.pqc /\ Baselines[i].id = s.id /\ s.start = pred.start

\* ... and a weight the file has is not passed over for 0.0, as far as the file is
\* still the one that was read.
Complete(pred, c) ==
  file.state = "written" /\ file.start = pred.start =>
    pred.c = CostOf(file.w, c.curve) /\ pred.q = CostOf(file.w, c.pqc)

\* Weights are looked up by label for the prediction and by key for the drift; that
\* comes to the same as long as the file is the same, and to all the file has.
PredictionsAreTrained ==
  \A row \in Rows :
    /\ \A i \in DOMAIN Hybrids : Hybrids[i].id = row.id =>
         /\ Trained(row.pred, Hybrids[i]) /\ Trained(row.drift, Hybrids[i])
         /\ Complete(row.pred, Hybrids[i]) /\ Complete(row.drift, Hybrids[i])
    /\ row.pred.start = row.drift.start => row.pred = row.drift

\* Counters are open during a track only: none is left when the next opens its own.
CountersAreClosed ==
  h.pc \in {"track", "export"} => \A c \in Counters : h.fd[c] # "open"

\* ... and every variable keeps its type.
PipelineInv == PipelineTypeOK /\ CountersAreClosed
=============================================================================
