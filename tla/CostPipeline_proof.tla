-------------------------- MODULE CostPipeline_proof --------------------------
(***************************************************************************)
(* The cost model for every table, every number of runs and of starts, and *)
(* both implementations in any mix: weights are whole profiles, rows are   *)
(* over their own warm runs, predictions come from the suite's own         *)
(* algorithms and from one training, and no counter is left open.          *)
(***************************************************************************)
EXTENDS CostPipeline, TLAPS

(***************************************************************************)
(* What is in the file, and in the baseline program.                       *)
(***************************************************************************)

\* A weight is the steady state of a series of runs of its own algorithm.
GoodEntry(e, k, start) ==
  \E p \in DOMAIN Baselines, n \in RunCounts \cup {NUM_RUNS} :
    /\ k = Key(Baselines[p])
    /\ e = [label |-> Baselines[p],
            cost |-> Runs(Baselines[p].id, "sha256", start, IF n <= 1 THEN 0 ELSE 1, n)]

GoodWeights(w, start) == \A k \in DOMAIN w : GoodEntry(w[k], k, start)

\* The first n slots of the buffer are the runs 0 to n-1 of one suite.
Filled(buf, c, kdf, start, n) ==
  \A j \in 0 .. n - 1 : j \in DOMAIN buf /\ buf[j] = {Sample(c, kdf, j, start)}

BaseForm ==
  b = [pc |-> b.pc, start |-> b.start, kind |-> b.kind, runs |-> b.runs,
       i |-> b.i, ok |-> b.ok, buf |-> b.buf, w |-> b.w]

BaseTypes ==
  /\ b.start > 0 /\ b.kind \in Kinds
  /\ b.runs \in Nat \cap (RunCounts \cup {NUM_RUNS}) /\ b.ok \in 0 .. b.runs
  /\ b.i \in 1 .. Len(Baselines) + 1
  /\ DOMAIN b.buf \subseteq 0 .. b.runs - 1
  /\ GoodWeights(b.w, b.start)
  /\ b.i <= Len(Baselines) => Filled(b.buf, Baselines[b.i], "sha256", b.start, b.ok)

BaseInv ==
  /\ b.pc \in {"off", "run", "write"} /\ b.start \in 0 .. MaxTrainings
  /\ b.pc # "off" => BaseForm /\ BaseTypes

\* A start writes the file once, and the latest start last.
Past(start) == start \in 1 .. b.start /\ (b.pc # "off" => start < b.start)

FileInv ==
  /\ file.state \in {"absent", "torn", "written"}
  /\ file.state = "written" => GoodWeights(file.w, file.start) /\ Past(file.start)

(***************************************************************************)
(* What the hybrid program has read, counted and written.                  *)
(***************************************************************************)

Same(v, w) == DOMAIN v = DOMAIN w /\ \A k \in DOMAIN w : v[k] = w[k]

\* What was read from the file is still there, if nobody has trained since.
FromFile(m) ==
  \/ m = NoModel
  \/ /\ Past(m.start) /\ GoodWeights(m.w, m.start)
     /\ file.state = "written" /\ file.start = m.start => Same(m.w, file.w)

\* Samples of baselines of one algorithm and one start.
GoodCost(cost, k, start) ==
  \A s \in cost : /\ s.start = start
                  /\ \E p \in DOMAIN Baselines : Key(Baselines[p]) = k /\ Baselines[p].id = s.id

\* The same of the five weights that C keeps.
Loaded(m) ==
  /\ Past(m.start)
  /\ \A k \in KnownKeys : GoodCost(m.w[k], k, m.start)
  /\ file.state = "written" /\ file.start = m.start =>
       \A k \in KnownKeys : m.w[k] = CostOf(file.w, k)

ModelInv ==
  /\ h.kind = "c" => Loaded(h.model)
  /\ h.kind = "python" =>
       /\ FromFile(h.model) /\ FromFile(h.weights)
       /\ h.model.start = h.weights.start => Same(h.model.w, h.weights.w)

Suite == Hybrids[h.i]
Kdf == Phases[h.phase]

\* The buffer holds this suite's runs, the open counters its warm ones.
MeasureInv ==
  h.pc \in {"run", "failed"} /\ h.i <= Len(Hybrids) =>
    /\ Filled(h.buf, Suite, Kdf, h.start, h.ok)
    /\ h.kind = "c" => \A c \in Counters :
         h.tot[c] = IF h.fd[c] = "open" THEN Runs(Suite.id, Kdf, h.start, 1, h.ok) ELSE {}

GoodRow(row) ==
  /\ \E p \in DOMAIN Hybrids :
       row.id = Hybrids[p].id /\ Trained(row.pred, Hybrids[p]) /\ Trained(row.drift, Hybrids[p])
  /\ row.pred.start = row.drift.start => row.pred = row.drift
  /\ \E m \in RunCounts \cup {NUM_RUNS} : \E n \in 2 .. m :
       /\ row.emp = Runs(row.id, row.kdf, row.start, 1, n)
       /\ row.all = Runs(row.id, row.kdf, row.start, IF row.kind = "c" THEN 1 ELSE 0, n)
  /\ row.kind = "c" => \A c \in Counters : row.telem[c] \in {{}, row.emp}

\* A row leaves out nothing the file has, as long as nobody has trained since.
Kept(pred, c) == (pred.start = 0 \/ Past(pred.start)) /\ Complete(pred, c)
KeptRow(row) == \A p \in DOMAIN Hybrids :
  row.id = Hybrids[p].id => Kept(row.pred, Hybrids[p]) /\ Kept(row.drift, Hybrids[p])
RowsKept == \A row \in Rows : KeptRow(row)

\* The program itself.
HybridForm ==
  h = [pc |-> h.pc, start |-> h.start, kind |-> h.kind, runs |-> h.runs,
       phase |-> h.phase, i |-> h.i, ok |-> h.ok, buf |-> h.buf, tot |-> h.tot,
       rows |-> h.rows, model |-> h.model, weights |-> h.weights,
       fd |-> h.fd, cnt |-> h.cnt]

HybridTypes ==
  /\ h.kind \in Kinds /\ h.phase \in 1 .. 2 /\ h.i \in 1 .. Len(Hybrids) + 1
  /\ h.runs \in Nat \cap (RunCounts \cup {NUM_RUNS}) /\ h.ok \in 0 .. h.runs
  /\ DOMAIN h.buf \subseteq 0 .. h.runs - 1
  /\ h.kind = "python" => h.runs = NUM_RUNS
  /\ h.pc = "failed" => h.i <= Len(Hybrids)
  /\ h.pc \in {"track", "export"} \/ h.i > Len(Hybrids) => h.ok = 0
  /\ h.pc \in {"track", "export"} \/ h.kind = "python" => h.fd = hw_telemetry_zero

HybridInv ==
  /\ h.pc \in {"off", "track", "run", "failed", "export"}
  /\ h.start \in 0 .. MaxEvaluations
  /\ h.pc # "off" => HybridForm /\ HybridTypes /\ MeasureInv /\ \A row \in h.rows : GoodRow(row)
  /\ \A row \in report : GoodRow(row)

IInv == BaseInv /\ FileInv /\ HybridInv /\ (h.pc # "off" => ModelInv) /\ RowsKept

----------------------------------------------------------------------------
(* Facts about the operators *)

LEMMA Assumptions ==
  /\ Len(Baselines) \in Nat /\ DOMAIN Baselines = 1 .. Len(Baselines)
  /\ Len(Hybrids) \in Nat /\ DOMAIN Hybrids = 1 .. Len(Hybrids)
  /\ \A p \in DOMAIN Baselines : Baselines[p] \in AlgoCombo /\ Consistent(Baselines[p])
                                 /\ Baselines[p].profile # "HYBRID"
  /\ \A p \in DOMAIN Hybrids : Hybrids[p] \in AlgoCombo /\ Consistent(Hybrids[p])
                               /\ Hybrids[p].profile = "HYBRID"
                               /\ Hybrids[p].pqc \in {"MLKEM_768", "MLKEM_1024"}
  /\ \A p, q \in DOMAIN Hybrids : Hybrids[p].id = Hybrids[q].id => p = q
  /\ NUM_RUNS \in Nat /\ NUM_RUNS >= 2 /\ RunCounts \subseteq Int
  /\ MaxTrainings \in Nat /\ MaxEvaluations \in Nat
  /\ Kinds \subseteq {"c", "python"}
BY PipelineAssumption

\* One more run in the buffer.
LEMMA FilledPut ==
  ASSUME NEW buf, NEW c, NEW kdf, NEW start, NEW n \in Nat,
         Filled(buf, c, kdf, start, n)
  PROVE  Filled(Put(buf, n, Sample(c, kdf, n, start)), c, kdf, start, n + 1)
<1> DEFINE s == {Sample(c, kdf, n, start)}
<1>1. /\ DOMAIN With(buf, n, s) = DOMAIN buf \cup {n}
      /\ With(buf, n, s)[n] = s
      /\ \A y \in DOMAIN buf : y # n => With(buf, n, s)[y] = buf[y]
  BY DEF With
<1>2. ASSUME NEW j \in 0 .. (n + 1) - 1
      PROVE  j \in DOMAIN With(buf, n, s) /\ With(buf, n, s)[j] = {Sample(c, kdf, j, start)}
  <2>1. CASE j = n
    BY <1>1, <2>1
  <2>2. CASE j # n
    <3>1. j \in 0 .. n - 1
      BY <2>2
    <3>2. j \in DOMAIN buf /\ buf[j] = {Sample(c, kdf, j, start)}
      BY <3>1 DEF Filled
    <3> QED
      BY <3>2, <1>1, <2>2
  <2> QED
    BY <2>1, <2>2
<1> QED
  BY <1>2 DEF Filled, Put

LEMMA FilledNone ==
  ASSUME NEW buf, NEW c, NEW kdf, NEW start
  PROVE  Filled(buf, c, kdf, start, 0)
BY DEF Filled

\* A stretch of the buffer is that series of runs.
LEMMA WindowIsRuns ==
  ASSUME NEW buf, NEW c, NEW kdf, NEW start, NEW lo \in Nat, NEW n \in Nat,
         Filled(buf, c, kdf, start, n)
  PROVE  Window(buf, lo, n) = Runs(c.id, kdf, start, lo, n)
<1>1. (lo .. n - 1) \cap DOMAIN buf = lo .. n - 1
  BY DEF Filled
<1>2. \A j \in lo .. n - 1 :
        buf[j] = {[id |-> c.id, kdf |-> kdf, run |-> j, start |-> start]}
  BY DEF Filled, Sample
<1>3. UNION {buf[j] : j \in lo .. n - 1}
        = {[id |-> c.id, kdf |-> kdf, run |-> r, start |-> start] : r \in lo .. n - 1}
  BY <1>2
<1> QED
  BY <1>1, <1>3 DEF Window, Runs

\* The stable cost of a complete series.
LEMMA StableCost ==
  ASSUME NEW buf, NEW c, NEW kdf, NEW start, NEW n \in Nat,
         Filled(buf, c, kdf, start, n)
  PROVE  /\ metrics_stable_cost(buf, n)
              = Runs(c.id, kdf, start, IF n <= 1 THEN 0 ELSE 1, n)
         /\ extract_stable_baseline_cost(buf, n)
              = Runs(c.id, kdf, start, IF n <= 1 THEN 0 ELSE 1, n)
<1>1. \A lo \in Nat : Window(buf, lo, n) = Runs(c.id, kdf, start, lo, n)
  BY WindowIsRuns
<1> QED
  BY <1>1 DEF metrics_stable_cost, extract_stable_baseline_cost

\* One more run is one more sample.
Grown(after, before, x) == after = before \cup {x}
LEMMA RunsGrow ==
  ASSUME NEW c, NEW kdf, NEW start, NEW n \in Nat, n > 0, NEW m, m = n + 1
  PROVE  Grown(Runs(c.id, kdf, start, 1, m), Runs(c.id, kdf, start, 1, n), Sample(c, kdf, n, start))
<1>1. 1 .. m - 1 = (1 .. n - 1) \cup {n}
  OBVIOUS
<1> QED
  BY <1>1 DEF Runs, Sample, Grown

\* There are no warm runs before the second.
LEMMA NoRuns ==
  ASSUME NEW id, NEW kdf, NEW start, NEW n \in {0, 1}
  PROVE  Runs(id, kdf, start, 1, n) = {}
BY DEF Runs

\* A weight more.
LEMMA WeightsWith ==
  ASSUME NEW w, NEW k, NEW e, NEW start,
         GoodWeights(w, start), GoodEntry(e, k, start)
  PROVE  GoodWeights(With(w, k, e), start)
<1>1. /\ DOMAIN With(w, k, e) = DOMAIN w \cup {k} /\ With(w, k, e)[k] = e
      /\ \A y \in DOMAIN w : y # k => With(w, k, e)[y] = w[y]
  BY DEF With
<1> QED
  BY <1>1 DEF GoodWeights

LEMMA NoWeights ==
  ASSUME NEW start PROVE GoodWeights(Empty, start) /\ DOMAIN Empty = {}
BY DEF GoodWeights, Empty

----------------------------------------------------------------------------
(* What the weights are good for *)

LEMMA WeightsCost ==
  ASSUME NEW w, NEW start, GoodWeights(w, start), NEW k
  PROVE  GoodCost(CostOf(w, k), k, start)
<1>1. CASE k \in DOMAIN w
  <2>1. PICK p \in DOMAIN Baselines, n \in RunCounts \cup {NUM_RUNS} :
          /\ k = Key(Baselines[p])
          /\ w[k] = [label |-> Baselines[p],
                     cost |-> Runs(Baselines[p].id, "sha256", start,
                                   IF n <= 1 THEN 0 ELSE 1, n)]
    BY <1>1 DEF GoodWeights, GoodEntry
  <2>2. CostOf(w, k) = Runs(Baselines[p].id, "sha256", start, IF n <= 1 THEN 0 ELSE 1, n)
    BY <1>1, <2>1 DEF CostOf
  <2>3. \A s \in CostOf(w, k) : s.start = start /\ s.id = Baselines[p].id
    BY <2>2 DEF Runs
  <2> QED
    BY <2>1, <2>3 DEF GoodCost
<1>2. CASE k \notin DOMAIN w
  BY <1>2 DEF CostOf, GoodCost
<1> QED
  BY <1>1, <1>2

LEMMA NoCost ==
  ASSUME NEW k, NEW start PROVE GoodCost({}, k, start)
BY DEF GoodCost

\* The name of a label, normalised, is the key of its weight.
LEMMA LabelIsKey ==
  ASSUME NEW p \in DOMAIN Baselines
  PROVE  Normalised(LabelName(Baselines[p])) = Key(Baselines[p])
<1> DEFINE c == Baselines[p]
<1>1. /\ c.curve \in Curves /\ c.pqc \in PqcAlgs /\ Consistent(c)
      /\ c.profile \in {"PURE_CLASSICAL", "PURE_QUANTUM"}
  BY Assumptions DEF AlgoCombo, Profiles
<1>2. CASE c.profile = "PURE_CLASSICAL"
  <2>1. c.curve \in {"X25519", "P256", "P384"}
    BY <1>1, <1>2 DEF Consistent, Curves
  <2>2. CASE c.curve = "X25519"
    BY <1>2, <2>2 DEF LabelName, Normalised, Key
  <2>3. CASE c.curve = "P256"
    BY <1>2, <2>3 DEF LabelName, Normalised, Key
  <2>4. CASE c.curve = "P384"
    BY <1>2, <2>4 DEF LabelName, Normalised, Key
  <2> QED
    BY <2>1, <2>2, <2>3, <2>4
<1>3. CASE c.profile = "PURE_QUANTUM"
  BY <1>1, <1>3 DEF LabelName, Normalised, Key, PqcAlgs
<1> QED
  BY <1>1, <1>2, <1>3

\* Registering the weights by their labels is loading them by their keys.
LEMMA RegisterIsLoad ==
  ASSUME NEW w, NEW start, GoodWeights(w, start)
  PROVE  Same(register_baseline_cost(w), w)
<1>1. \A k \in DOMAIN w : Normalised(LabelName(w[k].label)) = k
  <2> TAKE k \in DOMAIN w
  <2>1. PICK p \in DOMAIN Baselines :
          k = Key(Baselines[p]) /\ w[k].label = Baselines[p]
    BY DEF GoodWeights, GoodEntry
  <2> QED
    BY <2>1, LabelIsKey
<1>2. {Normalised(LabelName(w[k].label)) : k \in DOMAIN w} = DOMAIN w
  BY <1>1
<1>3. \A n \in DOMAIN w :
        (CHOOSE k \in DOMAIN w : Normalised(LabelName(w[k].label)) = n) = n
  <2> TAKE n \in DOMAIN w
  <2> DEFINE P(k) == Normalised(LabelName(w[k].label)) = n
  <2>1. P(n)
    BY <1>1
  <2>2. \A k \in DOMAIN w : P(k) => k = n
    BY <1>1
  <2>3. (CHOOSE k \in DOMAIN w : P(k)) \in DOMAIN w /\ P(CHOOSE k \in DOMAIN w : P(k))
    <3> HIDE DEF P
    <3> QED
      BY <2>1
  <2> QED
    BY <2>2, <2>3
<1> HIDE DEF Normalised, LabelName
<1>4. register_baseline_cost(w)
        = [n \in DOMAIN w |->
             w[CHOOSE k \in DOMAIN w : Normalised(LabelName(w[k].label)) = n]]
  BY <1>2 DEF register_baseline_cost
<1> QED
  BY <1>3, <1>4 DEF Same

LEMMA SameWeights ==
  ASSUME NEW v, NEW w, NEW start, Same(v, w)
  PROVE  /\ GoodWeights(w, start) => GoodWeights(v, start)
         /\ \A k : CostOf(v, k) = CostOf(w, k)
BY DEF Same, GoodWeights, CostOf

LEMMA SameCosts ==
  ASSUME NEW v, NEW w, Same(v, w), NEW k PROVE CostOf(v, k) = CostOf(w, k)
BY DEF Same, CostOf

LEMMA SameIsEquivalence ==
  ASSUME NEW u, NEW v, NEW w
  PROVE  /\ Same(u, u)
         /\ Same(u, v) => Same(v, u)
         /\ Same(u, v) /\ Same(v, w) => Same(u, w)
BY DEF Same

\* Weights of a suite's own curve and KEM predict it.
LEMMA GoodIsTrained ==
  ASSUME NEW p \in DOMAIN Hybrids, NEW start, NEW x, NEW y,
         GoodCost(x, Hybrids[p].curve, start), GoodCost(y, Hybrids[p].pqc, start)
  PROVE  Trained(Prediction(start, x, y), Hybrids[p])
<1> DEFINE c == Hybrids[p]
<1>1. /\ c.curve \in Curves \ {"NONE"} /\ c.pqc \in PqcAlgs \ {"NONE"}
  BY Assumptions DEF AlgoCombo, Consistent
<1>2. \A q \in DOMAIN Baselines :
        /\ Key(Baselines[q]) = c.curve => Baselines[q].curve = c.curve
        /\ Key(Baselines[q]) = c.pqc => Baselines[q].pqc = c.pqc
  <2> TAKE q \in DOMAIN Baselines
  <2>1. Baselines[q].curve \in Curves /\ Baselines[q].pqc \in PqcAlgs
    BY Assumptions DEF AlgoCombo
  <2>2. /\ Baselines[q].profile = "PURE_CLASSICAL" => Key(Baselines[q]) = Baselines[q].curve
        /\ Baselines[q].profile # "PURE_CLASSICAL" => Key(Baselines[q]) = Baselines[q].pqc
    BY DEF Key
  <2> QED
    BY <1>1, <2>1, <2>2 DEF Curves, PqcAlgs
<1>3. /\ Prediction(start, x, y).start = start /\ Prediction(start, x, y).c = x
      /\ Prediction(start, x, y).q = y
  BY DEF Prediction
<1> QED
  BY <1>2, <1>3 DEF GoodCost, Trained

----------------------------------------------------------------------------
(* Training *)

BaseParts == BaseInv /\ FileInv

LEMMA StartBaselinesOK ==
  ASSUME BaseParts, StartBaselines PROVE BaseParts'
<1> USE Assumptions DEF BaseParts, BaseTypes, BaseInv, FileInv, Past
<1>1. PICK kind \in Kinds : \E n \in IF kind = "c" THEN RunCounts ELSE {NUM_RUNS} :
        b' = IF n < 0 THEN Off(b.start + 1)
             ELSE [pc |-> "run", start |-> b.start + 1, kind |-> kind, runs |-> n,
                   i |-> 1, ok |-> 0, buf |-> Empty, w |-> Empty]
  BY DEF StartBaselines
<1>2. PICK n \in IF kind = "c" THEN RunCounts ELSE {NUM_RUNS} :
        b' = IF n < 0 THEN Off(b.start + 1)
             ELSE [pc |-> "run", start |-> b.start + 1, kind |-> kind, runs |-> n,
                   i |-> 1, ok |-> 0, buf |-> Empty, w |-> Empty]
  BY <1>1
<1>3. b.pc = "off" /\ b.start < MaxTrainings /\ UNCHANGED file /\ n \in Int
  BY DEF StartBaselines
<1>4. CASE n < 0
  BY <1>2, <1>3, <1>4 DEF Off
<1>5. CASE ~(n < 0)
  <2>1. b' = [pc |-> "run", start |-> b.start + 1, kind |-> kind, runs |-> n,
              i |-> 1, ok |-> 0, buf |-> Empty, w |-> Empty]
    BY <1>2, <1>5 DEF BaseForm
  <2>1a. /\ BaseForm'
        /\ b'.pc = "run" /\ b'.start = b.start + 1 /\ b'.kind = kind /\ b'.runs = n
        /\ b'.i = 1 /\ b'.ok = 0 /\ b'.buf = Empty /\ b'.w = Empty
    BY <2>1 DEF BaseForm
  <2>2. GoodWeights(Empty, b.start + 1) /\ DOMAIN Empty = {}
    BY NoWeights
  <2>3. BaseInv'
    BY <1>3, <1>5, <2>1a, <2>2, FilledNone
  <2>4. FileInv'
    BY <1>3, <2>1a
  <2> QED
    BY <2>3, <2>4
<1> QED
  BY <1>4, <1>5

LEMMA BaselineRunOK ==
  ASSUME BaseParts, BaselineRun PROVE BaseParts'
<1> USE Assumptions DEF BaseParts, BaseTypes, BaseInv, FileInv, Past
<1> DEFINE s == Sample(Baselines[b.i], "sha256", b.ok, b.start)
           buf == Put(b.buf, b.ok, s)
<1>1. /\ b.pc = "run" /\ b.i <= Len(Baselines) /\ b.ok < b.runs /\ UNCHANGED file
      /\ b' = [b EXCEPT !.ok = @ + 1, !.buf = Put(@, b.ok, s)]
  BY DEF BaselineRun
<1>2. b' = [pc |-> "run", start |-> b.start, kind |-> b.kind, runs |-> b.runs, i |-> b.i,
            ok |-> b.ok + 1, buf |-> buf, w |-> b.w]
  BY <1>1 DEF BaseForm
<1>2a. /\ BaseForm'
      /\ b'.pc = "run" /\ b'.start = b.start /\ b'.kind = b.kind /\ b'.runs = b.runs
      /\ b'.i = b.i /\ b'.ok = b.ok + 1 /\ b'.buf = buf /\ b'.w = b.w
  BY <1>2 DEF BaseForm
<1>3. Filled(buf, Baselines[b.i], "sha256", b.start, b.ok + 1)
  BY <1>1, FilledPut
<1>4. DOMAIN buf \subseteq 0 .. b.runs - 1
  BY <1>1 DEF Put, With
<1> HIDE DEF buf
<1>4a. b'.ok \in 0 .. b'.runs
  BY <1>1, <1>2a
<1>5. BaseInv'
  BY <1>1, <1>2a, <1>3, <1>4, <1>4a
<1> QED
  BY <1>1, <1>2a, <1>5

\* On to the next profile, with weights w.
LEMMA NextBaselineOK ==
  ASSUME BaseParts, b.pc = "run", b.i <= Len(Baselines), UNCHANGED file,
         NEW w, GoodWeights(w, b.start), NextBaseline(w)
  PROVE  BaseParts'
<1> USE Assumptions DEF BaseParts, BaseTypes, BaseInv, FileInv, Past
<1> DEFINE buf == IF b.kind = "c" THEN b.buf ELSE Empty
<1>1. b' = [pc |-> "run", start |-> b.start, kind |-> b.kind, runs |-> b.runs, i |-> b.i + 1,
            ok |-> 0, buf |-> buf, w |-> w]
  BY DEF NextBaseline, BaseForm
<1>1a. /\ BaseForm'
      /\ b'.pc = "run" /\ b'.start = b.start /\ b'.kind = b.kind /\ b'.runs = b.runs
      /\ b'.i = b.i + 1 /\ b'.ok = 0 /\ b'.buf = buf /\ b'.w = w
  BY <1>1 DEF BaseForm
<1>2. DOMAIN buf \subseteq 0 .. b.runs - 1
  BY NoWeights
<1> HIDE DEF buf
<1>3. BaseInv'
  BY <1>1a, <1>2, FilledNone
<1> QED
  BY <1>1a, <1>3

LEMMA BaselineRunFailsOK ==
  ASSUME BaseParts, BaselineRunFails PROVE BaseParts'
<1>1. /\ b.pc = "run" /\ b.i <= Len(Baselines) /\ UNCHANGED file /\ NextBaseline(b.w)
  BY DEF BaselineRunFails
<1>2. GoodWeights(b.w, b.start)
  BY <1>1 DEF BaseParts, BaseTypes, BaseInv
<1> DEFINE w == b.w
<1>3. GoodWeights(w, b.start) /\ NextBaseline(w)
  BY <1>1, <1>2
<1> HIDE DEF w
<1> QED
  BY <1>1, <1>3, NextBaselineOK

LEMMA BaselineDoneOK ==
  ASSUME BaseParts, BaselineDone PROVE BaseParts'
<1> USE Assumptions
<1> DEFINE c == Baselines[b.i]
           cost == IF b.kind = "c" THEN metrics_stable_cost(b.buf, b.ok)
                   ELSE extract_stable_baseline_cost(b.buf, b.ok)
           w == With(b.w, Key(c), [label |-> c, cost |-> cost])
<1>1. /\ b.pc = "run" /\ b.i <= Len(Baselines) /\ b.ok = b.runs /\ UNCHANGED file
      /\ NextBaseline(w)
  BY DEF BaselineDone
<1>2. /\ b.i \in DOMAIN Baselines /\ b.runs \in Nat
      /\ b.runs \in RunCounts \cup {NUM_RUNS} /\ GoodWeights(b.w, b.start)
      /\ Filled(b.buf, c, "sha256", b.start, b.ok)
  BY <1>1 DEF BaseParts, BaseTypes, BaseInv
<1>3. cost = Runs(c.id, "sha256", b.start, IF b.ok <= 1 THEN 0 ELSE 1, b.ok)
  BY <1>1, <1>2, StableCost
<1> HIDE DEF cost
<1>4. GoodEntry([label |-> c, cost |-> cost], Key(c), b.start)
  BY <1>1, <1>2, <1>3 DEF GoodEntry
<1>5. GoodWeights(w, b.start)
  BY <1>2, <1>4, WeightsWith
<1> QED
  BY <1>1, <1>5, NextBaselineOK

LEMMA WeightsFileOK ==
  ASSUME BaseParts, OpenWeights \/ WriteWeights \/ KillBaselines PROVE BaseParts'
<1> USE Assumptions DEF BaseParts, BaseTypes, BaseInv, FileInv, Past
<1>1. CASE OpenWeights
  <2>1. CASE file' = Torn /\ b' = [b EXCEPT !.pc = "write"]
    <3>2. file'.state = "torn"
      BY <2>1 DEF Torn
    <3>1. b' = [pc |-> "write", start |-> b.start, kind |-> b.kind, runs |-> b.runs,
                i |-> b.i, ok |-> b.ok, buf |-> b.buf, w |-> b.w] /\ b.pc = "run"
      BY <1>1, <2>1 DEF OpenWeights, BaseForm
    <3>1a. /\ BaseForm'
          /\ b'.pc = "write" /\ b'.start = b.start /\ b'.kind = b.kind
          /\ b'.runs = b.runs /\ b'.i = b.i /\ b'.ok = b.ok /\ b'.buf = b.buf
          /\ b'.w = b.w
      BY <3>1 DEF BaseForm
    <3> QED
      BY <1>1, <3>2, <3>1a DEF OpenWeights
  <2>2. CASE b' = Off(b.start) /\ UNCHANGED file
    BY <1>1, <2>2 DEF OpenWeights, Off
  <2> QED
    BY <1>1, <2>1, <2>2 DEF OpenWeights
<1>2. CASE WriteWeights
  BY <1>2 DEF WriteWeights, Weights, Off
<1>3. CASE KillBaselines
  BY <1>3 DEF KillBaselines, Off
<1> QED
  BY <1>1, <1>2, <1>3

Training ==
  \/ StartBaselines \/ BaselineRun \/ BaselineRunFails \/ BaselineDone
  \/ OpenWeights \/ WriteWeights \/ KillBaselines

Evaluation ==
  \/ StartHybridC \/ StartHybridPython \/ StartTrackC \/ StartTrackPython
  \/ HybridRun \/ HybridRunFails \/ HybridDone \/ EndTrack \/ Export \/ KillHybrid

\* The two programs share nothing but the file, which evaluation only reads.
LEMMA Apart ==
  /\ Training => UNCHANGED <<h, report>>
  /\ Evaluation => UNCHANGED <<file, b>>
BY DEF Training, Evaluation, StartBaselines, BaselineRun, BaselineRunFails, BaselineDone,
       OpenWeights, WriteWeights, KillBaselines, StartHybridC, StartHybridPython,
       StartTrackC, StartTrackPython, HybridRun, HybridRunFails, HybridDone, EndTrack,
       Export, KillHybrid

LEMMA BaseStep ==
  BaseParts /\ [Next]_vars => BaseParts'
<1> SUFFICES ASSUME BaseParts, [Next]_vars PROVE BaseParts'
  OBVIOUS
<1>1. CASE Training
  BY <1>1, StartBaselinesOK, BaselineRunOK, BaselineRunFailsOK, BaselineDoneOK, WeightsFileOK
     DEF Training
<1>2. CASE UNCHANGED <<file, b>>
  BY <1>2 DEF BaseParts, BaseForm, BaseTypes, BaseInv, FileInv, Past
<1>3. CASE UNCHANGED vars
  BY <1>2, <1>3 DEF vars
<1> QED
  BY <1>1, <1>2, <1>3, Apart DEF Next, Training, Evaluation

----------------------------------------------------------------------------
(* Evaluation: what was read stays true whoever trains meanwhile *)

LEMMA PastStays ==
  ASSUME BaseParts, Training, NEW start, Past(start) PROVE Past(start)'
<1> USE Assumptions DEF BaseParts, BaseForm, BaseTypes, BaseInv, Past
<1>1. CASE StartBaselines
  <2>1. b.pc = "off" /\ b.start < MaxTrainings /\ b'.start = b.start + 1
    BY <1>1 DEF StartBaselines, Off
  <2> QED
    BY <2>1
<1>2. CASE BaselineRun \/ BaselineRunFails \/ BaselineDone
  <2>1. b.pc = "run" /\ b'.start = b.start
    BY <1>2 DEF BaselineRun, BaselineRunFails, BaselineDone, NextBaseline
  <2> QED
    BY <2>1
<1>3. CASE OpenWeights \/ WriteWeights \/ KillBaselines
  <2>1. b.pc # "off" /\ b'.start = b.start
    BY <1>3 DEF OpenWeights, WriteWeights, KillBaselines, Off
  <2> QED
    BY <2>1
<1> QED
  BY <1>1, <1>2, <1>3 DEF Training

\* What a later training writes is not what was read.
LEMMA FileStays ==
  ASSUME BaseParts, Training, NEW start, Past(start),
         file'.state = "written", file'.start = start
  PROVE  UNCHANGED file
<1>1. ~(file' = Torn)
  BY DEF Torn
<1>2. ~WriteWeights
  <2> SUFFICES ASSUME WriteWeights PROVE FALSE
    OBVIOUS
  <2>1. file'.start = b.start /\ b.pc # "off" /\ b.start \in Nat
    BY Assumptions DEF WriteWeights, Weights, BaseParts, BaseInv
  <2> QED
    BY <2>1 DEF Past
<1> QED
  BY <1>1, <1>2
     DEF Training, StartBaselines, BaselineRun, BaselineRunFails, BaselineDone,
         OpenWeights, KillBaselines

LEMMA FromFileStays ==
  ASSUME BaseParts, Training, NEW m, FromFile(m) PROVE FromFile(m)'
<1>1. CASE m = NoModel
  BY <1>1 DEF FromFile
<1>2. CASE m # NoModel
  <2>1. Past(m.start) /\ GoodWeights(m.w, m.start) /\ Past(m.start)'
    BY <1>2, PastStays DEF FromFile
  <2>2. file'.state = "written" /\ file'.start = m.start => UNCHANGED file
    BY <2>1, FileStays
  <2> QED
    BY <1>2, <2>1, <2>2 DEF FromFile
<1> QED
  BY <1>1, <1>2

LEMMA LoadedStays ==
  ASSUME BaseParts, Training, NEW m, Loaded(m) PROVE Loaded(m)'
<1>1. Past(m.start) /\ Past(m.start)'
  BY PastStays DEF Loaded
<1>2. file'.state = "written" /\ file'.start = m.start => UNCHANGED file
  BY <1>1, FileStays
<1> QED
  BY <1>1, <1>2 DEF Loaded

LEMMA KeptStays ==
  ASSUME BaseParts, Training, NEW pred, NEW c, Kept(pred, c) PROVE Kept(pred, c)'
<1>1. CASE pred.start = 0
  <2>1. (file.state = "written" => file.start # 0)'
    BY BaseStep, Assumptions DEF BaseParts, FileInv, Past, BaseInv, Next, Training
  <2> QED
    BY <1>1, <2>1 DEF Kept, Complete
<1>2. CASE Past(pred.start)
  <2>1. Past(pred.start)'
    BY <1>2, PastStays
  <2>2. file'.state = "written" /\ file'.start = pred.start => UNCHANGED file
    BY <1>2, FileStays
  <2> QED
    BY <2>1, <2>2 DEF Kept, Complete
<1> QED
  BY <1>1, <1>2 DEF Kept

LEMMA ModelStays ==
  ASSUME BaseParts, Training, ModelInv PROVE ModelInv'
<1>1. UNCHANGED h
  BY Apart
<1>2. CASE h.kind = "python"
  BY <1>1, <1>2, FromFileStays DEF ModelInv
<1>3. CASE h.kind # "python"
  <2>1. h.kind = "c" => Loaded(h.model)'
    BY <1>1, LoadedStays DEF ModelInv
  <2> QED
    BY <1>1, <1>3, <2>1 DEF ModelInv
<1> QED
  BY <1>2, <1>3

\* Weights that are loaded now.
LEMMA LoadedIsGood ==
  ASSUME BaseParts, file.state = "written"
  PROVE  Loaded([start |-> file.start, w |-> LoadedModel(file.w)])
<1>1. GoodWeights(file.w, file.start) /\ Past(file.start)
  BY DEF BaseParts, FileInv
<1>2. \A k \in KnownKeys : LoadedModel(file.w)[k] = CostOf(file.w, k)
  BY DEF LoadedModel, KeyOf
<1> DEFINE w == LoadedModel(file.w)
<1>3. \A k \in KnownKeys : GoodCost(w[k], k, file.start)
  BY <1>1, <1>2, WeightsCost
<1> HIDE DEF w
<1> QED
  BY <1>1, <1>2, <1>3 DEF Loaded, w

LEMMA ReadIsFromFile ==
  ASSUME BaseParts, file.state = "written", NEW w, Same(w, file.w)
  PROVE  FromFile([start |-> file.start, w |-> w])
<1>1. Past(file.start) /\ GoodWeights(file.w, file.start)
  BY DEF BaseParts, FileInv
<1>2. GoodWeights(w, file.start)
  BY <1>1, SameWeights
<1> QED
  BY <1>1, <1>2 DEF FromFile

LEMMA NoModelIsFromFile == FromFile(NoModel) /\ NoModel.start = 0 /\ NoModel.w = Empty
BY DEF FromFile, NoModel

\* No model at all is the one of start 0.
LEMMA StartTells ==
  ASSUME BaseParts, NEW m, FromFile(m), m.start = 0 PROVE m = NoModel
<1>1. ~Past(m.start)
  BY Assumptions DEF Past, BaseParts, BaseInv
<1> QED
  BY <1>1 DEF FromFile

(***************************************************************************)
(* The parts of the invariant that only the hybrid program can disturb.    *)
(***************************************************************************)

\* A start of either program.
LEMMA EvaluatingOK ==
  ASSUME HybridInv, h.start < MaxEvaluations, NEW kind \in Kinds,
         NEW n \in Nat \cap (RunCounts \cup {NUM_RUNS}), kind = "python" => n = NUM_RUNS,
         NEW model, h' = Evaluating(kind, n, model), UNCHANGED <<file, b, report>>,
         kind = "c" => Loaded(model),
         kind = "python" => FromFile(model) /\ (model.start = 0 => model = NoModel)
  PROVE  HybridInv' /\ (h.pc # "off" => ModelInv)'
<1> USE Assumptions
<1>1. h' = [pc |-> "track", start |-> h.start + 1, kind |-> kind, runs |-> n, phase |-> 1,
            i |-> 1, ok |-> 0, buf |-> Empty, tot |-> Nothing, rows |-> {}, model |-> model,
            weights |-> NoModel, fd |-> hw_telemetry_zero, cnt |-> Nothing]
  BY DEF Evaluating
<1>1a. /\ HybridForm'
      /\ h'.pc = "track" /\ h'.start = h.start + 1 /\ h'.kind = kind /\ h'.runs = n
      /\ h'.phase = 1 /\ h'.i = 1 /\ h'.ok = 0 /\ h'.buf = Empty /\ h'.tot = Nothing
      /\ h'.rows = {} /\ h'.model = model /\ h'.weights = NoModel
      /\ h'.fd = hw_telemetry_zero /\ h'.cnt = Nothing
  BY <1>1 DEF HybridForm
<1>2. HybridTypes'
  BY <1>1a, NoWeights DEF HybridForm, HybridTypes
<1>3. MeasureInv'
  BY <1>1a DEF MeasureInv
<1>4. ModelInv'
  <2>1. h'.model = model /\ h'.weights = NoModel /\ h'.kind = kind
    BY <1>1a
  <2>2. CASE kind = "c"
    BY <2>1, <2>2 DEF ModelInv, Loaded, Past
  <2>3. CASE kind = "python"
    <3>1. FromFile(model)' /\ FromFile(NoModel)'
      BY <2>3, NoModelIsFromFile DEF FromFile, Past
    <3>2. model.start = NoModel.start => Same(model.w, NoModel.w)
      BY <2>3, NoModelIsFromFile, SameIsEquivalence
    <3> QED
      BY <2>1, <2>3, <3>1, <3>2 DEF ModelInv
  <2> QED
    BY <2>2, <2>3
<1> QED
  BY <1>1a, <1>2, <1>3, <1>4 DEF HybridInv

\* The program ends, or does not even start.
LEMMA OffOK ==
  ASSUME HybridInv, NEW start \in 0 .. MaxEvaluations, h' = Off(start), UNCHANGED report
  PROVE  HybridInv' /\ (h.pc # "off" => ModelInv)'
BY DEF HybridInv, Off

LEMMA StartHybridCOK ==
  ASSUME BaseParts, HybridInv, StartHybridC
  PROVE  HybridInv' /\ (h.pc # "off" => ModelInv)'
<1> USE Assumptions
<1>1. /\ h.pc = "off" /\ h.start < MaxEvaluations /\ "c" \in Kinds /\ UNCHANGED <<file, b, report>>
      /\ \E n \in RunCounts :
           h' = IF file.state # "written" \/ n < 0 THEN Off(h.start + 1)
                ELSE Evaluating("c", n, [start |-> file.start, w |-> LoadedModel(file.w)])
  BY DEF StartHybridC
<1>2. PICK n \in RunCounts :
        h' = IF file.state # "written" \/ n < 0 THEN Off(h.start + 1)
             ELSE Evaluating("c", n, [start |-> file.start, w |-> LoadedModel(file.w)])
  BY <1>1
<1>3. CASE file.state # "written" \/ n < 0
  <2>1. h' = Off(h.start + 1) /\ h.start + 1 \in 0 .. MaxEvaluations
    BY <1>1, <1>2, <1>3 DEF HybridInv
  <2> QED
    BY <1>1, <2>1, OffOK
<1>4. CASE file.state = "written" /\ ~(n < 0)
  <2> DEFINE model == [start |-> file.start, w |-> LoadedModel(file.w)]
  <2>1. h' = Evaluating("c", n, model)
    BY <1>2, <1>4, Zenon
  <2>3. n \in Nat \cap (RunCounts \cup {NUM_RUNS})
    BY <1>4
  <2>2. Loaded(model)
    BY <1>4, LoadedIsGood
  <2> HIDE DEF model
  <2> QED
    BY <1>1, <2>1, <2>2, <2>3, EvaluatingOK
<1> QED
  BY <1>3, <1>4

LEMMA StartHybridPythonOK ==
  ASSUME BaseParts, HybridInv, StartHybridPython
  PROVE  HybridInv' /\ (h.pc # "off" => ModelInv)'
<1> USE Assumptions
<1>1. /\ h.pc = "off" /\ h.start < MaxEvaluations /\ "python" \in Kinds
      /\ UNCHANGED <<file, b, report>> /\ file.state \in {"torn", "absent", "written"}
  BY DEF StartHybridPython, BaseParts, FileInv
<1>2. CASE file.state = "torn"
  <2>1. h' = Off(h.start + 1) /\ h.start + 1 \in 0 .. MaxEvaluations
    BY <1>1, <1>2 DEF HybridInv, StartHybridPython
  <2> QED
    BY <1>1, <2>1, OffOK
<1>3. CASE file.state = "absent"
  <2>1. h' = Evaluating("python", NUM_RUNS, NoModel)
    BY <1>3 DEF StartHybridPython
  <2> QED
    BY <1>1, <2>1, NoModelIsFromFile, EvaluatingOK
<1>4. CASE file.state = "written"
  <2> DEFINE model == [start |-> file.start, w |-> register_baseline_cost(file.w)]
  <2>1. h' = Evaluating("python", NUM_RUNS, model)
    BY <1>4 DEF StartHybridPython
  <2>2. Same(register_baseline_cost(file.w), file.w) /\ file.start # 0
    BY <1>4, RegisterIsLoad DEF BaseParts, FileInv, Past, BaseInv
  <2>3. FromFile(model) /\ model.start # 0
    BY <1>4, <2>2, ReadIsFromFile
  <2> HIDE DEF model
  <2> QED
    BY <1>1, <2>1, <2>3, EvaluatingOK
<1> QED
  BY <1>1, <1>2, <1>3, <1>4

----------------------------------------------------------------------------
(* Evaluation: measuring *)

LEMMA StartTrackCOK ==
  ASSUME BaseParts, HybridInv, ModelInv, StartTrackC
  PROVE  HybridInv' /\ (h.pc # "off" => ModelInv)'
<1> USE Assumptions
<1>1. /\ h.pc = "track" /\ h.kind = "c" /\ UNCHANGED <<file, b, report>>
      /\ \E fd \in hw_telemetry_init :
           h' = [h EXCEPT !.pc = "run", !.i = 1, !.ok = 0, !.tot = Nothing, !.fd = fd,
                          !.cnt = Nothing]
  BY DEF StartTrackC
<1>2. PICK fd \in hw_telemetry_init :
        h' = [h EXCEPT !.pc = "run", !.i = 1, !.ok = 0, !.tot = Nothing, !.fd = fd,
                       !.cnt = Nothing]
  BY <1>1
<1>3. HybridForm /\ HybridTypes /\ \A row \in h.rows : GoodRow(row)
  BY <1>1 DEF HybridInv
<1>4. h' = [pc |-> "run", start |-> h.start, kind |-> h.kind, runs |-> h.runs,
            phase |-> h.phase, i |-> 1, ok |-> 0, buf |-> h.buf, tot |-> Nothing,
            rows |-> h.rows, model |-> h.model, weights |-> h.weights, fd |-> fd,
            cnt |-> Nothing]
  BY <1>2, <1>3 DEF HybridForm, HybridTypes
<1>4a. /\ HybridForm'
      /\ h'.pc = "run" /\ h'.start = h.start /\ h'.kind = h.kind /\ h'.runs = h.runs
      /\ h'.phase = h.phase /\ h'.i = 1 /\ h'.ok = 0 /\ h'.buf = h.buf
      /\ h'.tot = Nothing /\ h'.rows = h.rows /\ h'.model = h.model
      /\ h'.weights = h.weights /\ h'.fd = fd /\ h'.cnt = Nothing
  BY <1>4 DEF HybridForm
<1>5. HybridTypes'
  BY <1>1, <1>3, <1>4a DEF HybridForm, HybridTypes
<1>6. MeasureInv'
  BY <1>1, <1>4a, FilledNone, NoRuns DEF MeasureInv, Suite, Kdf, Nothing
<1>7. ModelInv'
  BY <1>1, <1>4a DEF ModelInv, Loaded, Past
<1> QED
  BY <1>1, <1>3, <1>4a, <1>5, <1>6, <1>7 DEF HybridInv

\* Weights read again at the start of a track.
LEMMA TrackReads ==
  ASSUME BaseParts, HybridInv, ModelInv, h.pc = "track", h.kind = "python",
         UNCHANGED <<file, b, report>>, NEW m, FromFile(m),
         h.model.start = m.start => Same(h.model.w, m.w),
         h' = [h EXCEPT !.pc = "run", !.i = 1, !.weights = m]
  PROVE  HybridInv' /\ (h.pc # "off" => ModelInv)'
<1> USE Assumptions
<1>1. HybridForm /\ HybridTypes /\ (\A row \in h.rows : GoodRow(row)) /\ FromFile(h.model)
  BY DEF HybridInv, ModelInv
<1>2. h' = [pc |-> "run", start |-> h.start, kind |-> h.kind, runs |-> h.runs,
            phase |-> h.phase, i |-> 1, ok |-> h.ok, buf |-> h.buf, tot |-> h.tot,
            rows |-> h.rows, model |-> h.model, weights |-> m, fd |-> h.fd, cnt |-> h.cnt]
  BY <1>1 DEF HybridForm, HybridTypes
<1>2a. /\ HybridForm'
      /\ h'.pc = "run" /\ h'.start = h.start /\ h'.kind = h.kind /\ h'.runs = h.runs
      /\ h'.phase = h.phase /\ h'.i = 1 /\ h'.ok = h.ok /\ h'.buf = h.buf
      /\ h'.tot = h.tot /\ h'.rows = h.rows /\ h'.model = h.model /\ h'.weights = m
      /\ h'.fd = h.fd /\ h'.cnt = h.cnt
  BY <1>2 DEF HybridForm
<1>3. HybridTypes'
  BY <1>1, <1>2a DEF HybridForm, HybridTypes
<1>4. h.ok = 0
  BY DEF HybridInv, HybridTypes
<1>5. MeasureInv'
  BY <1>2a, <1>4, FilledNone DEF MeasureInv, Suite, Kdf
<1>6. FromFile(h.model)' /\ FromFile(m)'
  BY <1>1, <1>2a DEF FromFile, Past
<1>7. ModelInv'
  BY <1>2a, <1>6 DEF ModelInv
<1> QED
  BY <1>1, <1>2a, <1>3, <1>5, <1>7 DEF HybridInv

LEMMA StartTrackPythonOK ==
  ASSUME BaseParts, HybridInv, ModelInv, StartTrackPython
  PROVE  HybridInv' /\ (h.pc # "off" => ModelInv)'
<1>1. /\ h.pc = "track" /\ h.kind = "python" /\ UNCHANGED <<file, b, report>>
      /\ file.state \in {"torn", "absent", "written"}
      /\ FromFile(h.model)
  BY DEF StartTrackPython, BaseParts, FileInv, ModelInv
<1>2. CASE file.state = "torn"
  <2>1. h' = Off(h.start) /\ h.start \in 0 .. MaxEvaluations
    BY <1>2 DEF StartTrackPython, HybridInv
  <2> QED
    BY <1>1, <2>1, OffOK
<1>3. CASE file.state = "absent"
  <2>1. h' = [h EXCEPT !.pc = "run", !.i = 1, !.weights = NoModel]
    BY <1>3 DEF StartTrackPython
  <2>2. h.model.start = NoModel.start => Same(h.model.w, NoModel.w)
    BY <1>1, StartTells, NoModelIsFromFile, SameIsEquivalence
  <2> QED
    BY <1>1, <2>1, <2>2, NoModelIsFromFile, TrackReads
<1>4. CASE file.state = "written"
  <2> DEFINE m == [start |-> file.start, w |-> file.w]
  <2>1. h' = [h EXCEPT !.pc = "run", !.i = 1, !.weights = m]
    BY <1>4 DEF StartTrackPython
  <2>2. FromFile(m)
    BY <1>4, ReadIsFromFile, SameIsEquivalence
  <2>3. file.start # 0
    BY <1>4, Assumptions DEF BaseParts, FileInv, Past, BaseInv
  <2>4. h.model.start = m.start => Same(h.model.w, m.w)
    BY <1>1, <1>4, <2>3, NoModelIsFromFile DEF FromFile
  <2> HIDE DEF m
  <2> QED
    BY <1>1, <2>1, <2>2, <2>4, TrackReads
<1> QED
  BY <1>1, <1>2, <1>3, <1>4

\* A step that leaves what was read, and the table's place, alone.
LEMMA ModelUntouched ==
  ASSUME ModelInv, UNCHANGED <<file, b>>,
         h'.kind = h.kind, h'.model = h.model, h'.weights = h.weights
  PROVE  ModelInv'
BY DEF ModelInv, FromFile, Loaded, Past

\* What the open counters saw of a warm run is that run.
LEMMA CountedRun ==
  ASSUME HybridInv, Measuring, h.kind = "c"
  PROVE  hw_telemetry_stop(h.fd, Started)
           = [c \in Counters |-> IF h.fd[c] = "open" THEN {ThisSample} ELSE {}]
BY DEF hw_telemetry_stop, Started, Counting, hw_telemetry_start

LEMMA HybridRunOK ==
  ASSUME BaseParts, HybridInv, ModelInv, HybridRun
  PROVE  HybridInv' /\ (h.pc # "off" => ModelInv)'
<1> USE Assumptions
<1> DEFINE s == ThisSample
           buf == Put(h.buf, h.ok, s)
           cnt == IF h.kind = "c" THEN Started ELSE h.cnt
           tot == IF h.kind = "c" /\ Warm(h.ok)
                  THEN Both(h.tot, hw_telemetry_stop(h.fd, Started)) ELSE h.tot
<1>1. /\ h.pc = "run" /\ h.i <= Len(Hybrids) /\ h.ok < h.runs
      /\ Measuring /\ UNCHANGED <<file, b, report>>
      /\ h' = [h EXCEPT !.ok = @ + 1, !.buf = buf, !.cnt = cnt, !.tot = tot]
  BY DEF HybridRun, Measuring
<1>2. HybridForm /\ HybridTypes /\ MeasureInv /\ \A row \in h.rows : GoodRow(row)
  BY <1>1 DEF HybridInv
<1>3. s = Sample(Suite, Kdf, h.ok, h.start) /\ h.ok \in Nat
  BY <1>2 DEF ThisSample, Suite, Kdf, HybridTypes
<1>4. /\ Filled(h.buf, Suite, Kdf, h.start, h.ok)
      /\ h.kind = "c" => \A c \in Counters :
           h.tot[c] = IF h.fd[c] = "open" THEN Runs(Suite.id, Kdf, h.start, 1, h.ok) ELSE {}
  BY <1>1, <1>2 DEF MeasureInv
<1>5. Filled(buf, Suite, Kdf, h.start, h.ok + 1)
  BY <1>3, <1>4, FilledPut
<1>6. h.kind = "c" => \A c \in Counters :
        tot[c] = IF h.fd[c] = "open" THEN Runs(Suite.id, Kdf, h.start, 1, h.ok + 1) ELSE {}
  <2> SUFFICES ASSUME h.kind = "c", NEW c \in Counters
               PROVE  tot[c] = IF h.fd[c] = "open"
                               THEN Runs(Suite.id, Kdf, h.start, 1, h.ok + 1) ELSE {}
    OBVIOUS
  <2>1. CASE h.ok = 0
    <3>1. tot = h.tot
      BY <2>1 DEF Warm
    <3>2. /\ Runs(Suite.id, Kdf, h.start, 1, h.ok) = {}
          /\ Runs(Suite.id, Kdf, h.start, 1, h.ok + 1) = {}
      BY <2>1, NoRuns
    <3> HIDE DEF tot
    <3> QED
      BY <1>4, <3>1, <3>2
  <2>2. CASE h.ok > 0
    <3> DEFINE seen == [d \in Counters |-> IF h.fd[d] = "open" THEN {s} ELSE {}]
    <3>0. hw_telemetry_stop(h.fd, Started) = seen
      BY <1>1, CountedRun
    <3>1. tot = Both(h.tot, seen)
      BY <2>2, <3>0 DEF Warm
    <3> HIDE DEF tot
    <3>2. tot[c] = h.tot[c] \cup (IF h.fd[c] = "open" THEN {s} ELSE {})
      BY <3>1 DEF Both
    <3>3. Runs(Suite.id, Kdf, h.start, 1, h.ok + 1)
            = Runs(Suite.id, Kdf, h.start, 1, h.ok) \cup {s}
      <4>1. Runs(Suite.id, Kdf, h.start, 1, h.ok + 1)
              = Runs(Suite.id, Kdf, h.start, 1, h.ok) \cup {Sample(Suite, Kdf, h.ok, h.start)}
        <5> DEFINE n == h.ok
                   m == h.ok + 1
        <5>1. n \in Nat /\ n > 0 /\ m = n + 1
          BY <1>3, <2>2
        <5> HIDE DEF n, m
        <5>2. Grown(Runs(Suite.id, Kdf, h.start, 1, m), Runs(Suite.id, Kdf, h.start, 1, n),
                    Sample(Suite, Kdf, n, h.start))
          BY <5>1, RunsGrow
        <5> QED
          BY <5>2, Zenon DEF Grown, n, m
      <4> QED
        BY <1>3, <4>1, Zenon
    <3> HIDE DEF tot, s
    <3> QED
      BY <1>4, <3>2, <3>3
  <2> QED
    BY <1>3, <2>1, <2>2
<1>7. DOMAIN buf \subseteq 0 .. h.runs - 1
  BY <1>1, <1>2, <1>3 DEF Put, With, HybridTypes
<1> HIDE DEF s, buf, cnt, tot
<1>8. h' = [pc |-> "run", start |-> h.start, kind |-> h.kind, runs |-> h.runs,
            phase |-> h.phase, i |-> h.i, ok |-> h.ok + 1, buf |-> buf, tot |-> tot,
            rows |-> h.rows, model |-> h.model, weights |-> h.weights, fd |-> h.fd,
            cnt |-> cnt]
  BY <1>1, <1>2 DEF HybridForm, HybridTypes
<1>8a. /\ HybridForm'
      /\ h'.pc = "run" /\ h'.start = h.start /\ h'.kind = h.kind /\ h'.runs = h.runs
      /\ h'.phase = h.phase /\ h'.i = h.i /\ h'.ok = h.ok + 1 /\ h'.buf = buf
      /\ h'.tot = tot /\ h'.rows = h.rows /\ h'.model = h.model
      /\ h'.weights = h.weights /\ h'.fd = h.fd /\ h'.cnt = cnt
  BY <1>8 DEF HybridForm
<1>9. HybridTypes'
  BY <1>1, <1>2, <1>3, <1>7, <1>8a DEF HybridForm, HybridTypes
<1>10. MeasureInv'
  BY <1>5, <1>6, <1>8a DEF MeasureInv, Suite, Kdf
<1>11. ModelInv'
  BY <1>1, <1>8a, ModelUntouched
<1> QED
  BY <1>1, <1>2, <1>8a, <1>9, <1>10, <1>11 DEF HybridInv

LEMMA HybridRunFailsOK ==
  ASSUME BaseParts, HybridInv, ModelInv, HybridRunFails
  PROVE  HybridInv' /\ (h.pc # "off" => ModelInv)'
<1> USE Assumptions
<1>1. /\ h.pc = "run" /\ h.i <= Len(Hybrids) /\ UNCHANGED <<file, b, report>>
      /\ \E cnt \in IF h.kind = "c" THEN {h.cnt, Started} ELSE {h.cnt} :
           h' = [h EXCEPT !.pc = "failed", !.cnt = cnt]
  BY DEF HybridRunFails, Measuring
<1>2. PICK cnt : h' = [h EXCEPT !.pc = "failed", !.cnt = cnt]
  BY <1>1
<1>3. HybridForm /\ HybridTypes /\ MeasureInv /\ \A row \in h.rows : GoodRow(row)
  BY <1>1 DEF HybridInv
<1>4. h' = [pc |-> "failed", start |-> h.start, kind |-> h.kind, runs |-> h.runs,
            phase |-> h.phase, i |-> h.i, ok |-> h.ok, buf |-> h.buf, tot |-> h.tot,
            rows |-> h.rows, model |-> h.model, weights |-> h.weights, fd |-> h.fd,
            cnt |-> cnt]
  BY <1>2, <1>3 DEF HybridForm, HybridTypes
<1>4a. /\ HybridForm'
      /\ h'.pc = "failed" /\ h'.start = h.start /\ h'.kind = h.kind
      /\ h'.runs = h.runs /\ h'.phase = h.phase /\ h'.i = h.i /\ h'.ok = h.ok
      /\ h'.buf = h.buf /\ h'.tot = h.tot /\ h'.rows = h.rows /\ h'.model = h.model
      /\ h'.weights = h.weights /\ h'.fd = h.fd /\ h'.cnt = cnt
  BY <1>4 DEF HybridForm
<1>5. HybridTypes'
  BY <1>1, <1>3, <1>4a DEF HybridForm, HybridTypes
<1>6. MeasureInv'
  BY <1>1, <1>3, <1>4a DEF MeasureInv, Suite, Kdf
<1>7. ModelInv'
  BY <1>1, <1>4a, ModelUntouched
<1> QED
  BY <1>1, <1>3, <1>4a, <1>5, <1>6, <1>7 DEF HybridInv

----------------------------------------------------------------------------
(* Evaluation: rows, the end of a track, and the export *)

\* The counters' part of a row.
LEMMA TotIsEmp ==
  ASSUME HybridInv, ModelInv, h.pc \in {"run", "failed"}, h.i <= Len(Hybrids),
         h.kind = "c", NEW c \in Counters
  PROVE  h.tot[c] \in {{}, Runs(Suite.id, Kdf, h.start, 1, h.ok)}
<1>1. h.tot[c] = IF h.fd[c] = "open" THEN Runs(Suite.id, Kdf, h.start, 1, h.ok) ELSE {}
  BY DEF HybridInv, MeasureInv
<1> QED
  BY <1>1

LEMMA RowFields ==
  ASSUME NEW emp, NEW all, NEW telem, NEW pred, NEW drift
  PROVE  /\ Row(emp, all, telem, pred, drift).id = Suite.id
         /\ Row(emp, all, telem, pred, drift).kdf = Kdf
         /\ Row(emp, all, telem, pred, drift).start = h.start
         /\ Row(emp, all, telem, pred, drift).kind = h.kind
         /\ Row(emp, all, telem, pred, drift).emp = emp
         /\ Row(emp, all, telem, pred, drift).all = all
         /\ Row(emp, all, telem, pred, drift).telem = telem
         /\ Row(emp, all, telem, pred, drift).pred = pred
         /\ Row(emp, all, telem, pred, drift).drift = drift
BY DEF Row, Suite, Kdf

LEMMA RowCOK ==
  ASSUME HybridInv, ModelInv, h.pc \in {"run", "failed"}, h.i <= Len(Hybrids),
         h.kind = "c", NEW row \in RowC
  PROVE  GoodRow(row) /\ KeptRow(row)
<1> USE Assumptions
<1> DEFINE emp == Window(h.buf, 1, h.ok)
           pred == Prediction(h.model.start, get_classical_cost(h.model.w, Suite.curve),
                              get_pqc_cost(h.model.w, Suite.pqc))
<1>2. HybridTypes /\ MeasureInv
  BY DEF HybridInv
<1>1. h.ok >= 2 /\ row = Row(emp, emp, h.tot, pred, pred)
  <2>1. h.ok \in Nat
    BY <1>2 DEF HybridTypes
  <2>2. RowC = IF h.ok < 2 THEN {} ELSE {Row(emp, emp, h.tot, pred, pred)}
    BY DEF RowC, Suite
  <2> HIDE DEF emp, pred
  <2> QED
    BY <2>1, <2>2
<1>3. /\ h.i \in DOMAIN Hybrids /\ h.ok \in 2 .. h.runs
      /\ h.runs \in RunCounts \cup {NUM_RUNS}
  BY <1>1, <1>2 DEF HybridTypes
<1>4. emp = Runs(Suite.id, Kdf, h.start, 1, h.ok)
  BY <1>2, <1>3, WindowIsRuns DEF MeasureInv
<1>5. /\ GoodCost(get_classical_cost(h.model.w, Suite.curve), Suite.curve, h.model.start)
      /\ GoodCost(get_pqc_cost(h.model.w, Suite.pqc), Suite.pqc, h.model.start)
  <2>1. \A k \in KnownKeys : GoodCost(h.model.w[k], k, h.model.start)
    BY DEF ModelInv, Loaded
  <2> QED
    BY <2>1, NoCost DEF get_classical_cost, get_pqc_cost, KnownKeys
<1>6. Trained(pred, Suite)
  BY <1>3, <1>5, GoodIsTrained DEF Suite
<1>6a. Kept(pred, Suite)
  <2>1. Suite.curve \in {"X25519", "P256", "P384"} /\ Suite.pqc \in {"MLKEM_768", "MLKEM_1024"}
    BY <1>3 DEF Suite, AlgoCombo, Consistent, Curves
  <2>2. pred.c = h.model.w[Suite.curve] /\ pred.q = h.model.w[Suite.pqc]
        /\ pred.start = h.model.start
    BY <2>1 DEF Prediction, get_classical_cost, get_pqc_cost
  <2>3. Loaded(h.model) /\ {Suite.curve, Suite.pqc} \subseteq KnownKeys
    BY <2>1 DEF ModelInv, KnownKeys
  <2> HIDE DEF pred
  <2> QED
    BY <2>2, <2>3 DEF Kept, Complete, Loaded
<1>7. \A c \in Counters : h.tot[c] \in {{}, emp}
  BY <1>4, TotIsEmp
<1> HIDE DEF emp, pred
<1>8. /\ row.id = Suite.id /\ row.kdf = Kdf /\ row.start = h.start /\ row.emp = emp
      /\ row.kind = "c" /\ row.all = emp
      /\ row.telem = h.tot /\ row.pred = pred /\ row.drift = pred
  BY <1>1, RowFields
<1>8a. KeptRow(row)
  BY <1>3, <1>6a, <1>8 DEF KeptRow, Suite
<1>9. \E p \in DOMAIN Hybrids :
        row.id = Hybrids[p].id /\ Trained(row.pred, Hybrids[p]) /\ Trained(row.drift, Hybrids[p])
  BY <1>3, <1>6, <1>8 DEF Suite
<1>10. \E m \in RunCounts \cup {NUM_RUNS} : \E n \in 2 .. m :
         /\ row.emp = Runs(row.id, row.kdf, row.start, 1, n)
         /\ row.all = Runs(row.id, row.kdf, row.start, IF row.kind = "c" THEN 1 ELSE 0, n)
  <2>1. (IF row.kind = "c" THEN 1 ELSE 0) = 1
    BY <1>8
  <2>2. row.emp = Runs(row.id, row.kdf, row.start, 1, h.ok) /\ row.all = row.emp
    BY <1>4, <1>8, Zenon
  <2> QED
    BY <1>3, <2>1, <2>2, Zenon
<1> QED
  BY <1>7, <1>8, <1>8a, <1>9, <1>10 DEF GoodRow

LEMMA FromFileCost ==
  ASSUME NEW m, FromFile(m), NEW k PROVE GoodCost(CostOf(m.w, k), k, m.start)
<1>1. CASE m = NoModel
  BY <1>1, NoWeights, NoModelIsFromFile, WeightsCost
<1>2. CASE m # NoModel
  BY <1>2, WeightsCost DEF FromFile
<1> QED
  BY <1>1, <1>2

LEMMA RowPythonOK ==
  ASSUME HybridInv, ModelInv, h.i <= Len(Hybrids), h.kind = "python", h.pc \in {"run", "failed"},
         h.pc = "failed" \/ h.ok = h.runs, NEW row \in RowPython, BaseParts
  PROVE  GoodRow(row) /\ KeptRow(row)
<1> USE Assumptions
<1> DEFINE emp == Window(h.buf, 1, h.ok)
           all == calculate_summary_stats(h.buf, h.ok)
           pred == predict_hybrid_performance(h.model, Suite)
           drift == Prediction(h.weights.start, CostOf(h.weights.w, Suite.curve),
                               CostOf(h.weights.w, Suite.pqc))
<1>1. h.pc # "failed" /\ row = Row(emp, all, Nothing, pred, drift)
  BY DEF RowPython, Suite
<1>2. HybridTypes /\ MeasureInv
  BY <1>1 DEF HybridInv
<1>3. h.i \in DOMAIN Hybrids /\ h.ok = NUM_RUNS
  BY <1>1, <1>2 DEF HybridTypes
<1>4. /\ emp = Runs(Suite.id, Kdf, h.start, 1, h.ok)
      /\ all = Runs(Suite.id, Kdf, h.start, 0, h.ok)
  BY <1>1, <1>2, <1>3, WindowIsRuns DEF MeasureInv, calculate_summary_stats
<1>5. /\ FromFile(h.model) /\ FromFile(h.weights)
      /\ h.model.start = h.weights.start => Same(h.model.w, h.weights.w)
  BY DEF ModelInv
<1>6. Trained(pred, Suite) /\ Trained(drift, Suite)
  BY <1>3, <1>5, FromFileCost, GoodIsTrained DEF Suite, predict_hybrid_performance
<1>7. pred.start = drift.start => pred = drift
  <2>1. pred.start = h.model.start /\ drift.start = h.weights.start
    BY DEF predict_hybrid_performance, Prediction
  <2> SUFFICES ASSUME pred.start = drift.start PROVE pred = drift
    OBVIOUS
  <2>4. h.model.start = h.weights.start
    BY <2>1
  <2>3. \A k : CostOf(h.model.w, k) = CostOf(h.weights.w, k)
    BY <1>5, <2>4, SameCosts
  <2> QED
    BY <2>3, <2>4 DEF predict_hybrid_performance
<1>7a. Kept(pred, Suite) /\ Kept(drift, Suite)
  <2>1. \A m : FromFile(m) =>
          Kept(Prediction(m.start, CostOf(m.w, Suite.curve), CostOf(m.w, Suite.pqc)), Suite)
    <3> TAKE m
    <3> HAVE FromFile(m)
    <3> DEFINE x == CostOf(m.w, Suite.curve)
               y == CostOf(m.w, Suite.pqc)
               pr == Prediction(m.start, x, y)
    <3>1. pr.start = m.start /\ pr.c = x /\ pr.q = y
      BY DEF Prediction
    <3>2. CASE m = NoModel
      <4>1. m.start = 0 /\ (file.state = "written" => file.start # 0)
        BY <3>2, NoModelIsFromFile DEF BaseParts, FileInv, Past, BaseInv
      <4> HIDE DEF pr
      <4>2. Kept(pr, Suite)
        BY <3>1, <4>1 DEF Kept, Complete
      <4> QED
        BY <4>2 DEF pr
    <3>3. CASE m # NoModel
      <4>1. /\ Past(m.start)
            /\ file.state = "written" /\ file.start = m.start => Same(m.w, file.w)
        BY <3>3 DEF FromFile
      <4>2. Same(m.w, file.w) => x = CostOf(file.w, Suite.curve) /\ y = CostOf(file.w, Suite.pqc)
        BY SameCosts
      <4> HIDE DEF pr, x, y
      <4>3. Kept(pr, Suite)
        BY <3>1, <4>1, <4>2 DEF Kept, Complete
      <4> QED
        BY <4>3 DEF pr, x, y
    <3> QED
      BY <3>2, <3>3
  <2> QED
    BY <1>5, <2>1 DEF predict_hybrid_performance
<1> HIDE DEF emp, all, pred, drift
<1>8. /\ row.id = Suite.id /\ row.kdf = Kdf /\ row.start = h.start /\ row.emp = emp
      /\ row.all = all /\ row.kind = "python" /\ row.pred = pred /\ row.drift = drift
  BY <1>1, RowFields
<1>8a. KeptRow(row)
  BY <1>3, <1>7a, <1>8 DEF KeptRow, Suite
<1>9. \E p \in DOMAIN Hybrids :
        row.id = Hybrids[p].id /\ Trained(row.pred, Hybrids[p]) /\ Trained(row.drift, Hybrids[p])
  BY <1>3, <1>6, <1>8 DEF Suite
<1> QED
  BY <1>3, <1>4, <1>7, <1>8, <1>8a, <1>9 DEF GoodRow

LEMMA HybridDoneOK ==
  ASSUME BaseParts, HybridInv, ModelInv, HybridDone
  PROVE  HybridInv' /\ (h.pc # "off" => ModelInv)'
<1> USE Assumptions
<1> DEFINE rows == h.rows \cup (IF h.kind = "c" THEN RowC ELSE RowPython)
           buf == IF h.kind = "c" THEN h.buf ELSE Empty
<1>1. /\ h.pc = "failed" \/ (h.pc = "run" /\ h.i <= Len(Hybrids) /\ h.ok = h.runs)
      /\ UNCHANGED <<file, b, report>>
      /\ h' = [h EXCEPT !.pc = "run", !.i = @ + 1, !.ok = 0, !.tot = Nothing,
                        !.buf = buf, !.rows = rows]
  BY DEF HybridDone
<1>2. HybridForm /\ HybridTypes /\ \A row \in h.rows : GoodRow(row)
  BY <1>1 DEF HybridInv
<1>3. h.i <= Len(Hybrids) /\ h.kind \in {"c", "python"}
  BY <1>1, <1>2 DEF HybridTypes
<1>4. \A row \in rows : GoodRow(row)
  BY <1>1, <1>2, <1>3, RowCOK, RowPythonOK
<1>5. DOMAIN buf \subseteq 0 .. h.runs - 1
  BY <1>2, NoWeights DEF HybridTypes
<1> HIDE DEF rows, buf
<1>6. h' = [pc |-> "run", start |-> h.start, kind |-> h.kind, runs |-> h.runs,
            phase |-> h.phase, i |-> h.i + 1, ok |-> 0, buf |-> buf, tot |-> Nothing,
            rows |-> rows, model |-> h.model, weights |-> h.weights, fd |-> h.fd,
            cnt |-> h.cnt]
  BY <1>1, <1>2 DEF HybridForm, HybridTypes
<1>6a. /\ HybridForm'
      /\ h'.pc = "run" /\ h'.start = h.start /\ h'.kind = h.kind /\ h'.runs = h.runs
      /\ h'.phase = h.phase /\ h'.i = h.i + 1 /\ h'.ok = 0 /\ h'.buf = buf
      /\ h'.tot = Nothing /\ h'.rows = rows /\ h'.model = h.model
      /\ h'.weights = h.weights /\ h'.fd = h.fd /\ h'.cnt = h.cnt
  BY <1>6 DEF HybridForm
<1>7. HybridTypes'
  BY <1>1, <1>2, <1>3, <1>5, <1>6a DEF HybridForm, HybridTypes
<1>8. MeasureInv'
  BY <1>6a, FilledNone, NoRuns DEF MeasureInv, Suite, Kdf, Nothing
<1>9. ModelInv'
  BY <1>1, <1>6a, ModelUntouched
<1> QED
  BY <1>1, <1>4, <1>6a, <1>7, <1>8, <1>9 DEF HybridInv

LEMMA EndTrackOK ==
  ASSUME BaseParts, HybridInv, ModelInv, EndTrack
  PROVE  HybridInv' /\ (h.pc # "off" => ModelInv)'
<1> USE Assumptions
<1> DEFINE pc == IF h.phase = Len(Phases) THEN "export" ELSE "track"
           phase == IF h.phase = Len(Phases) THEN h.phase ELSE h.phase + 1
           fd == IF h.kind = "c" THEN hw_telemetry_cleanup(h.fd) ELSE h.fd
<1>1. /\ h.pc = "run" /\ h.i > Len(Hybrids) /\ UNCHANGED <<file, b, report>>
      /\ h' = [h EXCEPT !.pc = pc, !.phase = phase, !.fd = fd]
  BY DEF EndTrack
<1>2. HybridForm /\ HybridTypes /\ \A row \in h.rows : GoodRow(row)
  BY <1>1 DEF HybridInv
<1>3. fd = hw_telemetry_zero /\ pc \in {"track", "export"} /\ phase \in 1 .. 2
  <2>1. fd = hw_telemetry_zero
    BY <1>2 DEF HybridTypes, hw_telemetry_cleanup
  <2>2. Len(Phases) = 2
    BY DEF Phases
  <2> QED
    BY <1>2, <2>1, <2>2 DEF HybridTypes
<1> HIDE DEF pc, phase, fd
<1>4. h' = [pc |-> pc, start |-> h.start, kind |-> h.kind, runs |-> h.runs,
            phase |-> phase, i |-> h.i, ok |-> h.ok, buf |-> h.buf, tot |-> h.tot,
            rows |-> h.rows, model |-> h.model, weights |-> h.weights, fd |-> fd,
            cnt |-> h.cnt]
  BY <1>1, <1>2 DEF HybridForm, HybridTypes
<1>4a. /\ HybridForm'
      /\ h'.pc = pc /\ h'.start = h.start /\ h'.kind = h.kind /\ h'.runs = h.runs
      /\ h'.phase = phase /\ h'.i = h.i /\ h'.ok = h.ok /\ h'.buf = h.buf
      /\ h'.tot = h.tot /\ h'.rows = h.rows /\ h'.model = h.model
      /\ h'.weights = h.weights /\ h'.fd = fd /\ h'.cnt = h.cnt
  BY <1>4 DEF HybridForm
<1>5. HybridTypes'
  BY <1>1, <1>2, <1>3, <1>4a DEF HybridForm, HybridTypes
<1>6. MeasureInv'
  BY <1>3, <1>4a DEF MeasureInv
<1>7. ModelInv'
  BY <1>1, <1>4a, ModelUntouched
<1> QED
  BY <1>1, <1>2, <1>3, <1>4a, <1>5, <1>6, <1>7 DEF HybridInv

LEMMA ExportOK ==
  ASSUME HybridInv, Export \/ KillHybrid
  PROVE  HybridInv' /\ (h.pc # "off" => ModelInv)'
<1>1. h.pc # "off" /\ h' = Off(h.start) /\ report' \in {report, h.rows}
  BY DEF Export, KillHybrid
<1>2. \A row \in report' : GoodRow(row)
  BY <1>1 DEF HybridInv
<1> QED
  BY <1>1, <1>2 DEF HybridInv, Off

----------------------------------------------------------------------------
(* The theorems *)

LEMMA EvaluationOK ==
  ASSUME IInv, Evaluation
  PROVE  HybridInv' /\ (h.pc # "off" => ModelInv)'
<1>1. BaseParts /\ HybridInv /\ (h.pc # "off" => ModelInv)
  BY DEF IInv, BaseParts
<1>2. CASE StartHybridC \/ StartHybridPython
  BY <1>1, <1>2, StartHybridCOK, StartHybridPythonOK
<1>3. CASE StartTrackC \/ StartTrackPython
  <2>1. ModelInv
    BY <1>1, <1>3 DEF StartTrackC, StartTrackPython
  <2> QED
    BY <1>1, <1>3, <2>1, StartTrackCOK, StartTrackPythonOK
<1>4. CASE HybridRun \/ HybridRunFails
  <2>1. ModelInv
    BY <1>1, <1>4 DEF HybridRun, HybridRunFails, Measuring
  <2> QED
    BY <1>1, <1>4, <2>1, HybridRunOK, HybridRunFailsOK
<1>5. CASE HybridDone \/ EndTrack
  <2>1. ModelInv
    BY <1>1, <1>5 DEF HybridDone, EndTrack
  <2> QED
    BY <1>1, <1>5, <2>1, HybridDoneOK, EndTrackOK
<1>6. CASE Export \/ KillHybrid
  BY <1>1, <1>6, ExportOK
<1> QED
  BY <1>2, <1>3, <1>4, <1>5, <1>6 DEF Evaluation

\* Only the end of a suite adds a row.
LEMMA RowsGrow ==
  ASSUME IInv, Evaluation
  PROVE  \A row \in Rows' : row \in Rows \/ KeptRow(row)
<1> SUFFICES ASSUME NEW row \in Rows', row \notin Rows PROVE KeptRow(row)
  OBVIOUS
<1>0. h.pc # "off" => HybridForm
  BY DEF IInv, HybridInv
<1>1. CASE HybridDone
  <2>1. /\ BaseParts /\ HybridInv /\ ModelInv /\ UNCHANGED report
        /\ h.pc \in {"run", "failed"} /\ h.i <= Len(Hybrids) /\ h.kind \in {"c", "python"}
        /\ h.pc = "failed" \/ h.ok = h.runs
    BY <1>1, Assumptions DEF HybridDone, IInv, BaseParts, HybridInv, HybridTypes
  <2>2. h'.rows = h.rows \cup (IF h.kind = "c" THEN RowC ELSE RowPython)
    BY <1>0, <1>1, <2>1 DEF HybridDone, HybridForm
  <2>3. row \in IF h.kind = "c" THEN RowC ELSE RowPython
    BY <2>1, <2>2 DEF Rows
  <2> QED
    BY <2>1, <2>3, RowCOK, RowPythonOK
<1>2. CASE StartHybridC \/ StartHybridPython
  <2>1. file.state \in {"torn", "absent", "written"}
    BY DEF IInv, FileInv
  <2>2. \A start : Off(start).pc = "off"
    BY DEF Off
  <2>3. \A kind, n, m : Evaluating(kind, n, m).rows = {}
    BY DEF Evaluating
  <2>4. CASE StartHybridC
    <3>1. PICK n \in RunCounts :
            h' = IF file.state # "written" \/ n < 0 THEN Off(h.start + 1)
                 ELSE Evaluating("c", n, [start |-> file.start, w |-> LoadedModel(file.w)])
      BY <2>4 DEF StartHybridC
    <3>2. h' = Off(h.start + 1)
          \/ h' = Evaluating("c", n, [start |-> file.start, w |-> LoadedModel(file.w)])
      BY <3>1, Zenon
    <3> QED
      BY <2>2, <2>3, <2>4, <3>2 DEF Rows, StartHybridC
  <2>5. CASE StartHybridPython
    <3>1. h' = Off(h.start + 1) \/ \E m : h' = Evaluating("python", NUM_RUNS, m)
      BY <2>1, <2>5 DEF StartHybridPython
    <3> QED
      BY <2>2, <2>3, <2>5, <3>1 DEF Rows, StartHybridPython
  <2> QED
    BY <1>2, <2>4, <2>5
<1>3. CASE StartTrackC \/ StartTrackPython
  <2>0. file.state \in {"torn", "absent", "written"} /\ h.pc = "track" /\ HybridForm
    BY <1>0, <1>3 DEF IInv, FileInv, StartTrackC, StartTrackPython
  <2>1. h.pc # "off" /\ UNCHANGED report /\ (h'.pc # "off" => h'.rows = h.rows)
    <3>1. CASE StartTrackC
      BY <2>0, <3>1 DEF StartTrackC, HybridForm
    <3>2. CASE StartTrackPython
      BY <2>0, <3>2 DEF StartTrackPython, Off, HybridForm
    <3> QED
      BY <1>3, <3>1, <3>2
  <2> QED
    BY <2>1 DEF Rows
<1>4. CASE HybridRun \/ HybridRunFails \/ EndTrack
  <2>1. h.pc # "off" /\ UNCHANGED report /\ h'.rows = h.rows
    BY <1>0, <1>4 DEF HybridRun, HybridRunFails, Measuring, EndTrack, HybridForm
  <2> QED
    BY <2>1 DEF Rows
<1>5. CASE Export \/ KillHybrid
  <2>1. h.pc # "off" /\ h'.pc = "off" /\ report' \in {report, h.rows}
    BY <1>5 DEF Export, KillHybrid, Off
  <2> QED
    BY <2>1 DEF Rows
<1> QED
  BY <1>1, <1>2, <1>3, <1>4, <1>5 DEF Evaluation

LEMMA KeptNext == IInv /\ [Next]_vars => RowsKept'
<1> SUFFICES ASSUME IInv, [Next]_vars PROVE RowsKept'
  OBVIOUS
<1>1. BaseParts /\ RowsKept
  BY DEF IInv, BaseParts
<1>2. CASE Training
  <2>1. Rows' = Rows
    BY <1>2, Apart DEF Rows
  <2> QED
    BY <1>1, <1>2, <2>1, KeptStays DEF RowsKept, KeptRow
<1>3. CASE Evaluation
  <2>1. UNCHANGED <<file, b>>
    BY <1>3, Apart
  <2>2. \A row \in Rows' : KeptRow(row)
    BY <1>1, <1>3, RowsGrow DEF RowsKept
  <2> QED
    BY <2>1, <2>2 DEF RowsKept, KeptRow, Kept, Complete, Past
<1>4. CASE UNCHANGED vars
  <2>1. UNCHANGED <<file, b>> /\ Rows' = Rows
    BY <1>4 DEF vars, Rows
  <2> QED
    BY <1>1, <2>1 DEF RowsKept, KeptRow, Kept, Complete, Past
<1> QED
  BY <1>2, <1>3, <1>4 DEF Next, Training, Evaluation

LEMMA InitOK == Init => IInv
BY Assumptions DEF Init, IInv, BaseInv, FileInv, HybridInv, Absent, Off, RowsKept, Rows

LEMMA NextOK == IInv /\ [Next]_vars => IInv'
<1> SUFFICES ASSUME IInv, [Next]_vars PROVE IInv'
  OBVIOUS
<1>1. BaseParts /\ HybridInv /\ (h.pc # "off" => ModelInv)
  BY DEF IInv, BaseParts
<1>2. BaseParts' /\ RowsKept'
  BY <1>1, BaseStep, KeptNext
<1>3. CASE Training
  <2>1. UNCHANGED <<h, report>>
    BY <1>3, Apart
  <2>2. HybridInv'
    BY <1>1, <2>1 DEF HybridInv, HybridForm, HybridTypes, MeasureInv, Suite, Kdf
  <2>3. (h.pc # "off" => ModelInv)'
    BY <1>1, <1>3, <2>1, ModelStays
  <2> QED
    BY <1>2, <2>2, <2>3 DEF IInv, BaseParts
<1>4. CASE Evaluation
  BY <1>2, <1>4, EvaluationOK DEF IInv, BaseParts
<1>5. CASE UNCHANGED vars
  <2>1. UNCHANGED <<file, b, h, report>>
    BY <1>5 DEF vars
  <2>2. HybridInv'
    BY <1>1, <2>1 DEF HybridInv, HybridForm, HybridTypes, MeasureInv, Suite, Kdf
  <2>3. (h.pc # "off" => ModelInv)'
    BY <1>1, <2>1, ModelUntouched
  <2> QED
    BY <1>2, <2>2, <2>3 DEF IInv, BaseParts
<1> QED
  BY <1>3, <1>4, <1>5 DEF Next, Training, Evaluation

(***************************************************************************)
(* The inductive invariant of both programs and the file between them.     *)
(***************************************************************************)
THEOREM Invariance == Spec => []IInv
BY InitOK, NextOK, PTL DEF Spec

(***************************************************************************)
(* Variables keep their types, and no counter is left open when the next   *)
(* track opens its own (hw_telemetry.c).                                   *)
(***************************************************************************)
THEOREM PipelineIsTyped == Spec => []PipelineInv
<1>1. IInv => PipelineInv
  <2> SUFFICES ASSUME IInv PROVE PipelineTypeOK /\ CountersAreClosed
    BY DEF PipelineInv
  <2>1. DOMAIN Phases = 1 .. 2
    BY DEF Phases
  <2>2. PipelineTypeOK
    BY <2>1, Assumptions
       DEF PipelineTypeOK, IInv, BaseInv, BaseTypes, FileInv, HybridInv, HybridTypes
  <2>3. CountersAreClosed
    BY DEF CountersAreClosed, IInv, HybridInv, HybridTypes, hw_telemetry_zero
  <2> QED
    BY <2>2, <2>3
<1> QED
  BY <1>1, Invariance, PTL

(***************************************************************************)
(* What an aborted profile left in the shared buffer of bench_baselines is *)
(* in no weight: every one is the steady state of a whole series of runs   *)
(* of its own algorithm, of one start of the program.                      *)
(***************************************************************************)
THEOREM WeightsAreWhole == Spec => []WeightsAreWholeProfiles
<1>1. IInv => WeightsAreWholeProfiles
  <2> SUFFICES ASSUME IInv, file.state = "written", NEW k \in DOMAIN file.w
               PROVE  /\ k = Key(file.w[k].label)
                      /\ \E n \in RunCounts \cup {NUM_RUNS} :
                           file.w[k].cost = Runs(file.w[k].label.id, "sha256", file.start,
                                                 IF n <= 1 THEN 0 ELSE 1, n)
    BY DEF WeightsAreWholeProfiles
  <2>1. PICK p \in DOMAIN Baselines, n \in RunCounts \cup {NUM_RUNS} :
          /\ k = Key(Baselines[p])
          /\ file.w[k] = [label |-> Baselines[p],
                          cost |-> Runs(Baselines[p].id, "sha256", file.start,
                                        IF n <= 1 THEN 0 ELSE 1, n)]
    BY DEF IInv, FileInv, GoodWeights, GoodEntry
  <2>2. /\ file.w[k].label = Baselines[p]
        /\ file.w[k].cost = Runs(Baselines[p].id, "sha256", file.start,
                                 IF n <= 1 THEN 0 ELSE 1, n)
    BY <2>1
  <2> QED
    BY <2>1, <2>2
<1> QED
  BY <1>1, Invariance, PTL

LEMMA RowsAreGood == IInv => \A row \in Rows : GoodRow(row)
BY DEF IInv, HybridInv, Rows

(***************************************************************************)
(* A row of the hybrid benchmark is over consecutive warm runs of its own  *)
(* suite and KDF, the mean Python evaluates its prediction against over    *)
(* these and the cold one, and the counters counted these and no failed    *)
(* ones.                                                                   *)
(***************************************************************************)
THEOREM RowsAreOwn == Spec => []RowsAreOwnRuns
<1>1. IInv => RowsAreOwnRuns
  BY RowsAreGood DEF RowsAreOwnRuns, GoodRow
<1> QED
  BY <1>1, Invariance, PTL

(***************************************************************************)
(* Predictions come from baselines of the suite's own algorithms and of    *)
(* one training, and leave out none the file has; looking them up by label *)
(* or by key comes to the same, unless somebody trained in between.        *)
(***************************************************************************)
THEOREM PredictionsTrained == Spec => []PredictionsAreTrained
<1>1. IInv => PredictionsAreTrained
  <2> SUFFICES ASSUME IInv, NEW row \in Rows
               PROVE  /\ \A i \in DOMAIN Hybrids : Hybrids[i].id = row.id =>
                           /\ Trained(row.pred, Hybrids[i]) /\ Trained(row.drift, Hybrids[i])
                           /\ Complete(row.pred, Hybrids[i]) /\ Complete(row.drift, Hybrids[i])
                      /\ row.pred.start = row.drift.start => row.pred = row.drift
    BY DEF PredictionsAreTrained
  <2>1. GoodRow(row)
    BY RowsAreGood
  <2>2. PICK p \in DOMAIN Hybrids : /\ row.id = Hybrids[p].id
                                    /\ Trained(row.pred, Hybrids[p])
                                    /\ Trained(row.drift, Hybrids[p])
    BY <2>1 DEF GoodRow
  <2>3. \A i \in DOMAIN Hybrids : Hybrids[i].id = row.id =>
          Complete(row.pred, Hybrids[i]) /\ Complete(row.drift, Hybrids[i])
    BY DEF IInv, RowsKept, KeptRow, Kept
  <2> QED
    BY <2>1, <2>2, <2>3, Assumptions DEF GoodRow
<1> QED
  BY <1>1, Invariance, PTL
===============================================================================
