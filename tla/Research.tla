------------------------------ MODULE Research ------------------------------
(***************************************************************************)
(* One experiment as task.py's run makes it with the functions of          *)
(* research.py: the records are loaded and split, mapped to one space of   *)
(* nodes, negatives are drawn for every epoch and for the evaluation, and  *)
(* the scores of test pairs and negatives give the metrics.  What the      *)
(* model learns is left open: every score is possible.                     *)
(***************************************************************************)
EXTENDS Protocols, FiniteSetsExt

CONSTANTS
  Files,     \* Files[d]: contents the data file may have
  max_rows,
  Epochs,
  Rounds,    \* rounds of draws (40)
  Factor,    \* draws of a round per pair wanted (4)
  MaxScore   \* scores are 0 .. MaxScore

ASSUME ResearchAssumption ==
  /\ Month \in Nat \ {0} /\ max_rows \in Nat \ {0}
  /\ Epochs \in Nat /\ Rounds \in Nat /\ Factor \in Nat /\ MaxScore \in Nat

VARIABLES
  job,      \* study, dataset, regime
  records, split,
  phase,    \* where run is
  epoch,
  draws,    \* pairs drawn in this call of _sample_pairs
  neg,      \* pairs it kept
  result    \* of the evaluation: test pairs, all scores, the metrics

vars == <<job, records, split, phase, epoch, draws, neg, result>>

NoResult == [n_pos |-> 0, n_neg |-> 0]

(* The file the worker has.                                                *)
Init ==
  /\ job \in UNION {definitions(s) : s \in Study}
  /\ \E file \in Files[job.dataset] :
       IF Acceptable(job.study, job.dataset, file, max_rows)
       THEN /\ records = load_records(job.study, job.dataset, file, max_rows)
            /\ phase = "split"
       ELSE records = <<>> /\ phase = "failed"
  /\ split = <<>> /\ epoch = 0 /\ draws = 0 /\ neg = <<>>
  /\ result = NoResult

-----------------------------------------------------------------------------
(* _prepare: one space of nodes.                                           *)

self_rel == job.dataset = "DrugComb"

(* n_entities: the records number the entities of a type from zero.        *)
Sources ==
  UNION {IF self_rel THEN {records[i].a, records[i].b} ELSE {records[i].a} :
           i \in DOMAIN records}
n_src == Max(Sources) + 1
n_dst == IF self_rel THEN n_src
         ELSE Max({records[i].b : i \in DOMAIN records}) + 1

offset == IF self_rel THEN 0 ELSE n_src
num_nodes == IF self_rel THEN n_src ELSE n_src + n_dst

combine(r) == <<r.a, r.b + offset>>

(* supervision_edge_index: the pairs of a partition, in order.             *)
Edges(p) ==
  LET rank(i) == Cardinality({k \in In(split, p) : k <= i}) IN
  [n \in 1 .. Cardinality(In(split, p)) |->
     combine(records[CHOOSE i \in In(split, p) : rank(i) = n])]

(* Mutant: pairs are kept as they are oriented in the records.             *)
keyDirected(x, y) == <<x, y>>

key(x, y) == IF self_rel /\ y < x THEN <<y, x>> ELSE <<x, y>>

_positive_set ==
  {key(combine(records[i])[1], combine(records[i])[2]) : i \in DOMAIN records}

-----------------------------------------------------------------------------
(* split_protocol, which raises if a part is empty.                        *)
Split ==
  /\ phase = "split"
  /\ \/ /\ split' \in split_protocol(job.dataset, job.regime, records)
        /\ phase' = IF Epochs > 0 THEN "train" ELSE "evaluate"
     \/ phase' = "failed" /\ UNCHANGED split
  /\ UNCHANGED <<job, records, epoch, draws, neg, result>>

-----------------------------------------------------------------------------
(* _sample_pairs, draw by draw.                                            *)

train == Edges("train")
test == Edges("test")

(* All nodes for training; for the evaluation, those of the test pairs.    *)
SrcPool ==
  CASE phase = "train" -> 0 .. n_src - 1
    [] phase = "evaluate" /\ self_rel ->
         UNION {{test[i][1], test[i][2]} : i \in DOMAIN test}
    [] OTHER -> {test[i][1] : i \in DOMAIN test}

DstPool ==
  CASE self_rel -> SrcPool
    [] phase = "train" -> offset .. num_nodes - 1
    [] OTHER -> {test[i][2] : i \in DOMAIN test}

Wanted == IF phase = "train" THEN Len(train) ELSE Len(test)

Sampled == Len(neg) >= Wanted \/ draws = Rounds * Factor * Wanted

Draw ==
  /\ phase \in {"train", "evaluate"} /\ ~Sampled
  /\ draws' = draws + 1
  /\ \E x \in SrcPool, y \in DstPool :
       neg' = IF (self_rel /\ x = y) \/ key(x, y) \in _positive_set
              THEN neg ELSE Append(neg, <<x, y>>)
  /\ UNCHANGED <<job, records, split, phase, epoch, result>>

(* An epoch with these negatives.                                          *)
Train ==
  /\ phase = "train" /\ Sampled
  /\ epoch' = epoch + 1
  /\ phase' = IF epoch' = Epochs THEN "evaluate" ELSE "train"
  /\ draws' = 0 /\ neg' = <<>>
  /\ UNCHANGED <<job, records, split, result>>

-----------------------------------------------------------------------------
(* Metrics.  scores holds those of the test pairs first, then those of     *)
(* neg; argsort puts equal scores in any order.                            *)

Orders(scores) ==
  {f \in [DOMAIN scores -> DOMAIN scores] :
     /\ \A i, k \in DOMAIN scores : i # k => f[i] # f[k]
     /\ \A i, k \in DOMAIN scores : i < k => scores[f[i]] <= scores[f[k]]}

Rank(order, i) == CHOOSE n \in DOMAIN order : order[n] = i

(* Mutant: ranks count from zero.                                          *)
_roc_auc_from_zero(order, n) ==
  MapThenSumSet(LAMBDA i : Rank(order, i) - 1, 1 .. n) - (n * (n + 1)) \div 2

(* The numerator; the denominator is n_pos * n_neg.                        *)
_roc_auc(order, n) ==
  MapThenSumSet(LAMBDA i : Rank(order, i), 1 .. n) - (n * (n + 1)) \div 2

(* A multiple of the denominators of all precisions.                       *)
Scale == 60

(* The sum of the precisions at the positives, times Scale.                *)
_average_precision(order, n) ==
  LET size == Len(order)
      above(i) == {k \in 1 .. n : Rank(order, k) >= Rank(order, i)}
      precision(i) ==
        (Scale * Cardinality(above(i))) \div (size + 1 - Rank(order, i))
  IN MapThenSumSet(precision, 1 .. n)

(* What Encoder and _decode make of a number of pairs: any scores.         *)
Scores(size) == [1 .. size -> 0 .. MaxScore]

(* The pairs to be scored are the test pairs and the negatives there are.  *)
Evaluate ==
  /\ phase = "evaluate" /\ Sampled
  /\ phase' = "score"
  /\ result' = [n_pos |-> Len(test), n_neg |-> Len(neg)]
  /\ records' = <<>> /\ split' = <<>> /\ draws' = 0 /\ neg' = <<>>
  /\ UNCHANGED <<job, epoch>>

(* json.dumps refuses the NaN of an empty class.                           *)
Score ==
  LET n == result.n_pos
      m == result.n_neg
  IN /\ phase = "score"
     /\ \/ /\ n = 0 \/ m = 0
           /\ phase' = "failed" /\ UNCHANGED result
        \/ /\ n > 0 /\ m > 0
           /\ phase' = "done"
           /\ \E scores \in Scores(n + m) :
              \E auc \in {_roc_auc(f, n) : f \in Orders(scores)},
                 ap \in {_average_precision(f, n) : f \in Orders(scores)} :
                result' = [n_pos |-> n, n_neg |-> m, scores |-> scores,
                           auc |-> auc, ap |-> ap]
     /\ UNCHANGED <<job, records, split, epoch, draws, neg>>

-----------------------------------------------------------------------------
Next == Split \/ Draw \/ Train \/ Evaluate \/ Score

Spec == Init /\ [][Next]_vars

-----------------------------------------------------------------------------
(* Properties.                                                             *)

(* What REGIMES.md says is held out, of a training record r and a test     *)
(* record s.                                                               *)
Unseen(r, s) ==
  LET pair == {r.a, r.b} # {s.a, s.b}
      drugs == {r.a, r.b} \cap {s.a, s.b} = {}
  IN CASE job.regime = "random" -> TRUE
       [] job.regime = "pair_cold_start" -> pair
       [] job.regime \in {"cell_cold_start", "month_cold_start"} -> r.c # s.c
       [] job.regime = "pair_cell_cold_start" -> pair /\ r.c # s.c
       [] job.regime = "either_cold_start" -> ~({s.a, s.b} \subseteq {r.a, r.b})
       [] job.regime = "either_cell_cold_start" ->
            ~({s.a, s.b} \subseteq {r.a, r.b}) /\ r.c # s.c
       [] job.regime = "both_cold_start" ->
            IF self_rel THEN drugs ELSE r.a # s.a /\ r.b # s.b
       [] job.regime = "both_cell_cold_start" -> drugs /\ r.c # s.c
       [] job.regime = "source_cold_start" -> r.a # s.a
       [] job.regime = "destination_cold_start" -> r.b # s.b
       [] job.regime = "source_month_cold_start" -> r.a # s.a /\ r.c # s.c
       [] job.regime = "destination_month_cold_start" -> r.b # s.b /\ r.c # s.c
       [] job.regime = "both_month_cold_start" ->
            r.a # s.a /\ r.b # s.b /\ r.c # s.c

(* The split an experiment trains and tests on holds out what REGIMES.md   *)
(* promises for its regime, whichever way the pairs are oriented.          *)
RegimeHolds ==
  \A i \in In(split, "train"), k \in In(split, "test") :
    Unseen(records[i], records[k])

(* A negative is a pair of the right types that no record of any partition *)
(* has in either orientation, and not a self-loop; in the evaluation both  *)
(* of its nodes are nodes of test pairs.                                   *)
NegativesAreNegative ==
  \A i \in DOMAIN neg :
    LET x == neg[i][1]
        y == IF self_rel THEN neg[i][2] ELSE neg[i][2] - n_src
        tested == {records[k] : k \in In(split, "test")}
    IN /\ x \in 0 .. n_src - 1
       /\ y \in 0 .. n_dst - 1
       /\ \A k \in DOMAIN records :
            /\ <<records[k].a, records[k].b>> # <<x, y>>
            /\ self_rel => <<records[k].a, records[k].b>> # <<y, x>>
       /\ self_rel => x # y
       /\ phase = "evaluate" =>
            IF self_rel
            THEN \A e \in {x, y} : \E r \in tested : e \in {r.a, r.b}
            ELSE (\E r \in tested : r.a = x) /\ (\E r \in tested : r.b = y)

(* The area under the curve counts the pairs of a test pair and a negative *)
(* that are in the right order, and of those with equal scores any number; *)
(* the average precision is that of the definition unless a test pair and  *)
(* a negative have equal scores.  Both are never computed of nothing.      *)
MetricsMatch ==
  phase = "done" =>
    LET n == result.n_pos
        s == result.scores
        won == {<<p, q>> \in (1 .. n) \X (n + 1 .. Len(s)) : s[p] > s[q]}
        even == {<<p, q>> \in (1 .. n) \X (n + 1 .. Len(s)) : s[p] = s[q]}
        before(p) == {q \in 1 .. n : s[q] > s[p] \/ (s[q] = s[p] /\ q <= p)}
        false(p) == {q \in n + 1 .. Len(s) : s[q] > s[p]}
        precision(p) == (Scale * Cardinality(before(p))) \div
                          (Cardinality(before(p)) + Cardinality(false(p)))
    IN /\ n > 0 /\ Len(s) > n
       /\ Cardinality(won) <= result.auc
       /\ result.auc <= Cardinality(won) + Cardinality(even)
       /\ even = {} =>
            result.ap = MapThenSumSet(precision, 1 .. n)
=============================================================================
