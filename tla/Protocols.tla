----------------------------- MODULE Protocols -----------------------------
(***************************************************************************)
(* The versioned research protocols (examples/heterosplit/protocols.py):   *)
(* which records an experiment loads and which split it asks for.  The     *)
(* HeteroSplit library, which does the splitting, is outside the           *)
(* repository: here it is the contract that its audit enforces.            *)
(***************************************************************************)
EXTENDS Integers, Sequences, FiniteSets

Dataset == {"DrugComb", "MovieLens"}

ORIGINAL ==
  [DrugComb |-> {"random", "pair_cold_start", "either_cold_start",
                 "both_cold_start"},
   MovieLens |-> {"random", "source_cold_start", "destination_cold_start",
                  "both_cold_start"}]

REGIMES ==
  [DrugComb |-> ORIGINAL.DrugComb \cup
     {"cell_cold_start", "pair_cell_cold_start", "either_cell_cold_start",
      "both_cell_cold_start"},
   MovieLens |-> ORIGINAL.MovieLens \cup
     {"month_cold_start", "source_month_cold_start",
      "destination_month_cold_start", "both_month_cold_start"}]

Study == {"original-v1", "expanded-v2"}

STUDIES == [s \in Study |-> IF s = "original-v1" THEN ORIGINAL ELSE REGIMES]

(* What submit.py's definitions vary: the experiments of a study.          *)
definitions(study) ==
  {[study |-> study, dataset |-> d, regime |-> r] :
     <<d, r>> \in {p \in Dataset \X UNION {STUDIES[study][d] : d \in Dataset} :
                     p[2] \in STUDIES[study][p[1]]}}

-----------------------------------------------------------------------------
(* Records.  A row of the file has two endpoints and the cell line or the  *)
(* timestamp.                                                              *)
Missing == 0 - 1

(* strftime("%Y-%m") of a timestamp; Month is the length of a month.       *)
CONSTANT Month

MonthOf(timestamp) == timestamp \div Month

Taken(file, max_rows) ==
  SubSeq(file.rows, 1,
         IF max_rows < Len(file.rows) THEN max_rows ELSE Len(file.rows))

Acceptable(study, dataset, file, max_rows) ==
  /\ \A i \in DOMAIN Taken(file, max_rows) :
       Missing \notin {file.rows[i].a, file.rows[i].b}
  /\ study = "expanded-v2" /\ dataset = "MovieLens" =>
       /\ file.timestamps
       /\ \A i \in DOMAIN Taken(file, max_rows) : file.rows[i].c # Missing

(* The context is the cell line, the month, or there is none.              *)
load_records(study, dataset, file, max_rows) ==
  [i \in DOMAIN Taken(file, max_rows) |->
     [a |-> file.rows[i].a, b |-> file.rows[i].b,
      c |-> IF dataset = "DrugComb" THEN file.rows[i].c
            ELSE IF study = "expanded-v2" THEN MonthOf(file.rows[i].c) ELSE 0]]

-----------------------------------------------------------------------------
(* The split that is asked for.                                            *)

native_regime(dataset, regime) ==
  CASE regime \in {"cell_cold_start", "month_cold_start"} ->
         "context_cold_start"
    [] regime \in ORIGINAL[dataset] -> regime
    [] OTHER -> "joint_cold_start"

holdout(dataset, regime) ==
  IF dataset = "DrugComb"
  THEN {<<"cell_line", "all">>} \cup
       (IF regime = "pair_cell_cold_start" THEN {<<"drug_pair", "all">>}
        ELSE {<<"drug", IF regime = "either_cell_cold_start" THEN "either"
                                                             ELSE "both">>})
  ELSE {<<"rating_month", "all">>} \cup
       (IF regime \in {"source_month_cold_start", "both_month_cold_start"}
        THEN {<<"user", "source">>} ELSE {}) \cup
       (IF regime \in {"destination_month_cold_start", "both_month_cold_start"}
        THEN {<<"movie", "destination">>} ELSE {})

(* Mutant: the pair is a key in the order of the columns.                  *)
drug_pair_directed(r) == <<r.a, r.b>>

drug_pair(r) == IF r.a <= r.b THEN <<r.a, r.b>> ELSE <<r.b, r.a>>

(* The library's part.  The axes a native regime holds out: ...            *)
Axes(dataset, regime) ==
  LET native == native_regime(dataset, regime) IN
  CASE native = "random" -> {}
    [] native = "pair_cold_start" -> {<<"endpoints", "all">>}
    [] native = "either_cold_start" -> {<<"drug", "either">>}
    [] native = "both_cold_start" ->
         IF dataset = "DrugComb" THEN {<<"drug", "both">>}
         ELSE {<<"user", "source">>, <<"movie", "destination">>}
    [] native = "source_cold_start" -> {<<"user", "source">>}
    [] native = "destination_cold_start" -> {<<"movie", "destination">>}
    [] native = "context_cold_start" -> {<<"context", "all">>}
    [] native = "joint_cold_start" -> holdout(dataset, regime)

(* ... two records of different partitions share no group of an axis ...   *)
Apart(axis, r, s) ==
  CASE axis[1] = "endpoints" -> {r.a, r.b} # {s.a, s.b}
    [] axis[1] = "drug" ->
         axis[2] = "both" => {r.a, r.b} \cap {s.a, s.b} = {}
    [] axis[1] = "drug_pair" -> drug_pair(r) # drug_pair(s)
    [] axis[1] = "user" -> r.a # s.a
    [] axis[1] = "movie" -> r.b # s.b
    [] axis[1] \in {"context", "cell_line", "rating_month"} -> r.c # s.c

Partition == {"train", "val", "test"}

In(split, p) == {i \in DOMAIN split : split[i] = p}
Retained(split) == UNION {In(split, p) : p \in Partition}

(* ... and on an axis "either" a record that is held out has an endpoint   *)
(* that no training record has.  Records that fit no partition are         *)
(* excluded.                                                               *)
Contract(dataset, regime, records, split) ==
  \A axis \in Axes(dataset, regime) :
    /\ \A i, k \in Retained(split) :
         split[i] # split[k] => Apart(axis, records[i], records[k])
    /\ axis = <<"drug", "either">> =>
         \A i \in Retained(split) \ In(split, "train") :
           \E e \in {records[i].a, records[i].b} :
             \A k \in In(split, "train") : e \notin {records[k].a, records[k].b}

(* Results of split_records that pass the audit and have no empty part.    *)
split_protocol(dataset, regime, records) ==
  {split \in [DOMAIN records -> Partition \cup {"excluded"}] :
     /\ \A p \in Partition : In(split, p) # {}
     /\ Contract(dataset, regime, records, split)}
=============================================================================
