----------------------------- MODULE MCResearch -----------------------------
(* Data files for Research.  Of DrugComb: pairs in both orientations, with *)
(* several cells, a pair of a drug with itself, pairs without a drug in    *)
(* common.  Of MovieLens: several months, more rows than are taken, an     *)
(* endpoint or a timestamp missing, no column of timestamps.               *)
EXTENDS Research

Rows(s) == [i \in DOMAIN s |-> [a |-> s[i][1], b |-> s[i][2], c |-> s[i][3]]]
File(s) == [timestamps |-> TRUE, rows |-> Rows(s)]

MCFiles ==
  [DrugComb |->
     { File(<< <<0, 1, 0>>, <<1, 0, 1>>, <<2, 3, 1>>, <<3, 2, 2>> >>),
       File(<< <<0, 1, 0>>, <<1, 2, 1>>, <<2, 2, 1>>, <<2, 0, 2>> >>),
       File(<< <<0, 0, 0>>, <<1, 1, 1>>, <<2, 3, 2>>, <<5, 4, 2>> >>) },
   MovieLens |->
     { File(<< <<0, 1, 0>>, <<1, 0, 2>>, <<2, 2, 5>>, <<1, 2, 3>>, <<9, 9, 9>> >>),
       File(<< <<0, 0, 0>>, <<1, 1, 2>>, <<2, 2, 4>>, <<3, 3, 5>> >>),
       File(<< <<0, Missing, 1>>, <<1, 1, 2>>, <<2, 2, 4>> >>),
       File(<< <<0, 1, Missing>>, <<1, 0, 2>>, <<2, 2, 4>> >>),
       [timestamps |-> FALSE, rows |-> Rows(<< <<0, 1, 0>>, <<1, 0, 0>>, <<2, 3, 0>> >>)] }]
=============================================================================
