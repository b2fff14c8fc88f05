----------------------------- MODULE MCTestBench -----------------------------
(***************************************************************************)
(* Small campaigns on the full-width fabric.                               *)
(***************************************************************************)
EXTENDS TestBench

Answer(stimuli, tests) ==
  [num_inputs |-> 4, num_inputs_comb |-> stimuli,
   num_fault_points |-> 8, num_test_comb |-> tests]

(* A configuration of rand() with most signals let through; its lowest     *)
(* four bits, as a stimulus, are A, B and D without C, and without A.      *)
OneRand  == {111349}
TwoRands == OneRand \cup {65261}

NoTail == {<<>>}

SmallCampaign == {Answer(1, 2)}
Campaigns     == {Answer(2, 2), Answer(1, 3)}
==============================================================================
