----------------------------- MODULE MCHostFiles -----------------------------
(***************************************************************************)
(* Instances of HostFiles for TLC.                                         *)
(***************************************************************************)
EXTENDS HostFiles

Answer(inputs, points, stimuli, tests) ==
  [num_inputs |-> inputs, num_inputs_comb |-> stimuli,
   num_fault_points |-> points, num_test_comb |-> tests]

(* The numbers the fabric has, with two stimuli, and without one; and      *)
(* stimuli longer than a configuration, whose tails stay in                *)
(* value_input_files.                                                      *)
MCAnswers == {Answer(4, 8, 2, 1), Answer(4, 8, 0, 1), Answer(18, 8, 1, 2)}

(* No two neighbouring bits of the first agree in all positions.           *)
MCRands == {111349, 214541}

(* Fewer injection points than the fabric has, down to none; and stimuli   *)
(* that make the random configurations longer than the golden one, up to   *)
(* where only the newline of a line lies in the last cell of the field.    *)
ShortAnswers == {Answer(4, 8, 1, 2), Answer(4, 7, 1, 2), Answer(4, 0, 1, 1),
                 Answer(15, 5, 1, 2)}

MCTails == {<<"0">>}
==============================================================================
