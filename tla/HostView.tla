------------------------------ MODULE HostView ------------------------------
(***************************************************************************)
(* The state of main.c as Campaign sees it: a refinement mapping for the   *)
(* modules that run the program.                                           *)
(***************************************************************************)
EXTENDS HostProgram

(* The texts of a stimulus and of a configuration, as far as the fabric    *)
(* has signals and injection points for them.                              *)
RandomText(n, rand) == [i \in 1 .. n |-> Digit(rand, i - 1)]

Stimuli == {RandomText(InputLength, rand) : rand \in Rands}
Configs == {RandomText(ConfigLength, rand) : rand \in Rands}
             \cup {[i \in 1 .. ConfigLength |-> "1"]}

Shortened(line, n) == [i \in 1 .. n |-> CharAt(line, i)]

(* An entry of the log without what the fabric has no use for: the newline   *)
(* of the configuration, and all that longer texts put behind.             *)
Essence(r) ==
  IF r.kind = "header"
    THEN [r EXCEPT !.config = Shortened(@, ConfigLength)]
    ELSE [r EXCEPT !.config = Shortened(@, ConfigLength),
                   !.input  = Shortened(@, InputLength)]

InTest == pc \in {"case2", "case3", "case4", "case5"}

SizeOf(a) == [tests |-> a.num_test_comb, inputs |-> a.num_inputs_comb]

CampaignSizes == {SizeOf(a) : a \in Answers}
CampaignLog   == [n \in DOMAIN data_result_txt |-> Essence(data_result_txt[n])]
CampaignPhase == CASE pc = "start" -> "idle"
                   [] pc = "done"  -> "ended"
                   [] OTHER        -> "running"
InRow         == pc \in {"header", "inner", "result"} \/ InTest
CampaignRow   == IF InRow THEN m + 1 ELSE m
CampaignCol   == CASE pc = "header" -> 0
                   [] pc = "result" -> j + 1
                   [] OTHER         -> j
=============================================================================
