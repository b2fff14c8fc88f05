----------------------------- MODULE ResultFile -----------------------------
(***************************************************************************)
(* The entries of data_result.txt, headers and result lines, and the form  *)
(* of the file when a single campaign has written it, up to any append:    *)
(* what main.c guarantees (Campaign, HostFiles) and what d_metric.py       *)
(* counts on (DMetric).                                                    *)
(*                                                                         *)
(* An entry is written by several appends, each with an fopen and an       *)
(* fclose of its own.  It has its number and its texts from the first one  *)
(* on; parts says how many of them the file has got.                       *)
(***************************************************************************)
EXTENDS Integers, Sequences

(* The appends of a header: the two newlines before it, its number, the    *)
(* marker, the configuration with its newline, the line of dashes.  Those  *)
(* of a result: its number, ",", "DUT_Result_1,", the level, ",",          *)
(* "DUT_Result_2,", the level, ",", the stimulus, ",", the configuration   *)
(* with its newline, and one more newline.                                 *)
HeaderParts == 5
ResultParts == 12

Whole(e) == e.parts = IF e.kind = "header" THEN HeaderParts ELSE ResultParts

(* One append more of an entry; in a file, of its last one.                *)
OneMore(e)   == [e EXCEPT !.parts = @ + 1]
Continued(f) == [f EXCEPT ![Len(f)] = OneMore(@)]

HeadersOf(f) == {n \in DOMAIN f : f[n].kind = "header"}

(* A result follows its header, or the result before it.                   *)
ResultFollows(f, n) ==
  /\ n - 1 \in DOMAIN f
  /\ f[n].config = f[n - 1].config
  /\ f[n].j = IF f[n - 1].kind = "header" THEN 0 ELSE f[n - 1].j + 1

(* A header follows the row of the number below its own, complete with as  *)
(* many results as there are inputs.                                       *)
HeaderFollows(f, n, inputs) ==
  /\ n - 1 \in DOMAIN f /\ inputs > 0 =>
       f[n - 1].kind = "result" /\ f[n - 1].j >= inputs - 1
  /\ f[n].m # 0 => \E l \in HeadersOf(f) : l < n /\ f[l].m = f[n].m - 1

(* Only the entry written last may lack some of its appends.               *)
CampaignFile(f, inputs) ==
  /\ f \in Seq({f[n] : n \in DOMAIN f})
  /\ \A n \in DOMAIN f :
       \/ f[n].kind = "header" /\ f[n].m \in Nat /\ HeaderFollows(f, n, inputs)
       \/ f[n].kind = "result" /\ f[n].j \in Nat /\ ResultFollows(f, n)
  /\ \A l, n \in HeadersOf(f) : l < n => f[l].m < f[n].m
  /\ \A n \in DOMAIN f : n < Len(f) => Whole(f[n])
=============================================================================
