----------------------------- MODULE MCDMetric -----------------------------
(***************************************************************************)
(* Instances of DMetric for TLC.                                           *)
(***************************************************************************)
EXTENDS DMetric, SequencesExt

Pairs == {"0", "1"} \X {"0", "1"}

(* The block main.c appends for configuration m: its header, and a line    *)
(* for each of the first n stimuli.                                        *)
Block(m, config, response, n) ==
  <<[kind |-> "header", m |-> m, config |-> config, parts |-> HeaderParts]>>
    \o [i \in 1 .. n |-> [kind |-> "result", j |-> i - 1, input |-> <<"0">>,
                          config |-> config, parts |-> ResultParts,
                          v0 |-> response[i][1], v1 |-> response[i][2]]]

(* The file of a campaign that was not stopped.                            *)
Campaign(configs, texts, responses) ==
  FlattenSeq([x \in DOMAIN configs |->
    Block(x - 1, texts[configs[x]], responses[configs[x]], MaxInputs)])

(* Three configurations behind the golden one, out of two, and possibly a  *)
(* fourth that the script does not ask for; the circuits agree on a golden *)
(* stimulus or not.                                                        *)
Configurations ==
  {<<"golden", x, y, z>> : x, y, z \in {"c", "d"}}
    \cup {<<"golden", "c", "golden", "d", "c">>}

Texts == [golden |-> <<"1", "1">>, c |-> <<"0", "1">>, d |-> <<"0", "0">>]

Responses ==
  {[golden |-> <<<<"0", "0">>, pair>>, c |-> c, d |-> d] :
     pair \in {<<"1", "1">>, <<"0", "1">>}, c, d \in [1 .. 2 -> Pairs]}

FewResponses ==
  {r \in Responses : r.d \in {<<<<"1", "1">>, <<"0", "0">>>>, <<<<"0", "0">>, <<"1", "1">>>>}}

CompleteFiles ==
  {Campaign(configs, Texts, r) : configs \in Configurations, r \in Responses}

(* One text begins another: longer stimuli have left a tail behind it.     *)
LongerTexts ==
  {[Texts EXCEPT !.d = @ \o <<"1">>, !.c = <<"0", "0">>],
   [Texts EXCEPT !.c = <<"1", "1", "0">>]}

LongerFiles ==
  {Campaign(configs, texts, r) :
     configs \in Configurations, texts \in LongerTexts, r \in FewResponses}

(* The campaign was stopped between any two appends of a header, and in    *)
(* each part of a result line that may count.                              *)
CutAt(f, n, parts) == [SubSeq(f, 1, n) EXCEPT ![n].parts = parts]

Cuts(e) == IF e.kind = "header" THEN 1 .. HeaderParts ELSE {1, 2, 9, 11, ResultParts}

CutFiles ==
  {<<>>} \cup
  UNION {{CutAt(f, n, parts) : parts \in Cuts(f[n])} :
           f \in {Campaign(<<"golden", "c", "d", "c", "d">>, texts, r) :
                    texts \in {Texts} \cup LongerTexts, r \in FewResponses},
           n \in 1 .. 15}

(* The rows of one configuration need not answer alike, and the campaign   *)
(* may have had a stimulus more than the script asks for.                  *)
LargerFiles ==
  {Block(0, Texts.golden, <<<<"0", "0">>, <<"1", "1">>, <<"0", "0">>>>, 3) \o
     FlattenSeq([x \in 1 .. 3 |->
       Block(x, IF x = 2 THEN Texts.d ELSE Texts.c,
             <<pairs[x], pairs[x + 1], <<"1", "1">>>>, 3)]) :
   pairs \in [1 .. 4 -> Pairs]}

MCFiles == CompleteFiles \cup LongerFiles \cup CutFiles \cup LargerFiles

(* Twelve different configurations, numbered in decimal.                   *)
Binary(x) == [p \in 1 .. 4 |-> IF (x \div 2^(p - 1)) % 2 = 1 THEN "1" ELSE "0"]

TwelveConfigs ==
  {FlattenSeq([x \in 1 .. 12 |-> Block(x - 1, Binary(x), <<<<"0", "0">>>>, 1)])}
=============================================================================
