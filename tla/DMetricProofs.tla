--------------------------- MODULE DMetricProofs ---------------------------
(***************************************************************************)
(* Proofs about DMetric, for every size of the script's lists and every    *)
(* file of one campaign.                                                   *)
(***************************************************************************)
EXTENDS DMetric, FiniteSetTheorems, SequenceTheorems, TLAPS

-----------------------------------------------------------------------------
(* The inductive invariant.                                                *)

Pair == {<<file[n].v0, file[n].v1>> : n \in Results}

Reading == pc \in {"headers", "results"}

Types ==
  /\ file \in Files
  /\ pc \in {"headers", "results", "joint", "metric", "done", "error"}
  /\ at \in Nat \ {0} /\ at <= Len(file) + MaxConfigs
  /\ Reading => at <= Len(file) + 1
  /\ pc \in {"joint", "metric"} => at <= MaxConfigs
  /\ b \in Seq({Text(file[n]) : n \in Headers})
  /\ golden_results \in Seq(Pair) /\ test_results \in [Row -> Seq(Pair)]
  /\ pc = "headers" => golden_results = <<>> /\ \A k \in Row : test_results[k] = <<>>
  /\ \A k \in Row : /\ Len(test_results[k]) <= Len(file)
                    /\ pc = "results" => Len(test_results[k]) < at
  /\ joint_detectability_matrix \in [Row -> Seq(Nat)]
  /\ \A k \in Row : Len(joint_detectability_matrix[k]) <= MaxInputs
  /\ count_JD \in 0 .. MaxConfigs - 1 /\ Joint_detect \in {-1, Patterns - 1}
  /\ Reading \/ pc = "joint" => count_JD = 0 /\ Joint_detect = -1
  /\ pc = "metric" => count_JD < at

HeadersRead == {n \in Headers : pc = "headers" => n < at}

(* Each header that was read put its configuration into the list, where it *)
(* is looked for as long as no number was found twice before; and the rows *)
(* evaluated are configurations of the rows asked for.                     *)
ReachesRow == \A n \in HeadersRead : Len(b) > file[n].m \/ Len(b) >= MaxConfigs

StandsAtNumber ==
  \A n \in HeadersRead :
    file[n].m \in Row /\ file[n].m <= Base => b[file[n].m + 1] = Text(file[n])

NoneTwice ==
  /\ HeadersRead = {} => b = <<>>
  /\ \A n \in HeadersRead :
       /\ file[n].m \in Row /\ file[n].m < Base
       /\ \A l \in HeadersRead : l <= n
       => Len(b) = file[n].m + 1

RowsAskedFor ==
  \A k \in Row : k < Len(b) =>
    \E n \in HeadersRead : file[n].m \in Row /\ b[k + 1] = Text(file[n])

ListSoFar == ReachesRow /\ StandsAtNumber /\ NoneTwice /\ RowsAskedFor

(* A row of results has stimulus i at place i, from the first lines whose  *)
(* configuration begins with the text of the row; a row that is not full   *)
(* is empty, or ends with the line read last, unless that is the last line *)
(* of the file.                                                            *)
Recorded(k) == IF k = 0 THEN golden_results ELSE test_results[k]

ResultsRead == IF pc = "results" THEN at - 1 ELSE Len(file)

InPlace(k) ==
  \A i \in 0 .. MaxInputs - 1 : i < Len(Recorded(k)) =>
    \E n \in FirstOf(b[k + 1], i) : Recorded(k)[i + 1] = <<file[n].v0, file[n].v1>>

Growing(k) ==
  /\ \A n \in Results :
       n <= ResultsRead /\ Begins(file[n].config, b[k + 1]) => file[n].j < Len(Recorded(k))
  /\ Len(Recorded(k)) > 0 /\ ResultsRead < Len(file) =>
       /\ ResultsRead \in Results
       /\ Begins(file[ResultsRead].config, b[k + 1])
       /\ file[ResultsRead].j = Len(Recorded(k)) - 1

RowsSoFar ==
  pc \in {"results", "joint", "metric", "done"} =>
    \A k \in Row : InPlace(k) /\ (Len(Recorded(k)) < MaxInputs => Growing(k))

(* The rows that have been searched were full.                             *)
Searched(k) ==
  CASE pc = "joint" -> k < at
    [] pc \in {"metric", "done"} -> TRUE
    [] OTHER -> FALSE

Full(k) == Len(Recorded(k)) >= MaxInputs

DetectionsSoFar ==
  \A k \in 1 .. MaxConfigs - 1 : Searched(k) =>
    LET row == joint_detectability_matrix[k]
    IN  /\ Full(0) /\ Full(k)
        /\ Len(row) = Cardinality(Detections(b[k + 1]))
        /\ row # <<>> => row[1] = 1

Undetected(n) == {k \in 1 .. n : joint_detectability_matrix[k] = <<>>}

UndetectedSoFar == Undetected(at - 1)

MetricSoFar ==
  Counted =>
    /\ count_JD = Cardinality(UndetectedSoFar)
    /\ Joint_detect = -1 <=> UndetectedSoFar = 1 .. at - 1
    /\ pc = "done" => /\ at = MaxConfigs /\ Joint_detect # -1
                      /\ D_metric = Joint_detect + Patterns * count_JD

IInv ==
  /\ Types /\ ListSoFar /\ RowsSoFar /\ DetectionsSoFar /\ MetricSoFar
  /\ FailsOnlyWhenDiverse

-----------------------------------------------------------------------------
(* The form of the file, line by line.  Only the last one may be cut.      *)
LEMMA FileFacts ==
  ASSUME file \in Files
  PROVE  /\ Len(file) \in Nat /\ DOMAIN file = 1 .. Len(file)
         /\ Headers \subseteq 1 .. Len(file) /\ Results \subseteq 1 .. Len(file)
         /\ Headers \cap Results = {}
         /\ \A n \in 1 .. Len(file) - 1 : n \in Headers \cup Results /\ HasText(file[n])
         /\ \A n \in 1 .. Len(file) :
              file[n].kind \in {"header", "result"} /\ file[n].config # <<>>
         /\ \A n \in Headers : file[n].m \in Nat
         /\ \A n \in Headers : n # 1 /\ MaxInputs > 0 =>
              n - 1 \in Results /\ file[n - 1].j >= MaxInputs - 1
         /\ \A n \in Headers : file[n].m # 0 =>
              \E l \in Headers : l < n /\ file[l].m = file[n].m - 1
         /\ \A n \in Results : file[n].j \in Nat
         /\ \A n \in Results : n - 1 \in Headers \cup Results
         /\ \A n \in Results :
              /\ file[n].config = file[n - 1].config
              /\ n - 1 \in Headers => file[n].j = 0
              /\ n - 1 \in Results => file[n].j = file[n - 1].j + 1
         /\ \A l, n \in Headers : l < n => file[l].m < file[n].m
<1>1. CampaignFile(file, MaxInputs) /\ \A n \in DOMAIN file : file[n].config # <<>>
  BY FilesAssumption
<1>2. Len(file) \in Nat /\ DOMAIN file = 1 .. Len(file)
  <2> PICK S : file \in Seq(S)
    BY <1>1 DEF CampaignFile
  <2> QED
    OBVIOUS
<1>3. \A n \in DOMAIN file :
        \/ file[n].kind = "header" /\ file[n].m \in Nat /\ HeaderFollows(file, n, MaxInputs)
        \/ file[n].kind = "result" /\ file[n].j \in Nat /\ ResultFollows(file, n)
  BY <1>1, Zenon DEF CampaignFile
<1>4. /\ Headers \subseteq DOMAIN file /\ Results \subseteq DOMAIN file
      /\ \A n \in Headers : file[n].kind = "header"
      /\ \A n \in Results : file[n].kind = "result"
  BY DEF Headers, IsHeader, Results
<1>5. \A n \in 1 .. Len(file) - 1 : n \in Headers \cup Results /\ HasText(file[n])
  <2>1. \A n \in DOMAIN file : n < Len(file) => Whole(file[n])
    BY <1>1, Zenon DEF CampaignFile
  <2> QED
    BY <1>2, <1>3, <2>1
       DEF Headers, Results, IsHeader, HasText, Whole, HeaderParts, ResultParts
<1>6. \A l, n \in Headers : l < n => file[l].m < file[n].m
  <2>1. \A l, n \in HeadersOf(file) : l < n => file[l].m < file[n].m
    BY <1>1, Zenon DEF CampaignFile
  <2> QED
    BY <1>4, <2>1 DEF HeadersOf
<1>7. ASSUME NEW n \in Headers
      PROVE  /\ n # 1 /\ MaxInputs > 0 =>
                  n - 1 \in Results /\ file[n - 1].j >= MaxInputs - 1
             /\ file[n].m # 0 => \E l \in Headers : l < n /\ file[l].m = file[n].m - 1
  <2>1. n \in 1 .. Len(file) /\ HeaderFollows(file, n, MaxInputs)
    BY <1>2, <1>3, <1>4
  <2>2. ASSUME n # 1, MaxInputs > 0
        PROVE  n - 1 \in Results /\ file[n - 1].j >= MaxInputs - 1
    <3>1. n - 1 \in 1 .. Len(file) - 1 /\ n - 1 \in DOMAIN file
      BY <1>2, <2>1, <2>2
    <3>2. file[n - 1].kind = "result" /\ file[n - 1].j >= MaxInputs - 1
      BY <2>1, <2>2, <3>1 DEF HeaderFollows
    <3>3. n - 1 \in Headers \cup Results
      BY <1>5, <3>1
    <3>4. n - 1 \notin Headers
      BY <1>4, <3>2
    <3> QED
      BY <3>2, <3>3, <3>4
  <2>3. ASSUME file[n].m # 0
        PROVE  \E l \in Headers : l < n /\ file[l].m = file[n].m - 1
    <3>1. PICK l \in HeadersOf(file) : l < n /\ file[l].m = file[n].m - 1
      BY <2>1, <2>3 DEF HeaderFollows
    <3>2. l \in 1 .. Len(file) - 1 /\ file[l].kind = "header"
      BY <1>2, <2>1, <3>1 DEF HeadersOf
    <3> QED
      BY <1>4, <1>5, <3>1, <3>2
  <2> QED
    BY <2>2, <2>3
<1>8. ASSUME NEW n \in Results
      PROVE  /\ n - 1 \in Headers \cup Results
             /\ file[n].config = file[n - 1].config
             /\ n - 1 \in Headers => file[n].j = 0
             /\ n - 1 \in Results => file[n].j = file[n - 1].j + 1
  <2>1. n \in 1 .. Len(file) /\ ResultFollows(file, n)
    BY <1>2, <1>3, <1>4
  <2>2. n - 1 \in 1 .. Len(file) - 1
    BY <1>2, <2>1 DEF ResultFollows
  <2> QED
    BY <1>4, <1>5, <2>1, <2>2 DEF ResultFollows
<1>9. \A n \in Headers : file[n].m \in Nat
  BY <1>3, <1>4
<1>10. \A n \in Results : file[n].j \in Nat
  BY <1>3, <1>4
<1>11. Headers \cap Results = {}
  BY <1>4
<1> QED
  BY <1>1, <1>2, <1>3, <1>4, <1>5, <1>6, <1>7, <1>8, <1>9, <1>10, <1>11

(* What is needed most of it.                                              *)
LEMMA FileLines ==
  ASSUME file \in Files
  PROVE  /\ Len(file) \in Nat /\ DOMAIN file = 1 .. Len(file)
         /\ \A n \in Headers : n \in 1 .. Len(file) /\ file[n].m \in Nat
         /\ \A n \in Results : n \in 1 .. Len(file) /\ file[n].j \in Nat
         /\ \A n \in Results : n # 1
<1>1. \A n \in Results : n - 1 \in 1 .. Len(file)
  BY FileFacts
<1>2. \A n \in Results : n # 1
  BY <1>1
<1> QED
  BY <1>2, FileFacts

LEMMA HeaderOrder ==
  ASSUME file \in Files, NEW l \in Headers, NEW n \in Headers, l < n
  PROVE  file[l].m < file[n].m
BY FileFacts

(* Two headers with one number are one.                                    *)
LEMMA ConfigOfHeader ==
  ASSUME file \in Files, NEW n \in Headers
  PROVE  ConfigOf(file[n].m) = Text(file[n])
<1> DEFINE c == CHOOSE h \in Headers : file[h].m = file[n].m
<1>1. c \in Headers /\ file[c].m = file[n].m
  OBVIOUS
<1>2. c = n
  BY <1>1, FileFacts
<1> QED
  BY <1>2 DEF ConfigOf

(* A number is found in its own header, and in those of greater numbers.   *)
LEMMA Remainder ==
  ASSUME NEW n \in Nat, NEW d \in Nat \ {0}
  PROVE  n % d \in Nat /\ n % d <= n /\ (n < d => n % d = n)
OBVIOUS

LEMMA FoundNumbers ==
  ASSUME NEW n \in Nat
  PROVE  /\ Found(n) \subseteq Row
         /\ \A x \in Found(n) : x <= n
         /\ n \in Row => n \in Found(n)
         /\ n \in Row /\ n < Base => Found(n) = {n}
<1>1. /\ Base \in Nat /\ Base > 1 /\ Base * Base \in Nat
      /\ Base * Base * Base \in Nat /\ Base * Base >= Base
      /\ Base * Base * Base >= Base * Base
  <2>1. Base \in Nat /\ Base > 1
    BY SizesAssumption
  <2>2. ASSUME NEW k \in Nat, k > 0
        PROVE  k * Base \in Nat /\ k * Base >= k
    BY <2>1, <2>2
  <2>3. Base * Base \in Nat /\ Base * Base >= Base
    BY <2>1, <2>2
  <2> QED
    BY <2>1, <2>2, <2>3
<1>2. ASSUME NEW unit \in {1, Base, Base * Base}
      PROVE  /\ unit * Base \in Nat \ {0} /\ unit * Base >= Base
             /\ n % (unit * Base) \in Nat /\ n % (unit * Base) <= n
             /\ n < unit * Base => n % (unit * Base) = n
  <2>1. unit * Base \in Nat \ {0} /\ unit * Base >= Base
    BY <1>1
  <2> QED
    BY <2>1, Remainder
<1>3. ASSUME NEW x \in Found(n)
      PROVE  x \in Row /\ x <= n /\ (n < Base => x = n)
  <2>1. PICK unit \in {1, Base, Base * Base} : x = n % (unit * Base)
    BY DEF Found, NumberIn
  <2> QED
    BY <1>1, <1>2, <2>1 DEF Found
<1>4. ASSUME n \in Row
      PROVE  n \in Found(n)
  <2>0. n < Base * Base * Base
    BY <1>1, <1>4, SizesAssumption DEF Row
  <2>1. CASE n < Base
    BY <1>1, <1>2, <1>4, <2>1 DEF Found, NumberIn
  <2>2. CASE n >= Base /\ n < Base * Base
    BY <1>1, <1>2, <1>4, <2>2 DEF Found, NumberIn
  <2>3. CASE n >= Base * Base
    BY <1>1, <1>2, <1>4, <2>0, <2>3 DEF Found, NumberIn
  <2> QED
    BY <1>1, <2>1, <2>2, <2>3
<1> QED
  BY <1>3, <1>4

(* How many they are.                                                      *)
LEMMA FoundCount ==
  ASSUME NEW n \in Nat
  PROVE  /\ Cardinality(Found(n)) \in Nat
         /\ n \in Row => Cardinality(Found(n)) > 0
         /\ n \in Row /\ n < Base => Cardinality(Found(n)) = 1
         /\ \A x \in Found(n) : Cardinality({y \in Found(n) : y <= x}) \in Nat \ {0}
<1>1. IsFiniteSet(Row)
  BY SizesAssumption, FS_Interval DEF Row
<1>2. Found(n) \subseteq Row
  BY FoundNumbers
<1>3. IsFiniteSet(Found(n)) /\ Cardinality(Found(n)) \in Nat
  BY <1>1, <1>2, FS_Subset, FS_CardinalityType
<1>4. ASSUME NEW T \in SUBSET Found(n), NEW x \in T
      PROVE  Cardinality(T) \in Nat \ {0}
  <2>1. IsFiniteSet(T)
    BY <1>3, FS_Subset
  <2> QED
    BY <2>1, FS_CardinalityType, FS_EmptySet
<1>5. n \in Row => Cardinality(Found(n)) > 0
  BY <1>4, FoundNumbers
<1>6. n \in Row /\ n < Base => Cardinality(Found(n)) = 1
  BY FoundNumbers, FS_Singleton
<1>7. ASSUME NEW x \in Found(n)
      PROVE  Cardinality({y \in Found(n) : y <= x}) \in Nat \ {0}
  <2>1. x \in {y \in Found(n) : y <= x}
    BY <1>2, SizesAssumption DEF Row
  <2> QED
    BY <1>4, <2>1
<1> QED
  BY <1>3, <1>5, <1>6, <1>7

-----------------------------------------------------------------------------
(* The first pass.                                                         *)

(* When header m is reached the list has at least m entries, or all that   *)
(* are asked for; and exactly m as long as no number was found twice.      *)
LEMMA ListAtHeader ==
  ASSUME Types, ListSoFar, pc = "headers", NEW n, n = at, n \in Headers
  PROVE  /\ Len(b) \in Nat /\ file[n].m \in Nat
         /\ Len(b) >= file[n].m \/ Len(b) >= MaxConfigs
         /\ file[n].m \notin Row => Len(b) >= MaxConfigs
         /\ file[n].m \in Row /\ file[n].m <= Base => Len(b) = file[n].m
<1>1. /\ file \in Files /\ Len(b) \in Nat /\ file[n].m \in Nat /\ at \in Nat
      /\ MaxConfigs \in Nat /\ MaxConfigs > 1 /\ Base \in Nat
      /\ HeadersRead = {l \in Headers : l < n}
  <2>1. file \in Files /\ at \in Nat /\ Len(b) \in Nat
    BY DEF Types
  <2> QED
    BY <2>1, FileFacts, SizesAssumption DEF HeadersRead
<1>2. CASE file[n].m = 0
  <2>1. ASSUME NEW l \in Headers, l < n
        PROVE  FALSE
    BY <1>1, <1>2, <2>1, FileFacts
  <2>2. b = <<>> /\ Len(b) = 0
    BY <1>1, <2>1 DEF ListSoFar, NoneTwice
  <2> QED
    BY <1>1, <1>2, <2>2 DEF Row
<1>3. CASE file[n].m # 0
  <2>1. PICK l \in Headers : l < n /\ file[l].m = file[n].m - 1
    BY <1>1, <1>3, FileFacts
  <2>2. l \in HeadersRead /\ file[l].m \in Nat
    BY <1>1, <2>1, FileFacts
  <2>3. Len(b) > file[l].m \/ Len(b) >= MaxConfigs
    BY <2>2 DEF ListSoFar, ReachesRow
  <2>4. ASSUME NEW h \in HeadersRead
        PROVE  h <= l
    <3>1. h \in Headers /\ h < n
      BY <1>1, <2>4
    <3>2. /\ h \in Nat /\ l \in Nat /\ file[h].m \in Nat /\ file[l].m \in Nat
          /\ file[h].m < file[n].m
      BY <1>1, <3>1, FileLines, HeaderOrder
    <3>3. l < h => file[l].m < file[h].m
      BY <1>1, <3>1, HeaderOrder
    <3> QED
      BY <1>1, <2>1, <3>2, <3>3
  <2>5. file[l].m \in Row /\ file[l].m < Base => Len(b) = file[l].m + 1
    BY <2>2, <2>4 DEF ListSoFar, NoneTwice
  <2> QED
    BY <1>1, <1>3, <2>1, <2>2, <2>3, <2>5 DEF Row
<1> QED
  BY <1>2, <1>3

(* b[x] is there when it is printed.                                       *)
LEMMA NoErrorAtHeader ==
  ASSUME Types, ListSoFar, pc = "headers", NEW n, n = at, n \in Headers,
         NEW x \in Found(file[n].m)
  PROVE  ~(x + 1 > Len(b) + Cardinality({y \in Found(file[n].m) : y <= x}))
<1>1. /\ Len(b) \in Nat /\ file[n].m \in Nat
      /\ Len(b) >= file[n].m \/ Len(b) >= MaxConfigs
  BY ListAtHeader
<1>2. x \in Row /\ x <= file[n].m
  BY <1>1, FoundNumbers
<1>3. Cardinality({y \in Found(file[n].m) : y <= x}) \in Nat \ {0}
  BY <1>1, FoundCount
<1> QED
  BY <1>1, <1>2, <1>3, SizesAssumption DEF Row

(* A header puts its text behind the list, once for each number.           *)
Lengthened(n, k) == b' = b \o [i \in 1 .. k |-> Text(file[n])]

LEMMA ListExtended ==
  ASSUME Types, NEW n, n \in Headers, NEW k \in Nat, Lengthened(n, k)
  PROVE  /\ b' \in Seq({Text(file[h]) : h \in Headers})
         /\ Len(b') = Len(b) + k
         /\ \A i \in 1 .. Len(b) : b'[i] = b[i]
         /\ \A i \in Len(b) + 1 .. Len(b) + k : b'[i] = Text(file[n])
<1>1. PICK s, c, f, S : /\ s = b /\ c = Text(file[n])
                       /\ f = [i \in 1 .. k |-> c]
                       /\ S = {Text(file[h]) : h \in Headers}
  OBVIOUS
<1>2. s \in Seq(S) /\ c \in S /\ b' = s \o f
  BY <1>1, Zenon DEF Types, Lengthened
<1>3. f \in Seq(S) /\ Len(f) = k /\ \A i \in 1 .. k : f[i] = c
  <2>1. f = [i \in 1 .. k |-> c]
    BY <1>1
  <2> QED
    BY <1>2, <2>1
<1>4. PICK t : t = s \o f
  OBVIOUS
<1>5. /\ s \o f \in Seq(S) /\ Len(s \o f) = Len(s) + Len(f)
      /\ \A i \in 1 .. Len(s) + Len(f) :
            (s \o f)[i] = IF i <= Len(s) THEN s[i] ELSE f[i - Len(s)]
  BY <1>2, <1>3, ConcatProperties, Zenon
<1>6. Len(s) \in Nat
  BY <1>2
<1>7. /\ t \in Seq(S) /\ Len(t) = Len(s) + k
      /\ \A i \in 1 .. Len(s) + k : t[i] = IF i <= Len(s) THEN s[i] ELSE f[i - Len(s)]
  BY <1>3, <1>4, <1>5
<1>8. ASSUME NEW i \in 1 .. Len(s)
      PROVE  t[i] = s[i]
  BY <1>6, <1>7
<1>9. ASSUME NEW i \in Len(s) + 1 .. Len(s) + k
      PROVE  t[i] = c
  <2>1. i \in 1 .. Len(s) + k /\ ~(i <= Len(s)) /\ i - Len(s) \in 1 .. k
    BY <1>6
  <2> QED
    BY <1>3, <1>7, <2>1
<1>10. b' = t
  BY <1>2, <1>4
<1> QED
  BY <1>1, <1>7, <1>8, <1>9, <1>10

(* The list after a header.                                                *)
LEMMA ListStep ==
  ASSUME Types, ListSoFar, pc = "headers", pc' = "headers", file' = file,
         NEW n, n = at, n \in Headers, at' = at + 1,
         NEW k \in Nat, k = Cardinality(Found(file[n].m)),
         Len(b') = Len(b) + k,
         \A i \in 1 .. Len(b) : b'[i] = b[i],
         \A i \in Len(b) + 1 .. Len(b) + k : b'[i] = Text(file[n])
  PROVE  ListSoFar'
<1> DEFINE m0 == file[n].m
<1>1. /\ file \in Files /\ at \in Nat /\ m0 \in Nat /\ Len(b) \in Nat
      /\ MaxConfigs \in Nat /\ MaxConfigs > 1 /\ Base \in Nat
      /\ Len(b) >= m0 \/ Len(b) >= MaxConfigs
      /\ m0 \notin Row => Len(b) >= MaxConfigs
      /\ m0 \in Row /\ m0 <= Base => Len(b) = m0
  BY ListAtHeader, SizesAssumption DEF Types
<1>2. /\ m0 \in Row => k > 0
      /\ m0 \in Row /\ m0 < Base => k = 1
  BY <1>1, FoundCount
<1>3. /\ HeadersRead' = HeadersRead \cup {n}
      /\ \A h \in HeadersRead : h \in Headers /\ h < n /\ file[h].m \in Nat /\ file[h].m < m0
      /\ Headers' = Headers
  <2>1. Headers' = Headers
    BY DEF Headers
  <2>2. \A h \in Headers : h \in Nat
    BY <1>1, FileFacts
  <2>3. HeadersRead' = {h \in Headers : h < n + 1} /\ HeadersRead = {h \in Headers : h < n}
    BY <2>1 DEF HeadersRead
  <2> QED
    BY <1>1, <2>1, <2>2, <2>3, FileFacts
<1> HIDE DEF m0
<1>4. ReachesRow'
  <2>1. ASSUME NEW h \in HeadersRead
        PROVE  Len(b') > file[h].m \/ Len(b') >= MaxConfigs
    BY <1>1, <1>3, <2>1 DEF ListSoFar, ReachesRow
  <2>2. Len(b') > m0 \/ Len(b') >= MaxConfigs
    BY <1>1, <1>2
  <2> QED
    BY <1>3, <2>1, <2>2 DEF ReachesRow, m0
<1>5. StandsAtNumber'
  <2>1. ASSUME NEW h \in HeadersRead, file[h].m \in Row, file[h].m <= Base
        PROVE  b'[file[h].m + 1] = Text(file[h])
    <3>1. b[file[h].m + 1] = Text(file[h])
      BY <2>1 DEF ListSoFar, StandsAtNumber
    <3>2. Len(b) > file[h].m \/ Len(b) >= MaxConfigs
      BY DEF ListSoFar, ReachesRow
    <3>3. file[h].m + 1 \in 1 .. Len(b)
      <4>1. file[h].m \in Nat /\ file[h].m < MaxConfigs
        BY <1>1, <1>3, <2>1 DEF Row
      <4>2. Len(b) \in Nat /\ MaxConfigs \in Nat
        BY <1>1
      <4> QED
        BY <3>2, <4>1, <4>2
    <3> QED
      BY <3>1, <3>3
  <2>2. ASSUME m0 \in Row, m0 <= Base
        PROVE  b'[m0 + 1] = Text(file[n])
    BY <1>1, <1>2, <2>2
  <2> QED
    BY <1>3, <2>1, <2>2 DEF StandsAtNumber, m0
<1>6. NoneTwice'
  <2>1. ASSUME NEW h \in HeadersRead', \A l \in HeadersRead' : l <= h,
               file[h].m \in Row, file[h].m < Base
        PROVE  Len(b') = file[h].m + 1
    <3>1. h = n
      <4>1. n \in HeadersRead' /\ h \in HeadersRead \cup {n} /\ n \in Nat
        BY <1>1, <1>3, <2>1
      <4>2. n <= h
        BY <2>1, <4>1
      <4>3. h \in Headers /\ h \in Nat /\ (h # n => h < n)
        BY <1>1, <1>3, <4>1, FileFacts
      <4> QED
        BY <4>1, <4>2, <4>3
    <3> QED
      BY <1>1, <1>2, <2>1, <3>1 DEF m0
  <2> QED
    BY <1>3, <2>1 DEF NoneTwice
<1>7. RowsAskedFor'
  <2>1. ASSUME NEW i \in Row, i < Len(b')
        PROVE  \E h \in HeadersRead' : file[h].m \in Row /\ b'[i + 1] = Text(file[h])
    <3>1. CASE i < Len(b)
      <4>1. PICK h \in HeadersRead : file[h].m \in Row /\ b[i + 1] = Text(file[h])
        BY <2>1, <3>1 DEF ListSoFar, RowsAskedFor
      <4>2. i + 1 \in 1 .. Len(b)
        BY <1>1, <3>1 DEF Row
      <4> QED
        BY <1>3, <4>1, <4>2
    <3>2. CASE i >= Len(b)
      <4>1. m0 \in Row
        BY <1>1, <3>2 DEF Row
      <4>2. i + 1 \in Len(b) + 1 .. Len(b) + k
        BY <1>1, <2>1, <3>2 DEF Row
      <4> QED
        BY <1>3, <4>1, <4>2 DEF m0
    <3> QED
      BY <1>1, <3>1, <3>2 DEF Row
  <2> QED
    BY <2>1 DEF RowsAskedFor
<1> QED
  BY <1>4, <1>5, <1>6, <1>7 DEF ListSoFar

(* What a step leaves that leaves the file, the list, the rows.            *)
LEMMA SameFile ==
  ASSUME file' = file
  PROVE  Headers' = Headers /\ Results' = Results /\ Pair' = Pair
BY DEF Headers, Results, Pair

LEMMA SameList ==
  ASSUME ListSoFar, file' = file, b' = b, HeadersRead' = HeadersRead
  PROVE  ListSoFar'
BY DEF ListSoFar, ReachesRow, StandsAtNumber, NoneTwice, RowsAskedFor

LEMMA ListAfterwards ==
  ASSUME ListSoFar, file' = file, b' = b, pc # "headers", pc' # "headers"
  PROVE  ListSoFar'
<1>1. HeadersRead' = HeadersRead
  BY SameFile DEF HeadersRead
<1> QED
  BY <1>1, SameList

(* A header is read.                                                       *)
LEMMA HeaderLineStep ==
  ASSUME IInv, ReadHeader, NEW n, n = at, n \in Headers
  PROVE  IInv'
<1>0. Types /\ ListSoFar /\ file \in Files /\ file[n].m \in Nat
  BY FileFacts DEF IInv, Types
<1>1. /\ pc = "headers" /\ at' = at + 1 /\ at <= Len(file)
      /\ UNCHANGED <<file, resultVars, joint_detectability_matrix, metricVars>>
      /\ b' = b \o [i \in 1 .. Cardinality(Found(file[n].m)) |-> Text(file[n])]
      /\ pc' = IF \E x \in Found(file[n].m) :
                    x + 1 > Len(b) + Cardinality({y \in Found(file[n].m) : y <= x})
                 THEN "error" ELSE pc
  BY DEF ReadHeader, Headers
<1>2. pc' = "headers"
  BY <1>0, <1>1, NoErrorAtHeader
<1>3. PICK k \in Nat : k = Cardinality(Found(file[n].m))
  BY <1>0, FoundCount
<1>4. Lengthened(n, k)
  BY <1>1, <1>3, Zenon DEF Lengthened
<1>5. /\ b' \in Seq({Text(file[h]) : h \in Headers})
      /\ Len(b') = Len(b) + k
      /\ \A i \in 1 .. Len(b) : b'[i] = b[i]
      /\ \A i \in Len(b) + 1 .. Len(b) + k : b'[i] = Text(file[n])
  BY <1>0, <1>4, ListExtended
<1>6. /\ pc = "headers" /\ at' = at + 1 /\ at <= Len(file)
      /\ UNCHANGED <<file, golden_results, test_results, joint_detectability_matrix,
                     count_JD, Joint_detect>>
  BY <1>1 DEF resultVars, metricVars
<1>7. ListSoFar'
  BY <1>0, <1>2, <1>3, <1>5, <1>6, ListStep
<1>8. Types'
  <2>1. Len(file) \in Nat /\ MaxConfigs \in Nat /\ MaxConfigs > 0
    BY <1>0, FileFacts, SizesAssumption
  <2>2. b' \in Seq({Text(file'[h]) : h \in Headers'})
    BY <1>5, <1>6, SameFile
  <2> QED
    BY <1>0, <1>2, <1>6, <2>1, <2>2, SameFile DEF Types, Reading
<1> QED
  BY <1>2, <1>7, <1>8
     DEF IInv, RowsSoFar, DetectionsSoFar, Searched, MetricSoFar, Counted,
         FailsOnlyWhenDiverse

(* A line of the first pass that is no header is passed by.                *)
LEMMA ReadHeaderStep ==
  ASSUME IInv, ReadHeader
  PROVE  IInv'
<1>1. CASE at \in Headers
  BY <1>1, HeaderLineStep
<1>2. CASE at \notin Headers
  <2>1. Types /\ ListSoFar /\ file \in Files
    BY DEF IInv, Types
  <2>2. Len(file) \in Nat /\ DOMAIN file = 1 .. Len(file) /\ at \in Nat \ {0}
    BY <2>1, FileFacts DEF Types
  <2>3. at \in DOMAIN file
    BY <2>2 DEF ReadHeader
  <2>4. /\ pc = "headers" /\ pc' = "headers" /\ at' = at + 1 /\ at <= Len(file)
        /\ UNCHANGED <<file, b, golden_results, test_results,
                       joint_detectability_matrix, count_JD, Joint_detect>>
    BY <1>2, <2>3 DEF ReadHeader, resultVars, metricVars, Headers
  <2>5. HeadersRead' = HeadersRead
    <3>1. \A h \in Headers : h \in Nat /\ h # at
      BY <1>2, <2>1, FileFacts
    <3> QED
      BY <2>2, <2>4, <3>1, SameFile DEF HeadersRead
  <2>6. ListSoFar'
    BY <2>1, <2>4, <2>5, SameList
  <2>7. Types'
    BY <2>1, <2>2, <2>4, SizesAssumption, SameFile DEF Types, Reading
  <2> QED
    BY <2>4, <2>6, <2>7
       DEF IInv, RowsSoFar, DetectionsSoFar, Searched, MetricSoFar, Counted,
           FailsOnlyWhenDiverse
<1> QED
  BY <1>1, <1>2

(* At the end of the first pass the rows of the results are empty.         *)
LEMMA SecondPassStep ==
  ASSUME IInv, SecondPass
  PROVE  IInv'
<1>1. Types /\ ListSoFar /\ file \in Files
  BY DEF IInv, Types
<1>2. /\ pc = "headers" /\ pc' = "results" /\ at > Len(file) /\ at' = 1
      /\ UNCHANGED <<file, b, golden_results, test_results,
                     joint_detectability_matrix, count_JD, Joint_detect>>
  BY DEF SecondPass, resultVars, metricVars
<1>3. Len(file) \in Nat /\ at \in Nat
  BY <1>1, FileFacts DEF Types
<1>4. HeadersRead' = HeadersRead
  <2>1. \A h \in Headers : h \in Nat /\ h < at
    BY <1>1, <1>2, <1>3, FileFacts
  <2> QED
    BY <1>2, <2>1, SameFile DEF HeadersRead
<1>5. ListSoFar'
  BY <1>1, <1>2, <1>4, SameList
<1>6. golden_results = <<>> /\ \A k \in Row : test_results[k] = <<>>
  BY <1>1, <1>2 DEF Types
<1>7. Types'
  <2>1. \A k \in Row : Len(test_results[k]) = 0
    BY <1>6
  <2> QED
    BY <1>1, <1>2, <1>3, <1>6, <2>1, SizesAssumption, SameFile DEF Types, Reading
<1>8. RowsSoFar'
  <2>1. ASSUME NEW k \in Row
        PROVE  Len(Recorded(k)') = 0
    BY <1>2, <1>6, <2>1 DEF Recorded
  <2>2. ASSUME NEW k \in Row
        PROVE  InPlace(k)'
    BY <2>1 DEF InPlace
  <2>3. ASSUME NEW k \in Row
        PROVE  Growing(k)'
    <3>1. ResultsRead' = 0
      BY <1>2 DEF ResultsRead
    <3>2. \A n \in Results' : n \in Nat \ {0}
      BY <1>1, <1>2, <1>3, FileFacts, SameFile
    <3> QED
      BY <2>1, <3>1, <3>2 DEF Growing
  <2> QED
    BY <2>2, <2>3 DEF RowsSoFar
<1> QED
  BY <1>2, <1>5, <1>7, <1>8
     DEF IInv, DetectionsSoFar, Searched, MetricSoFar, Counted, FailsOnlyWhenDiverse

-----------------------------------------------------------------------------
(* The second pass.                                                        *)

(* The list is long enough when the file is complete.                      *)
LEMMA CompleteList ==
  ASSUME Types, ListSoFar, pc # "headers", Complete
  PROVE  Len(b) >= MaxConfigs
<1>1. /\ MaxConfigs - 1 \in Row /\ MaxConfigs \in Nat /\ Len(b) \in Nat
  BY SizesAssumption DEF Types, Row
<1>2. PICK n \in Headers : file[n].m = MaxConfigs - 1
  BY <1>1 DEF Complete
<1>3. n \in HeadersRead
  BY DEF HeadersRead
<1> QED
  BY <1>1, <1>2, <1>3 DEF ListSoFar, ReachesRow

(* A line that a row is looked for in is a result line whose configuration *)
(* begins with the text of the row: where a text is empty, the header it   *)
(* comes from is the last line, and no other one is cut.                   *)
LEMMA LinesNamed ==
  ASSUME Types, NEW k \in Row, k < Len(b), NEW n \in DOMAIN file
  PROVE  Names(file[n], k) <=> n \in Results /\ Begins(file[n].config, b[k + 1])
<1>1. file \in Files /\ Len(file) \in Nat /\ DOMAIN file = 1 .. Len(file)
  BY FileFacts DEF Types
<1>2. PICK h \in Headers : b[k + 1] = Text(file[h])
  <2>1. b \in Seq({Text(file[l]) : l \in Headers}) /\ k + 1 \in 1 .. Len(b)
    BY SizesAssumption DEF Types, Row
  <2> QED
    BY <2>1
<1>3. h \in DOMAIN file /\ IsHeader(file[h])
  BY DEF Headers
<1>4. CASE b[k + 1] = <<>>
  <2>1. ~HasText(file[h])
    BY <1>1, <1>2, <1>3, <1>4, FileFacts DEF Text
  <2>2. h = Len(file)
    <3>1. h \notin 1 .. Len(file) - 1
      BY <1>1, <2>1, FileFacts
    <3> QED
      BY <1>1, <1>3, <3>1
  <2>3. n \in Headers \cup Results
    <3>1. n # h => n \in 1 .. Len(file) - 1
      BY <1>1, <2>2
    <3> QED
      BY <1>1, <3>1, FileFacts
  <2>4. Begins(file[n].config, <<>>) /\ \A text : text = <<>> => Begins(text, <<>>)
    <3>1. \A text : Begins(text, <<>>) <=> 0 <= Len(text)
      BY DEF Begins
    <3> QED
      BY <1>1, <3>1, FileFacts
  <2> QED
    BY <1>4, <2>3, <2>4 DEF Names, Behind, Headers, IsHeader, Results
<1>5. CASE b[k + 1] # <<>>
  <2>1. b[k + 1] = file[h].config
    BY <1>2, <1>5 DEF Text
  <2>2. file[n].kind = "result" => ~Begins(file[n].input, b[k + 1])
    BY <1>1, <1>3, <2>1, FilesAssumption
  <2>3. ~Begins(<<>>, b[k + 1])
    <3>1. b[k + 1] \in Seq(STRING)
      BY <1>1, <1>3, <2>1, FilesAssumption
    <3>2. Len(b[k + 1]) \in Nat \ {0}
      BY <1>5, <3>1
    <3> QED
      BY <3>2 DEF Begins
  <2> QED
    BY <1>1, <2>2, <2>3, FileFacts DEF Names, Behind, Results
<1> QED
  BY <1>4, <1>5

(* A line that is not one of a row leaves it.                              *)
LEMMA RowKept ==
  ASSUME Types, NEW k \in Row, k < Len(b),
         pc = "results", pc' = "results", at <= Len(file),
         at' = at + 1, file' = file, b' = b,
         Recorded(k)' = Recorded(k), ~Names(file[at], k),
         Len(Recorded(k)) \in Nat,
         InPlace(k), Len(Recorded(k)) < MaxInputs => Growing(k)
  PROVE  InPlace(k)' /\ (Len(Recorded(k)') < MaxInputs => Growing(k)')
<1>1. /\ file \in Files /\ at \in Nat \ {0} /\ Len(file) \in Nat /\ MaxInputs \in Nat
      /\ ResultsRead = at - 1 /\ ResultsRead' = at /\ at \in DOMAIN file
  BY FileFacts, SizesAssumption DEF Types, ResultsRead
<1>2. InPlace(k)'
  BY DEF InPlace, FirstOf, LinesOf, Results
<1>3. ASSUME Len(Recorded(k)) < MaxInputs
      PROVE  Growing(k)'
  <2>1. \A n \in Results : n <= at - 1 /\ Begins(file[n].config, b[k + 1])
                             => file[n].j < Len(Recorded(k))
    BY <1>1, <1>3 DEF Growing
  <2>2. at \in Results => ~Begins(file[at].config, b[k + 1])
    BY <1>1, LinesNamed
  <2>3. \A n \in Results : n \in Nat
    BY <1>1, FileFacts
  <2>4. \A n \in Results : n <= at /\ Begins(file[n].config, b[k + 1])
                             => file[n].j < Len(Recorded(k))
    BY <1>1, <2>1, <2>2, <2>3
  <2>5. at < Len(file) => Len(Recorded(k)) = 0
    <3>1. SUFFICES ASSUME at < Len(file), Len(Recorded(k)) > 0
                   PROVE  FALSE
      OBVIOUS
    <3>2. /\ at - 1 \in Results /\ Begins(file[at - 1].config, b[k + 1])
          /\ file[at - 1].j = Len(Recorded(k)) - 1
      BY <1>1, <1>3, <3>1 DEF Growing
    <3>3. CASE at \in Headers
      <4>1. at # 1
        BY <1>1, <3>2, FileFacts
      <4>2. MaxInputs > 0 => file[at - 1].j >= MaxInputs - 1
        BY <1>1, <3>3, <4>1, FileFacts
      <4> QED
        BY <1>1, <1>3, <3>2, <4>2
    <3>4. CASE at \in Results
      <4>1. file[at].config = file[at - 1].config
        BY <1>1, <3>4, FileFacts
      <4> QED
        BY <2>2, <3>2, <3>4, <4>1
    <3> QED
      BY <1>1, <3>1, <3>3, <3>4, FileFacts
  <2> QED
    BY <1>1, <2>4, <2>5, SameFile DEF Growing
<1> QED
  BY <1>2, <1>3

(* A line that has it is recorded at the place of its stimulus, unless the *)
(* row is full.                                                            *)
LEMMA RowGrows ==
  ASSUME Types, NEW k \in Row, k < Len(b),
         pc = "results", pc' = "results", at <= Len(file),
         at' = at + 1, file' = file, b' = b,
         Recorded(k) \in Seq(Pair),
         Recorded(k)' = Append(Recorded(k), <<file[at].v0, file[at].v1>>),
         Names(file[at], k),
         InPlace(k), Len(Recorded(k)) < MaxInputs => Growing(k)
  PROVE  InPlace(k)' /\ (Len(Recorded(k)') < MaxInputs => Growing(k)')
<1>1. /\ file \in Files /\ at \in Nat \ {0} /\ Len(file) \in Nat /\ MaxInputs \in Nat
      /\ ResultsRead = at - 1 /\ ResultsRead' = at /\ at \in DOMAIN file
  BY FileFacts, SizesAssumption DEF Types, ResultsRead
<1>2. PICK n : n = at
  OBVIOUS
<1>3. n \in Results /\ Begins(file[n].config, b[k + 1]) /\ file[n].j \in Nat /\ n \in Nat
  BY <1>1, <1>2, LinesNamed, FileFacts
<1>4. PICK r, s, p : r = Recorded(k) /\ s = Recorded(k)' /\ p = <<file[n].v0, file[n].v1>>
  OBVIOUS
<1>5. /\ Len(r) \in Nat /\ Len(s) = Len(r) + 1 /\ s[Len(r) + 1] = p
      /\ \A i \in 1 .. Len(r) : s[i] = r[i]
  <2>1. r \in Seq(Pair) /\ s = Append(r, p)
    BY <1>2, <1>4
  <2>2. p \in Pair
    BY <1>3, <1>4 DEF Pair
  <2> QED
    BY <2>1, <2>2
<1>6. ASSUME Len(r) < MaxInputs
      PROVE  /\ file[n].j = Len(r)
             /\ \A l \in Results : l < n /\ Begins(file[l].config, b[k + 1]) => file[l].j < Len(r)
  <2>1. \A l \in Results : l <= n - 1 /\ Begins(file[l].config, b[k + 1]) => file[l].j < Len(r)
    BY <1>1, <1>2, <1>4, <1>6 DEF Growing
  <2>2. \A l \in Results : l \in Nat /\ file[l].j \in Nat
    BY <1>1, FileFacts
  <2>3. \A l \in Results : l < n /\ Begins(file[l].config, b[k + 1]) => file[l].j < Len(r)
    BY <1>3, <2>1, <2>2
  <2>4. /\ n - 1 \in Headers \cup Results /\ file[n].config = file[n - 1].config
        /\ n - 1 \in Headers => file[n].j = 0
        /\ n - 1 \in Results => file[n].j = file[n - 1].j + 1
    BY <1>1, <1>3, FileFacts
  <2>5. Len(r) > 0 => n - 1 \in Results /\ file[n - 1].j = Len(r) - 1
    BY <1>1, <1>2, <1>4, <1>6 DEF Growing
  <2>6. CASE Len(r) > 0
    BY <1>5, <2>3, <2>4, <2>5, <2>6
  <2>7. CASE Len(r) = 0
    <3>1. n - 1 \notin Results
      BY <1>3, <2>2, <2>3, <2>4, <2>7
    <3> QED
      BY <2>3, <2>4, <2>7, <3>1
  <2> QED
    BY <1>5, <2>6, <2>7
<1>7. InPlace(k)'
  <2>1. ASSUME NEW i \in 0 .. MaxInputs - 1, i < Len(s)
        PROVE  \E l \in FirstOf(b[k + 1], i) : s[i + 1] = <<file[l].v0, file[l].v1>>
    <3>1. CASE i < Len(r)
      <4>1. PICK l \in FirstOf(b[k + 1], i) : r[i + 1] = <<file[l].v0, file[l].v1>>
        BY <1>4, <3>1 DEF InPlace
      <4>2. i + 1 \in 1 .. Len(r)
        <5>1. i \in Nat /\ Len(r) \in Nat
          BY <1>1, <1>5
        <5> QED
          BY <3>1, <5>1
      <4> QED
        BY <1>5, <4>1, <4>2
    <3>2. CASE i = Len(r)
      <4>1. Len(r) < MaxInputs
        BY <1>1, <3>2
      <4>2. file[n].j = i /\ s[i + 1] = p
        BY <1>5, <1>6, <3>2, <4>1
      <4>3. n \in LinesOf(b[k + 1], i)
        BY <1>3, <4>2 DEF LinesOf
      <4>4. ASSUME NEW l \in LinesOf(b[k + 1], i)
            PROVE  n <= l
        <5>1. l \in Results /\ l \in Nat /\ Begins(file[l].config, b[k + 1]) /\ file[l].j = i
          BY <1>1, FileFacts DEF LinesOf
        <5> QED
          BY <1>3, <1>5, <1>6, <3>2, <4>1, <5>1
      <4> QED
        BY <1>4, <4>2, <4>3, <4>4 DEF FirstOf
    <3> QED
      BY <1>5, <2>1, <3>1, <3>2
  <2>2. ASSUME NEW i \in 0 .. MaxInputs - 1, i < Len(Recorded(k)')
        PROVE  \E l \in FirstOf(b[k + 1], i)' :
                 Recorded(k)'[i + 1] = <<file'[l].v0, file'[l].v1>>
    <3>1. FirstOf(b[k + 1], i)' = FirstOf(b[k + 1], i)
      BY DEF FirstOf, LinesOf, Results
    <3> QED
      BY <1>4, <2>1, <2>2, <3>1
  <2> QED
    BY <2>2 DEF InPlace
<1>8. ASSUME Len(s) < MaxInputs
      PROVE  Growing(k)'
  <2>1. Len(r) < MaxInputs
    BY <1>1, <1>5, <1>8
  <2>2. \A l \in Results : l <= n /\ Begins(file[l].config, b[k + 1]) => file[l].j < Len(s)
    <3>1. SUFFICES ASSUME NEW l \in Results, l <= n, Begins(file[l].config, b[k + 1])
                   PROVE  file[l].j < Len(s)
      OBVIOUS
    <3>2. l \in Nat /\ file[l].j \in Nat
      BY <1>1, FileLines
    <3>3. CASE l = n
      BY <1>3, <1>5, <1>6, <2>1, <3>3
    <3>4. CASE l < n
      BY <1>5, <1>6, <2>1, <3>1, <3>2, <3>4
    <3> QED
      BY <1>3, <3>1, <3>2, <3>3, <3>4
  <2>3. file[n].j = Len(s) - 1
    BY <1>5, <1>6, <2>1
  <2> QED
    BY <1>1, <1>2, <1>3, <1>4, <2>2, <2>3, SameFile DEF Growing
<1> QED
  BY <1>4, <1>7, <1>8

(* A line of the second pass.                                              *)
LEMMA ResultLineStep ==
  ASSUME IInv, ReadResult, ~(Len(b) < MaxConfigs)
  PROVE  IInv'
<1>0. /\ Types /\ ListSoFar /\ RowsSoFar /\ file \in Files
      /\ at \in Nat \ {0} /\ Len(file) \in Nat /\ DOMAIN file = 1 .. Len(file)
      /\ MaxConfigs \in Nat /\ MaxConfigs > 1 /\ \A k \in Row : k < Len(b)
  <2>1. Types /\ ListSoFar /\ RowsSoFar
    BY DEF IInv
  <2>2. file \in Files /\ at \in Nat \ {0} /\ Len(b) \in Nat
    BY <2>1 DEF Types
  <2> QED
    BY <2>1, <2>2, FileLines, SizesAssumption DEF Row
<1>1. PICK pair : pair = <<file[at].v0, file[at].v1>>
  OBVIOUS
<1>2. /\ pc = "results" /\ pc' = "results" /\ at <= Len(file) /\ at' = at + 1
      /\ UNCHANGED <<file, b, joint_detectability_matrix, count_JD, Joint_detect>>
      /\ golden_results' = IF Names(file[at], 0) THEN Append(golden_results, pair)
                                                 ELSE golden_results
      /\ test_results' = [i \in Row |->
           IF i # 0 /\ Names(file[at], i) THEN Append(test_results[i], pair)
                                          ELSE test_results[i]]
  BY <1>1 DEF ReadResult, metricVars
<1>3. \A k \in Row :
        /\ Recorded(k) \in Seq(Pair) /\ Len(Recorded(k)) \in Nat
        /\ Recorded(k)' = IF Names(file[at], k) THEN Append(Recorded(k), pair)
                                                ELSE Recorded(k)
  BY <1>0, <1>2 DEF Types, Recorded
<1>4. \A k \in Row : Names(file[at], k) => pair \in Pair
  <2>1. at \in DOMAIN file
    BY <1>0, <1>2
  <2> QED
    BY <1>0, <1>1, <2>1, LinesNamed DEF Pair
<1>5. \A k \in Row : /\ Recorded(k)' \in Seq(Pair)
                     /\ Len(Recorded(k)') <= Len(Recorded(k)) + 1
  <2>1. ASSUME NEW k \in Row
        PROVE  /\ Recorded(k)' \in Seq(Pair)
               /\ Len(Recorded(k)') <= Len(Recorded(k)) + 1
    <3>1. CASE Names(file[at], k)
      <4>1. PICK r : r = Recorded(k)
        OBVIOUS
      <4>2. r \in Seq(Pair) /\ pair \in Pair /\ Recorded(k)' = Append(r, pair)
        BY <1>3, <1>4, <3>1, <4>1
      <4> QED
        BY <4>1, <4>2
    <3>2. CASE ~Names(file[at], k)
      BY <1>3, <3>2
    <3> QED
      BY <3>1, <3>2
  <2> QED
    BY <2>1
<1>6. ListSoFar'
  BY <1>0, <1>2, ListAfterwards
<1>7. RowsSoFar'
  <2>1. ASSUME NEW k \in Row
        PROVE  InPlace(k)' /\ (Len(Recorded(k)') < MaxInputs => Growing(k)')
    <3>1. InPlace(k) /\ (Len(Recorded(k)) < MaxInputs => Growing(k))
      BY <1>0, <1>2 DEF RowsSoFar
    <3>2. CASE Names(file[at], k)
      BY <1>0, <1>1, <1>2, <1>3, <3>1, <3>2, RowGrows
    <3>3. CASE ~Names(file[at], k)
      BY <1>0, <1>2, <1>3, <3>1, <3>3, RowKept
    <3> QED
      BY <3>2, <3>3
  <2> QED
    BY <2>1 DEF RowsSoFar
<1>8. Types'
  <2>1. 0 \in Row /\ Row \subseteq Nat
    BY <1>0 DEF Row
  <2>2. golden_results' \in Seq(Pair)
    BY <1>5, <2>1 DEF Recorded
  <2>3. \A k \in Row : test_results[k] \in Seq(Pair) /\ Len(test_results[k]) < at
    BY <1>0, <1>2 DEF Types
  <2>4. \A k \in Row : test_results'[k] \in Seq(Pair) /\ Len(test_results'[k]) < at + 1
    <3>1. ASSUME NEW k \in Row, k # 0
          PROVE  test_results'[k] \in Seq(Pair) /\ Len(test_results'[k]) < at + 1
      <4>1. test_results'[k] \in Seq(Pair) /\ Len(test_results'[k]) <= Len(test_results[k]) + 1
        BY <1>5, <3>1 DEF Recorded
      <4>2. Len(test_results[k]) \in Nat /\ Len(test_results'[k]) \in Nat
        BY <2>3, <4>1
      <4> QED
        BY <1>0, <2>3, <4>1, <4>2
    <3>2. test_results'[0] = test_results[0]
      BY <1>2, <2>1
    <3>3. Len(test_results[0]) \in Nat
      BY <2>1, <2>3
    <3> QED
      BY <1>0, <2>1, <2>3, <3>1, <3>2, <3>3
  <2>5. test_results' \in [Row -> Seq(Pair)]
    BY <1>2, <2>4
  <2>6. \A k \in Row : Len(test_results'[k]) \in Nat
    BY <2>4
  <2> QED
    BY <1>0, <1>2, <2>2, <2>4, <2>5, <2>6, SameFile DEF Types, Reading
<1> QED
  BY <1>2, <1>6, <1>7, <1>8
     DEF IInv, DetectionsSoFar, Searched, MetricSoFar, Counted, FailsOnlyWhenDiverse

(* The script fails in the second pass only on an incomplete file.         *)
LEMMA ReadResultStep ==
  ASSUME IInv, ReadResult
  PROVE  IInv'
<1>1. CASE Len(b) < MaxConfigs
  <2>1. Types /\ ListSoFar /\ pc # "headers"
    BY DEF IInv, ReadResult
  <2>2. /\ pc = "results" /\ pc' = "error"
        /\ UNCHANGED <<file, b, at, golden_results, test_results,
                       joint_detectability_matrix, count_JD, Joint_detect>>
    BY <1>1 DEF ReadResult, resultVars, metricVars
  <2>3. ListSoFar'
    BY <2>1, <2>2, ListAfterwards
  <2>4. Types'
    BY <2>1, <2>2, SameFile DEF Types, Reading
  <2>5. ~Complete'
    <3>1. Len(b) \in Nat /\ MaxConfigs \in Nat
      BY <2>1, SizesAssumption DEF Types
    <3>2. ~Complete
      BY <1>1, <2>1, <3>1, CompleteList
    <3> QED
      BY <2>2, <3>2 DEF Complete, ConfigOf, OwnLines, Results, Headers
  <2> QED
    BY <2>2, <2>3, <2>4, <2>5
       DEF IInv, RowsSoFar, DetectionsSoFar, Searched, MetricSoFar, Counted,
           FailsOnlyWhenDiverse
<1>2. CASE ~(Len(b) < MaxConfigs)
  BY <1>2, ResultLineStep
<1> QED
  BY <1>1, <1>2

(* What the rows are once the file is read.                                *)
LEMMA RowsAfterwards ==
  ASSUME RowsSoFar, pc \in {"results", "joint", "metric", "done"},
         UNCHANGED <<file, b, golden_results, test_results>>, ResultsRead' = ResultsRead
  PROVE  RowsSoFar'
<1>1. \A k : Recorded(k)' = Recorded(k)
  BY DEF Recorded
<1>2. ASSUME NEW k \in Row
      PROVE  InPlace(k)' /\ (Len(Recorded(k)') < MaxInputs => Growing(k)')
  <2>1. InPlace(k) /\ (Len(Recorded(k)) < MaxInputs => Growing(k))
    BY DEF RowsSoFar
  <2>2. InPlace(k)'
    BY <1>1, <2>1 DEF InPlace, FirstOf, LinesOf, Results
  <2> QED
    BY <1>1, <2>1, <2>2, SameFile DEF Growing
<1> QED
  BY <1>2 DEF RowsSoFar

LEMMA BeginJointStep ==
  ASSUME IInv, BeginJoint
  PROVE  IInv'
<1>1. Types /\ ListSoFar /\ RowsSoFar /\ file \in Files
  BY DEF IInv, Types
<1>2. /\ pc = "results" /\ pc' = "joint" /\ at > Len(file) /\ at' = 1
      /\ UNCHANGED <<file, b, golden_results, test_results,
                     joint_detectability_matrix, count_JD, Joint_detect>>
  BY DEF BeginJoint, resultVars, metricVars
<1>3. /\ Len(file) \in Nat /\ at \in Nat /\ at <= Len(file) + 1
      /\ MaxConfigs \in Nat /\ MaxConfigs > 1
  BY <1>1, <1>2, FileFacts, SizesAssumption DEF Types, Reading
<1>4. ResultsRead' = ResultsRead
  BY <1>2, <1>3 DEF ResultsRead
<1>5. RowsSoFar'
  BY <1>1, <1>2, <1>4, RowsAfterwards
<1>6. ListSoFar'
  BY <1>1, <1>2, ListAfterwards
<1>7. Types'
  BY <1>1, <1>2, <1>3, SameFile DEF Types, Reading
<1>8. DetectionsSoFar'
  BY <1>2 DEF DetectionsSoFar, Searched
<1> QED
  BY <1>2, <1>5, <1>6, <1>7, <1>8 DEF IInv, MetricSoFar, Counted, FailsOnlyWhenDiverse

-----------------------------------------------------------------------------
(* The search for joint detections.                                        *)

(* The text of header 0 stands first in the list.                          *)
LEMMA GoldenHeader ==
  ASSUME Types, ListSoFar, pc # "headers", NEW g \in Results
  PROVE  1 \in Headers /\ file[1].m = 0 /\ b[1] = Text(file[1])
<1>1. /\ file \in Files /\ Len(file) \in Nat /\ DOMAIN file = 1 .. Len(file)
      /\ 0 \in Row /\ Base \in Nat
  BY FileFacts, SizesAssumption DEF Types, Row
<1>2. 1 \notin Results
  BY <1>1, FileLines
<1>3. 1 \in Headers
  <2>1. g \in 1 .. Len(file) /\ g # 1
    BY <1>1, <1>2, FileFacts
  <2>2. 1 \in 1 .. Len(file) - 1
    BY <1>1, <2>1
  <2> QED
    BY <1>1, <1>2, <2>2, FileFacts
<1>4. file[1].m = 0
  <2>1. SUFFICES ASSUME file[1].m # 0 PROVE FALSE
    OBVIOUS
  <2>2. PICK l \in Headers : l < 1
    BY <1>1, <1>3, <2>1, FileFacts
  <2> QED
    BY <1>1, <2>2, FileFacts
<1>5. 1 \in HeadersRead
  BY <1>3 DEF HeadersRead
<1> QED
  BY <1>1, <1>3, <1>4, <1>5 DEF ListSoFar, StandsAtNumber

LEMMA GoldenListed ==
  ASSUME Types, ListSoFar, pc # "headers", NEW g \in Results
  PROVE  b[1] = ConfigOf(0)
BY GoldenHeader, ConfigOfHeader DEF Types

LEMMA FirstIsOne ==
  ASSUME file \in Files, NEW c, NEW i, NEW n \in FirstOf(c, i), NEW l \in FirstOf(c, i)
  PROVE  n = l
<1>1. n \in Nat /\ l \in Nat
  BY FileFacts DEF FirstOf, LinesOf
<1> QED
  BY <1>1 DEF FirstOf

(* The comparison of two places is that of the lines they come from.       *)
LEMMA DetectionInFile ==
  ASSUME Types, ListSoFar, RowsSoFar, pc = "joint", NEW k \in 1 .. MaxConfigs - 1,
         Full(0), Full(k), NEW i \in 0 .. MaxInputs - 1
  PROVE  FailAlike(b[k + 1], i) <=> BothFail(test_results[k], golden_results, i + 1)
<1>1. /\ file \in Files /\ MaxInputs \in Nat /\ MaxConfigs \in Nat
      /\ k \in Row /\ 0 \in Row /\ k # 0
      /\ Recorded(k) = test_results[k] /\ Recorded(0) = golden_results
      /\ Len(test_results[k]) \in Nat /\ Len(golden_results) \in Nat
  BY SizesAssumption DEF Types, Row, Recorded
<1>2. i < Len(test_results[k]) /\ i < Len(golden_results)
  BY <1>1 DEF Full
<1>3. PICK n \in FirstOf(b[k + 1], i) :
        test_results[k][i + 1] = <<file[n].v0, file[n].v1>>
  BY <1>1, <1>2 DEF RowsSoFar, InPlace
<1>4. PICK g \in FirstOf(b[1], i) :
        golden_results[i + 1] = <<file[g].v0, file[g].v1>>
  <2>1. InPlace(0)
    BY <1>1 DEF RowsSoFar
  <2>2. \E g \in FirstOf(b[0 + 1], i) : golden_results[i + 1] = <<file[g].v0, file[g].v1>>
    BY <1>1, <1>2, <2>1 DEF InPlace
  <2> QED
    BY <2>2
<1>5. b[1] = ConfigOf(0)
  <2>1. g \in Results
    BY DEF FirstOf, LinesOf
  <2> QED
    BY <2>1, GoldenListed
<1>6. \A l \in FirstOf(b[k + 1], i) : l = n
  BY <1>1, FirstIsOne
<1>7. \A l \in FirstOf(ConfigOf(0), i) : l = g
  BY <1>1, <1>4, <1>5, FirstIsOne
<1>8. FailAlike(b[k + 1], i) <=>
        /\ file[n].v0 # file[g].v0 /\ file[n].v1 # file[g].v1
        /\ file[g].v0 = file[g].v1
  BY <1>4, <1>5, <1>6, <1>7 DEF FailAlike
<1> QED
  BY <1>3, <1>4, <1>8 DEF BothFail

(* As many places as stimuli.                                              *)
LEMMA DetectionCount ==
  ASSUME Types, ListSoFar, RowsSoFar, pc = "joint", NEW k \in 1 .. MaxConfigs - 1,
         Full(0), Full(k)
  PROVE  LET places == {i \in 1 .. MaxInputs : BothFail(test_results[k], golden_results, i)}
         IN  /\ Cardinality(places) = Cardinality(Detections(b[k + 1]))
             /\ Cardinality(places) \in 0 .. MaxInputs
<1> DEFINE places   == {i \in 1 .. MaxInputs : BothFail(test_results[k], golden_results, i)}
           stimuli  == Detections(b[k + 1])
           place    == [i \in stimuli |-> i + 1]
<1>1. MaxInputs \in Nat
  BY SizesAssumption
<1>2. \A i \in 0 .. MaxInputs - 1 : i \in stimuli <=> i + 1 \in places
  BY <1>1, DetectionInFile DEF Detections
<1>3. stimuli \subseteq 0 .. MaxInputs - 1 /\ places \subseteq 1 .. MaxInputs
  BY DEF Detections
<1>4. IsFiniteSet(stimuli)
  <2>1. 0 \in Int /\ MaxInputs - 1 \in Int
    BY <1>1
  <2>2. IsFiniteSet(0 .. MaxInputs - 1)
    BY <2>1, FS_Interval
  <2> QED
    BY <1>3, <2>2, FS_Subset
<1> HIDE DEF stimuli, places
<1>5. place \in Bijection(stimuli, places)
  <2>1. place \in [stimuli -> places]
    BY <1>2, <1>3
  <2>2. \A i, l \in stimuli : place[i] = place[l] => i = l
    BY <1>1, <1>3
  <2>3. ASSUME NEW p \in places
        PROVE  \E i \in stimuli : place[i] = p
    <3>1. p - 1 \in 0 .. MaxInputs - 1 /\ (p - 1) + 1 = p
      BY <1>1, <1>3
    <3> QED
      BY <1>2, <3>1
  <2> HIDE DEF place
  <2> QED
    BY <2>1, <2>2, <2>3 DEF Bijection, Injection, Surjection, IsInjective
<1>6. Cardinality(places) = Cardinality(stimuli)
  BY <1>4, <1>5, FS_Bijection, Zenon DEF ExistsBijection
<1>7. Cardinality(places) \in 0 .. MaxInputs
  <2>1. IsFiniteSet(1 .. MaxInputs) /\ Cardinality(1 .. MaxInputs) = MaxInputs
    BY <1>1, FS_Interval
  <2>2. /\ IsFiniteSet(places) /\ Cardinality(places) <= MaxInputs
    BY <1>3, <2>1, FS_Subset
  <2> QED
    BY <1>1, <2>2, FS_CardinalityType
<1> QED
  BY <1>6, <1>7 DEF places, stimuli

(* On a complete file every row is full.                                   *)
LEMMA CompleteRow ==
  ASSUME Types, ListSoFar, RowsSoFar, pc = "joint", Complete, NEW k \in Row
  PROVE  Full(k)
<1>1. /\ file \in Files /\ MaxInputs \in Nat /\ MaxConfigs \in Nat /\ k \in Nat
      /\ k < MaxConfigs /\ Len(b) \in Nat /\ ResultsRead = Len(file)
  BY SizesAssumption DEF Types, Row, ResultsRead
<1>2. Len(Recorded(k)) \in Nat
  BY <1>1 DEF Types, Recorded
<1>3. PICK n \in HeadersRead : file[n].m \in Row /\ b[k + 1] = Text(file[n])
  BY <1>1, CompleteList DEF ListSoFar, RowsAskedFor
<1>4. b[k + 1] = ConfigOf(file[n].m)
  BY <1>1, <1>3, ConfigOfHeader DEF HeadersRead
<1>5. SUFFICES ASSUME Len(Recorded(k)) < MaxInputs PROVE FALSE
  BY <1>1, <1>2 DEF Full
<1>6. Growing(k)
  BY <1>5 DEF RowsSoFar
<1>7. MaxInputs - 1 \in 0 .. MaxInputs - 1
  BY <1>1, <1>2, <1>5
<1>8. PICK l \in Results : Begins(file[l].config, b[k + 1]) /\ file[l].j = MaxInputs - 1
  <2>1. PICK l \in Results : file[l].config = b[k + 1] /\ file[l].j = MaxInputs - 1
    BY <1>3, <1>4, <1>7 DEF Complete, OwnLines
  <2>2. Begins(b[k + 1], b[k + 1])
    <3>1. \A text : Begins(text, text) <=> Len(text) <= Len(text)
      BY DEF Begins
    <3> QED
      BY <3>1
  <2> QED
    BY <2>1, <2>2
<1>9. l <= Len(file)
  BY <1>1, FileFacts
<1> QED
  BY <1>1, <1>2, <1>5, <1>6, <1>8, <1>9 DEF Growing

(* A row is searched when it and the golden one are full; otherwise the    *)
(* script fails, and the file was not complete.                            *)
LEMMA RowSearched ==
  ASSUME Types, ListSoFar, RowsSoFar, NEW k, k = at, DetectJointly
  PROVE  /\ pc = "joint" /\ k \in 1 .. MaxConfigs - 1
         /\ UNCHANGED <<file, b, golden_results, test_results, count_JD, Joint_detect>>
         /\ \/ /\ Full(0) /\ Full(k) /\ pc' = "joint" /\ at' = k + 1
               /\ joint_detectability_matrix' = [joint_detectability_matrix EXCEPT
                    ![k] = [n \in 1 .. Cardinality(Detections(b[k + 1])) |-> n]]
               /\ Cardinality(Detections(b[k + 1])) \in 0 .. MaxInputs
            \/ /\ pc' = "error" /\ UNCHANGED <<at, joint_detectability_matrix>>
               /\ ~Complete
<1> DEFINE row    == test_results[k]
           places == {i \in 1 .. MaxInputs : BothFail(row, golden_results, i)}
<1>1. /\ pc = "joint" /\ k < MaxConfigs
      /\ UNCHANGED <<file, b, golden_results, test_results, count_JD, Joint_detect>>
      /\ IF 1 .. MaxInputs \subseteq DOMAIN row /\ 1 .. MaxInputs \subseteq DOMAIN golden_results
           THEN /\ joint_detectability_matrix' = [joint_detectability_matrix EXCEPT
                     ![k] = [n \in 1 .. Cardinality(places) |-> n]]
                /\ at' = k + 1 /\ pc' = pc
           ELSE pc' = "error" /\ UNCHANGED <<at, joint_detectability_matrix>>
  BY DEF DetectJointly, Columns, resultVars, metricVars
<1>2. /\ k \in 1 .. MaxConfigs - 1 /\ k \in Row /\ 0 \in Row /\ k # 0
      /\ MaxConfigs \in Nat /\ MaxInputs \in Nat
  BY <1>1, SizesAssumption DEF Types, Row
<1>3. /\ Recorded(k) = row /\ Recorded(0) = golden_results
      /\ Len(row) \in Nat /\ DOMAIN row = 1 .. Len(row)
      /\ Len(golden_results) \in Nat /\ DOMAIN golden_results = 1 .. Len(golden_results)
  BY <1>2 DEF Types, Recorded
<1>4. /\ Full(k) => 1 .. MaxInputs \subseteq DOMAIN row
      /\ Full(0) => 1 .. MaxInputs \subseteq DOMAIN golden_results
  BY <1>2, <1>3 DEF Full
<1>5. /\ 1 .. MaxInputs \subseteq DOMAIN row => Full(k)
      /\ 1 .. MaxInputs \subseteq DOMAIN golden_results => Full(0)
  <2>1. MaxInputs > 0 => MaxInputs \in 1 .. MaxInputs
    BY <1>2
  <2> QED
    BY <1>2, <1>3, <2>1 DEF Full
<1>6. CASE Full(0) /\ Full(k)
  <2>1. /\ Cardinality(places) = Cardinality(Detections(b[k + 1]))
        /\ Cardinality(places) \in 0 .. MaxInputs
    BY <1>1, <1>2, <1>6, DetectionCount
  <2> QED
    BY <1>1, <1>2, <1>4, <1>6, <2>1
<1>7. CASE ~(Full(0) /\ Full(k))
  <2>1. ~Complete
    BY <1>1, <1>2, <1>7, CompleteRow
  <2> QED
    BY <1>1, <1>2, <1>5, <1>7, <2>1
<1> QED
  BY <1>6, <1>7

LEMMA CompleteKept ==
  ASSUME file' = file
  PROVE  Complete' = Complete
BY DEF Complete, ConfigOf, OwnLines, Results, Headers

LEMMA DetectionsKept ==
  ASSUME file' = file, b' = b, NEW k
  PROVE  Detections(b[k])' = Detections(b[k])
BY DEF Detections, FailAlike, FirstOf, LinesOf, ConfigOf, Results, Headers

(* One number for each detection, from 1.                                  *)
LEMMA CountedRow ==
  ASSUME NEW count \in Nat
  PROVE  LET row == [n \in 1 .. count |-> n]
         IN  /\ row \in Seq(Nat) /\ Len(row) = count
             /\ row # <<>> => row[1] = 1
<1> DEFINE row == [n \in 1 .. count |-> n]
<1>1. row \in Seq(Nat) /\ Len(row) = count
  OBVIOUS
<1>2. count = 0 => row = <<>>
  OBVIOUS
<1>3. count > 0 => row[1] = 1
  OBVIOUS
<1> QED
  BY <1>1, <1>2, <1>3

(* One turn of the search.                                                 *)
LEMMA DetectJointlyStep ==
  ASSUME IInv, DetectJointly
  PROVE  IInv'
<1>0. PICK k : k = at
  OBVIOUS
<1>1. Types /\ ListSoFar /\ RowsSoFar /\ DetectionsSoFar
  BY DEF IInv
<1>2. /\ pc = "joint" /\ k \in 1 .. MaxConfigs - 1 /\ k \in Row
      /\ UNCHANGED <<file, b, golden_results, test_results, count_JD, Joint_detect>>
      /\ MaxConfigs \in Nat /\ MaxInputs \in Nat /\ Len(file) \in Nat
  <2>1. file \in Files
    BY <1>1 DEF Types
  <2> QED
    BY <1>0, <1>1, <2>1, RowSearched, FileFacts, SizesAssumption DEF Row
<1>3. CASE /\ Full(0) /\ Full(k) /\ pc' = "joint" /\ at' = k + 1
           /\ joint_detectability_matrix' = [joint_detectability_matrix EXCEPT
                ![k] = [n \in 1 .. Cardinality(Detections(b[k + 1])) |-> n]]
           /\ Cardinality(Detections(b[k + 1])) \in 0 .. MaxInputs
  <2>1. PICK row, count : /\ count = Cardinality(Detections(b[k + 1]))
                          /\ row = [n \in 1 .. count |-> n]
    OBVIOUS
  <2>2. /\ row \in Seq(Nat) /\ Len(row) = count /\ count \in 0 .. MaxInputs
        /\ row # <<>> => row[1] = 1
    BY <1>2, <1>3, <2>1, CountedRow
  <2>3. joint_detectability_matrix' = [joint_detectability_matrix EXCEPT ![k] = row]
    BY <1>3, <2>1
  <2>4. /\ joint_detectability_matrix \in [Row -> Seq(Nat)]
        /\ \A l \in Row : Len(joint_detectability_matrix[l]) <= MaxInputs
    BY <1>1 DEF Types
  <2>5. /\ joint_detectability_matrix' \in [Row -> Seq(Nat)]
        /\ joint_detectability_matrix'[k] = row
        /\ \A l \in Row : l # k =>
             joint_detectability_matrix'[l] = joint_detectability_matrix[l]
    BY <1>2, <2>2, <2>3, <2>4
  <2>6. \A l \in Row : Len(joint_detectability_matrix'[l]) <= MaxInputs
    BY <1>2, <2>2, <2>4, <2>5
  <2>7. Types'
    BY <1>0, <1>1, <1>2, <1>3, <2>5, <2>6, SameFile DEF Types, Reading
  <2>8. ListSoFar'
    BY <1>1, <1>2, <1>3, ListAfterwards
  <2>9. RowsSoFar'
    BY <1>1, <1>2, <1>3, RowsAfterwards DEF ResultsRead
  <2>10. DetectionsSoFar'
    <3>1. SUFFICES ASSUME NEW l \in 1 .. MaxConfigs - 1, l < k + 1
                   PROVE  /\ Full(0) /\ Full(l)
                          /\ Len(joint_detectability_matrix'[l])
                               = Cardinality(Detections(b[l + 1]))
                          /\ joint_detectability_matrix'[l] # <<>>
                               => joint_detectability_matrix'[l][1] = 1
      BY <1>2, <1>3, DetectionsKept DEF DetectionsSoFar, Searched, Full, Recorded
    <3>2. CASE l = k
      BY <1>3, <2>1, <2>2, <2>5, <3>2
    <3>3. CASE l # k
      <4>1. l < at /\ l \in Row
        BY <1>0, <1>2, <3>1, <3>3 DEF Row
      <4> QED
        BY <1>1, <1>2, <2>5, <3>3, <4>1 DEF DetectionsSoFar, Searched
    <3> QED
      BY <3>2, <3>3
  <2> QED
    BY <1>3, <2>7, <2>8, <2>9, <2>10
       DEF IInv, MetricSoFar, Counted, FailsOnlyWhenDiverse
<1>4. CASE /\ pc' = "error" /\ UNCHANGED <<at, joint_detectability_matrix>>
           /\ ~Complete
  <2>1. Types'
    BY <1>1, <1>2, <1>4, SameFile DEF Types, Reading
  <2>2. ListSoFar'
    BY <1>1, <1>2, <1>4, ListAfterwards
  <2>3. ~Complete'
    BY <1>2, <1>4, CompleteKept
  <2> QED
    BY <1>4, <2>1, <2>2, <2>3
       DEF IInv, RowsSoFar, DetectionsSoFar, Searched, MetricSoFar, Counted,
           FailsOnlyWhenDiverse
<1> QED
  BY <1>0, <1>1, <1>3, <1>4, RowSearched

-----------------------------------------------------------------------------
(* The computation of the metric.                                          *)

(* What a step leaves that changes neither lists nor matrix.               *)
LEMMA DetectionsAfterwards ==
  ASSUME DetectionsSoFar, \A k \in 1 .. MaxConfigs - 1 : Searched(k)' => Searched(k),
         UNCHANGED <<file, b, golden_results, test_results, joint_detectability_matrix>>
  PROVE  DetectionsSoFar'
BY DetectionsKept DEF DetectionsSoFar, Searched, Full, Recorded

LEMMA BeginMetricStep ==
  ASSUME IInv, BeginMetric
  PROVE  IInv'
<1>1. Types /\ ListSoFar /\ RowsSoFar /\ DetectionsSoFar /\ file \in Files
  BY DEF IInv, Types
<1>2. /\ pc = "joint" /\ pc' = "metric" /\ at = MaxConfigs /\ at' = 1
      /\ UNCHANGED <<file, b, golden_results, test_results,
                     joint_detectability_matrix, count_JD, Joint_detect>>
  BY DEF BeginMetric, FirstRow, resultVars, metricVars
<1>3. MaxConfigs \in Nat /\ MaxConfigs > 1 /\ Len(file) \in Nat
  BY <1>1, FileFacts, SizesAssumption
<1>4. Types'
  BY <1>1, <1>2, <1>3, SameFile DEF Types, Reading
<1>5. ListSoFar'
  BY <1>1, <1>2, ListAfterwards
<1>6. RowsSoFar'
  BY <1>1, <1>2, RowsAfterwards DEF ResultsRead
<1>7. DetectionsSoFar'
  BY <1>1, <1>2, <1>3, DetectionsAfterwards DEF Searched
<1>8. MetricSoFar'
  <2>1. UndetectedSoFar' = {} /\ 1 .. at' - 1 = {}
    BY <1>2 DEF Undetected, UndetectedSoFar
  <2>2. count_JD' = 0 /\ Joint_detect' = -1
    BY <1>1, <1>2 DEF Types
  <2> QED
    BY <1>2, <2>1, <2>2, FS_EmptySet DEF MetricSoFar
<1> QED
  BY <1>2, <1>4, <1>5, <1>6, <1>7, <1>8 DEF IInv, FailsOnlyWhenDiverse

(* The rows that were not detected, one row further.                       *)
LEMMA UndetectedNext ==
  ASSUME NEW n \in Nat \ {0}
  PROVE  /\ Undetected(n) = IF joint_detectability_matrix[n] = <<>>
                              THEN Undetected(n - 1) \cup {n} ELSE Undetected(n - 1)
         /\ n \notin Undetected(n - 1)
         /\ Undetected(n) = 1 .. n <=>
              /\ joint_detectability_matrix[n] = <<>>
              /\ Undetected(n - 1) = 1 .. n - 1
         /\ IsFiniteSet(Undetected(n - 1))
<1>1. 1 .. n = 1 .. n - 1 \cup {n} /\ n \notin 1 .. n - 1 /\ n \in 1 .. n
  OBVIOUS
<1>2. IsFiniteSet(Undetected(n - 1))
  <2>1. IsFiniteSet(1 .. n - 1)
    <3>1. 1 \in Int /\ n - 1 \in Int
      OBVIOUS
    <3> QED
      BY <3>1, FS_Interval
  <2> QED
    BY <2>1, FS_Subset DEF Undetected
<1> QED
  BY <1>1, <1>2, Zenon DEF Undetected

LEMMA AddRowStep ==
  ASSUME IInv, AddRow
  PROVE  IInv'
<1>0. PICK k : k = at
  OBVIOUS
<1>1. Types /\ ListSoFar /\ RowsSoFar /\ DetectionsSoFar /\ MetricSoFar /\ file \in Files
  BY DEF IInv, Types
<1>2. PICK row : row = joint_detectability_matrix[k]
  OBVIOUS
<1>3. /\ pc = "metric" /\ pc' = "metric" /\ k < MaxConfigs /\ at' = k + 1
      /\ UNCHANGED <<file, b, golden_results, test_results,
                     joint_detectability_matrix>>
      /\ \/ row = <<>> /\ count_JD' = count_JD + 1 /\ Joint_detect' = Joint_detect
         \/ row # <<>> /\ Joint_detect' = Patterns - row[1] /\ count_JD' = count_JD
  BY <1>0, <1>2 DEF AddRow, Detectability, resultVars, metricVars
<1>4. /\ MaxConfigs \in Nat /\ Patterns \in Nat \ {0} /\ Len(file) \in Nat
      /\ k \in Nat \ {0} /\ k \in 1 .. MaxConfigs - 1
      /\ count_JD \in Nat /\ count_JD < k
  BY <1>0, <1>1, <1>3, FileFacts, SizesAssumption DEF Types
<1>5. row # <<>> => row[1] = 1
  BY <1>1, <1>2, <1>3, <1>4 DEF DetectionsSoFar, Searched
<1>6. /\ count_JD' \in Nat /\ count_JD' < k + 1
      /\ Joint_detect' \in {-1, Patterns - 1}
  <2>1. Joint_detect \in {-1, Patterns - 1}
    BY <1>1 DEF Types
  <2> QED
    BY <1>3, <1>4, <1>5, <2>1
<1>7. Types'
  BY <1>0, <1>1, <1>3, <1>4, <1>6, SameFile DEF Types, Reading
<1>8. ListSoFar'
  BY <1>1, <1>3, ListAfterwards
<1>9. RowsSoFar'
  BY <1>1, <1>3, RowsAfterwards DEF ResultsRead
<1>10. DetectionsSoFar'
  BY <1>1, <1>3, DetectionsAfterwards DEF Searched
<1>11. MetricSoFar'
  <2>1. /\ count_JD = Cardinality(Undetected(k - 1))
        /\ Joint_detect = -1 <=> Undetected(k - 1) = 1 .. k - 1
    BY <1>0, <1>1, <1>3 DEF MetricSoFar, Counted, UndetectedSoFar
  <2>2. UndetectedSoFar' = Undetected(k) /\ at' - 1 = k
    <3>1. at' - 1 = k
      BY <1>3, <1>4
    <3> QED
      BY <1>3, <3>1 DEF Undetected, UndetectedSoFar
  <2>3. CASE row = <<>>
    <3>1. Undetected(k) = Undetected(k - 1) \cup {k}
      BY <1>2, <1>4, <2>3, UndetectedNext
    <3>2. Cardinality(Undetected(k)) = count_JD + 1
      BY <1>4, <2>1, <3>1, UndetectedNext, FS_AddElement
    <3>3. Undetected(k) = 1 .. k <=> Undetected(k - 1) = 1 .. k - 1
      BY <1>2, <1>4, <2>3, UndetectedNext
    <3> QED
      BY <1>3, <2>1, <2>2, <2>3, <3>2, <3>3 DEF MetricSoFar
  <2>4. CASE row # <<>>
    <3>1. Undetected(k) = Undetected(k - 1) /\ Undetected(k) # 1 .. k
      BY <1>2, <1>4, <2>4, UndetectedNext
    <3>2. Joint_detect' # -1
      BY <1>3, <1>4, <1>5, <2>4
    <3> QED
      BY <1>3, <2>1, <2>2, <2>4, <3>1, <3>2 DEF MetricSoFar
  <2> QED
    BY <2>3, <2>4
<1> QED
  BY <1>3, <1>7, <1>8, <1>9, <1>10, <1>11 DEF IInv, FailsOnlyWhenDiverse

(* Rows without an entry belong to configurations without detections.      *)
LEMMA UndetectedRow ==
  ASSUME IInv, Counted, NEW k \in 1 .. MaxConfigs - 1
  PROVE  joint_detectability_matrix[k] = <<>> <=> Detections(b[k + 1]) = {}
<1>1. PICK row : row = joint_detectability_matrix[k]
  OBVIOUS
<1>2. Len(row) = Cardinality(Detections(b[k + 1]))
  BY <1>1 DEF IInv, DetectionsSoFar, Searched, Counted
<1>3. IsFiniteSet(Detections(b[k + 1]))
  <2>1. 0 \in Int /\ MaxInputs - 1 \in Int
    BY SizesAssumption
  <2>2. IsFiniteSet(0 .. MaxInputs - 1)
    BY <2>1, FS_Interval
  <2> QED
    BY <2>2, FS_Subset DEF Detections
<1>4. row \in Seq(Nat)
  BY <1>1, SizesAssumption DEF IInv, Types, Row
<1>5. row = <<>> <=> Len(row) = 0
  BY <1>4
<1>6. Cardinality(Detections(b[k + 1])) = 0 <=> Detections(b[k + 1]) = {}
  BY <1>3, FS_EmptySet
<1> QED
  BY <1>1, <1>2, <1>5, <1>6

LEMMA ComputeStep ==
  ASSUME IInv, Compute
  PROVE  IInv'
<1>1. Types /\ ListSoFar /\ RowsSoFar /\ DetectionsSoFar /\ MetricSoFar
  BY DEF IInv
<1>2. /\ pc = "metric" /\ at = MaxConfigs
      /\ UNCHANGED <<file, at, b, golden_results, test_results,
                     joint_detectability_matrix, count_JD, Joint_detect>>
      /\ \/ Joint_detect = -1 /\ pc' = "error"
         \/ /\ Joint_detect # -1 /\ pc' = "done"
            /\ D_metric' = Joint_detect + Patterns * count_JD
  BY DEF Compute, resultVars
<1>3. Types'
  BY <1>1, <1>2, SameFile DEF Types, Reading
<1>4. ListSoFar'
  BY <1>1, <1>2, ListAfterwards
<1>5. RowsSoFar'
  <2>1. CASE pc' = "done"
    BY <1>1, <1>2, <2>1, RowsAfterwards DEF ResultsRead
  <2>2. CASE pc' = "error"
    BY <2>2 DEF RowsSoFar
  <2> QED
    BY <1>2, <2>1, <2>2
<1>6. DetectionsSoFar'
  BY <1>1, <1>2, DetectionsAfterwards DEF Searched
<1>7. MetricSoFar'
  BY <1>1, <1>2 DEF MetricSoFar, Counted, Undetected, UndetectedSoFar
<1>8. FailsOnlyWhenDiverse'
  <2>1. SUFFICES ASSUME pc' = "error", NEW k \in 1 .. MaxConfigs - 1
                 PROVE  Detections(b[k + 1]) = {}
    BY <1>2, DetectionsKept DEF FailsOnlyWhenDiverse
  <2>2. Undetected(MaxConfigs - 1) = 1 .. MaxConfigs - 1
    BY <1>1, <1>2, <2>1 DEF MetricSoFar, Counted, UndetectedSoFar
  <2>3. joint_detectability_matrix[k] = <<>>
    BY <2>2 DEF Undetected
  <2> QED
    BY <1>2, <2>3, UndetectedRow DEF Counted
<1> QED
  BY <1>3, <1>4, <1>5, <1>6, <1>7, <1>8 DEF IInv

-----------------------------------------------------------------------------
(* The invariance of IInv.                                                 *)
LEMMA InvInit ==
  ASSUME Init
  PROVE  IInv
<1>1. file \in Files /\ Len(file) \in Nat /\ MaxConfigs \in Nat /\ MaxConfigs > 1
      /\ MaxInputs \in Nat
  BY FileFacts, SizesAssumption DEF Init
<1>2. Types
  <2>1. /\ b = <<>> /\ golden_results = <<>>
        /\ test_results = [i \in Row |-> <<>>]
        /\ joint_detectability_matrix = [i \in Row |-> <<>>]
    BY DEF Init
  <2>2. /\ b \in Seq({Text(file[n]) : n \in Headers}) /\ golden_results \in Seq(Pair)
        /\ test_results \in [Row -> Seq(Pair)]
        /\ joint_detectability_matrix \in [Row -> Seq(Nat)]
    BY <2>1
  <2>3. \A k \in Row : /\ test_results[k] = <<>> /\ Len(test_results[k]) = 0
                       /\ Len(joint_detectability_matrix[k]) = 0
    BY <2>1
  <2> QED
    BY <1>1, <2>1, <2>2, <2>3 DEF Init, Types, Reading
<1>3. ListSoFar
  <2>1. \A n \in Headers : n \in Nat \ {0}
    BY <1>1, FileFacts
  <2>2. HeadersRead = {}
    BY <2>1 DEF HeadersRead, Init
  <2>3. b = <<>> /\ Len(b) = 0
    BY DEF Init
  <2> QED
    BY <2>2, <2>3
       DEF ListSoFar, ReachesRow, StandsAtNumber, NoneTwice, RowsAskedFor, Row
<1> QED
  BY <1>2, <1>3 DEF Init, IInv, RowsSoFar, DetectionsSoFar, Searched, MetricSoFar, Counted,
                    FailsOnlyWhenDiverse

LEMMA InvStep ==
  ASSUME IInv, [Next]_vars
  PROVE  IInv'
<1>1. CASE UNCHANGED vars
  <2>1. /\ UNCHANGED <<pc, file, at, b, golden_results, test_results>>
        /\ UNCHANGED <<joint_detectability_matrix, count_JD, Joint_detect, D_metric>>
    BY <1>1 DEF vars
  <2>2. Types' /\ MetricSoFar'
    BY <2>1, SameFile DEF IInv, Types, Reading, MetricSoFar, Counted, Undetected, UndetectedSoFar
  <2>3. ListSoFar'
    BY <2>1, SameFile, SameList DEF IInv, HeadersRead
  <2>4. RowsSoFar'
    <3>1. CASE pc \in {"results", "joint", "metric", "done"}
      BY <2>1, <3>1, RowsAfterwards DEF IInv, ResultsRead
    <3> QED
      BY <2>1, <3>1 DEF RowsSoFar
  <2>5. DetectionsSoFar'
    BY <2>1, DetectionsAfterwards DEF IInv, Searched
  <2>6. FailsOnlyWhenDiverse'
    BY <2>1, CompleteKept, DetectionsKept DEF IInv, FailsOnlyWhenDiverse
  <2> QED
    BY <2>2, <2>3, <2>4, <2>5, <2>6 DEF IInv
<1>2. CASE ReadHeader
  BY <1>2, ReadHeaderStep
<1>3. CASE SecondPass
  BY <1>3, SecondPassStep
<1>4. CASE ReadResult
  BY <1>4, ReadResultStep
<1>5. CASE BeginJoint
  BY <1>5, BeginJointStep
<1>6. CASE DetectJointly
  BY <1>6, DetectJointlyStep
<1>7. CASE BeginMetric
  BY <1>7, BeginMetricStep
<1>8. CASE AddRow
  BY <1>8, AddRowStep
<1>9. CASE Compute
  BY <1>9, ComputeStep
<1> QED
  BY <1>1, <1>2, <1>3, <1>4, <1>5, <1>6, <1>7, <1>8, <1>9 DEF Next

(* In every state the lists hold what they should of the lines read so     *)
(* far.                                                                    *)
THEOREM Invariance == Spec => []IInv
BY InvInit, InvStep, PTL DEF Spec

-----------------------------------------------------------------------------
(* The properties.                                                         *)

(* The lists hold values of their kinds, no row is longer than the file or *)
(* the number of stimuli, and no loop passes its bound.                    *)
THEOREM TypeCorrect == Spec => []TypeOK
<1>1. ASSUME IInv PROVE TypeOK
  <2>1. Types /\ file \in Files
    BY <1>1 DEF IInv, Types
  <2>2. Len(file) \in Nat /\ Patterns \in Nat \ {0} /\ MaxConfigs \in Nat
    BY <2>1, FileFacts, SizesAssumption
  <2>3. at \in 1 .. Len(file) + MaxConfigs /\ Joint_detect \in -1 .. Patterns
    BY <2>1, <2>2 DEF Types
  <2> QED
    BY <2>1, <2>3 DEF Types, TypeOK
<1> QED
  BY <1>1, Invariance, PTL

(* As many entries as detections, for every row of b, whatever the numbers *)
(* in the headers have made of it.                                         *)
THEOREM DetectionsRecorded == Spec => []DetectionsAsRecorded
<1>1. ASSUME IInv PROVE DetectionsAsRecorded
  BY <1>1 DEF IInv, DetectionsSoFar, Searched, Counted, DetectionsAsRecorded
<1> QED
  BY <1>1, Invariance, PTL

(* A file that lacks a result of a row that is evaluated gives no metric,  *)
(* unless another configuration begins with the text of the row.           *)
THEOREM OnlyCompleteRows == Spec => []CompleteRowsOnly
<1>1. ASSUME IInv PROVE CompleteRowsOnly
  <2>1. SUFFICES ASSUME Counted, NEW k \in Row,
                        ~\E n \in Results : /\ Begins(file[n].config, b[k + 1])
                                            /\ file[n].config # b[k + 1],
                        NEW i \in 0 .. MaxInputs - 1
                 PROVE  OwnLines(b[k + 1], i) # {}
    BY DEF CompleteRowsOnly
  <2>2. MaxConfigs \in Nat /\ MaxConfigs > 1 /\ MaxInputs \in Nat
    BY SizesAssumption
  <2>3. Len(Recorded(k)) \in Nat
    BY <1>1 DEF IInv, Types, Recorded
  <2>4. 1 \in 1 .. MaxConfigs - 1 /\ (k # 0 => k \in 1 .. MaxConfigs - 1)
    BY <2>2 DEF Row
  <2>5. Full(k)
    BY <1>1, <2>1, <2>4 DEF IInv, DetectionsSoFar, Searched, Counted
  <2>6. i < Len(Recorded(k))
    BY <2>2, <2>3, <2>5 DEF Full
  <2>7. InPlace(k)
    BY <1>1, <2>1 DEF IInv, RowsSoFar, Counted
  <2>8. PICK n : n \in LinesOf(b[k + 1], i)
    BY <2>6, <2>7 DEF InPlace, FirstOf
  <2>9. n \in OwnLines(b[k + 1], i)
    BY <2>1, <2>8 DEF LinesOf, OwnLines
  <2> QED
    BY <2>9
<1> QED
  BY <1>1, Invariance, PTL

-----------------------------------------------------------------------------
(* A row of empty text is an echo of the golden one: it has the results of *)
(* all lines, and the golden row those of the first ones.                  *)
Alike(r, s) ==
  /\ \A i \in 1 .. MaxInputs : i <= Len(r) => i <= Len(s) /\ s[i] = r[i]
  /\ Len(r) < MaxInputs => Len(s) = Len(r)

Echo(k) == Alike(golden_results, test_results[k])

Echoes ==
  pc \in {"results", "joint", "metric", "done"} =>
    \A k \in 1 .. MaxConfigs - 1 : k < Len(b) /\ b[k + 1] = <<>> => Echo(k)

(* A text begins with itself, and with the empty one.                      *)
LEMMA BeginsItself ==
  ASSUME NEW text \in Seq(STRING)
  PROVE  Begins(text, text) /\ Begins(text, <<>>)
BY DEF Begins

(* No line of another configuration comes before the golden row is full.   *)
LEMMA GoldenFull ==
  ASSUME Types, ListSoFar, RowsSoFar, pc = "results", at \in Results,
         ~Begins(file[at].config, b[1])
  PROVE  Len(golden_results) >= MaxInputs
<1>1. /\ file \in Files /\ at \in Nat \ {0} /\ Len(file) \in Nat /\ MaxInputs \in Nat
      /\ DOMAIN file = 1 .. Len(file) /\ at \in 1 .. Len(file) /\ at # 1
      /\ Len(golden_results) \in Nat /\ 0 \in Row /\ ResultsRead = at - 1
  BY FileLines, SizesAssumption DEF Types, Row, ResultsRead
<1>2. SUFFICES ASSUME Len(golden_results) < MaxInputs
               PROVE  FALSE
  BY <1>1
<1>3. Growing(0)
  BY <1>1, <1>2 DEF RowsSoFar, Recorded
<1>4. Recorded(0) = golden_results
  BY DEF Recorded
<1>5. 1 \in Headers /\ b[1] = file[1].config /\ file[1].config \in Seq(STRING)
  <2>1. 1 \in Headers /\ b[1] = Text(file[1])
    BY GoldenHeader
  <2>2. 1 \in 1 .. Len(file) - 1 /\ 1 \in DOMAIN file
    BY <1>1
  <2>3. HasText(file[1])
    BY <1>1, <2>2, FileFacts
  <2> QED
    BY <1>1, <2>1, <2>2, <2>3, FilesAssumption DEF Text
<1>6. Begins(file[1].config, b[1])
  BY <1>5, BeginsItself
<1>7. CASE Len(golden_results) > 0
  <2>1. at - 1 \in Results /\ Begins(file[at - 1].config, b[1])
    BY <1>1, <1>3, <1>4, <1>7 DEF Growing
  <2>2. file[at].config = file[at - 1].config
    BY <1>1, FileFacts
  <2> QED
    BY <2>1, <2>2
<1>8. CASE Len(golden_results) = 0
  <2>1. ASSUME NEW n \in Results, n <= at - 1
        PROVE  ~Begins(file[n].config, b[1])
    <3>1. Begins(file[n].config, b[1]) => file[n].j < 0
      BY <1>1, <1>3, <1>4, <1>8, <2>1 DEF Growing
    <3>2. file[n].j \in Nat
      BY <1>1, FileLines
    <3> QED
      BY <3>1, <3>2
  <2>2. 2 \in Results
    <3>1. CASE at = 2
      BY <3>1
    <3>2. CASE at # 2
      <4>1. 2 \in 1 .. Len(file) - 1
        BY <1>1, <3>2
      <4>2. 2 \in Headers \cup Results
        BY <1>1, <4>1, FileFacts
      <4>3. 2 \in Headers => 1 \in Results
        <5>1. \A n \in Headers : n # 1 => n - 1 \in Results
          <6> MaxInputs > 0
            BY <1>1, <1>2
          <6> QED
            BY <1>1, FileFacts
        <5> QED
          BY <5>1
      <4>4. 1 \notin Results
        BY <1>1, FileLines
      <4> QED
        BY <4>2, <4>3, <4>4
    <3> QED
      BY <3>1, <3>2
  <2>3. file[2].config = file[2 - 1].config
    BY <1>1, <2>2, FileFacts
  <2>4. Begins(file[2].config, b[1])
    BY <1>6, <2>3
  <2>5. at = 2 \/ 2 <= at - 1
    BY <1>1
  <2> QED
    BY <2>1, <2>2, <2>4, <2>5
<1> QED
  BY <1>1, <1>7, <1>8

(* Appended to both, or only behind the first stimuli.                     *)
LEMMA EchoKept ==
  ASSUME NEW r \in Seq(Pair), NEW s \in Seq(Pair), NEW p \in Pair, Alike(r, s),
         NEW r1, NEW s1, s1 = Append(s, p),
         r1 = Append(r, p) \/ (r1 = r /\ Len(r) >= MaxInputs)
  PROVE  Alike(r1, s1)
<1> PICK N : N = MaxInputs
  OBVIOUS
<1>0. /\ N \in Nat
      /\ Len(r) < N => Len(s) = Len(r)
      /\ \A i \in 1 .. N : i <= Len(r) => i <= Len(s) /\ s[i] = r[i]
  BY SizesAssumption DEF Alike
<1>4. SUFFICES /\ \A i \in 1 .. N : i <= Len(r1) => i <= Len(s1) /\ s1[i] = r1[i]
               /\ Len(r1) < N => Len(s1) = Len(r1)
  BY DEF Alike
<1>1. /\ Len(s) \in Nat /\ Len(s1) = Len(s) + 1 /\ s1[Len(s) + 1] = p
      /\ \A i \in 1 .. Len(s) : s1[i] = s[i]
  OBVIOUS
<1>2. CASE r1 = Append(r, p)
  <2>1. /\ Len(r) \in Nat /\ Len(r1) = Len(r) + 1 /\ r1[Len(r) + 1] = p
        /\ \A i \in 1 .. Len(r) : r1[i] = r[i]
    BY <1>2
  <2>2. ASSUME NEW i \in 1 .. N, i <= Len(r1)
        PROVE  i <= Len(s1) /\ s1[i] = r1[i]
    <3>1. CASE i <= Len(r)
      <4>1. i <= Len(s) /\ s[i] = r[i] /\ i \in 1 .. Len(r) /\ i \in 1 .. Len(s)
        BY <1>0, <1>1, <2>1, <3>1
      <4> QED
        BY <1>1, <2>1, <4>1
    <3>2. CASE i = Len(r) + 1
      <4>1. Len(s) = Len(r)
        BY <1>0, <2>1, <3>2
      <4> QED
        BY <1>1, <2>1, <3>2, <4>1
    <3> QED
      BY <2>1, <2>2, <3>1, <3>2
  <2> QED
    BY <1>0, <1>1, <2>1, <2>2
<1>3. CASE r1 = r /\ Len(r) >= MaxInputs
  <2>1. Len(r) \in Nat
    OBVIOUS
  <2>2. ASSUME NEW i \in 1 .. N, i <= Len(r1)
        PROVE  i <= Len(s1) /\ s1[i] = r1[i]
    <3>1. i <= Len(s) /\ s[i] = r[i] /\ i \in 1 .. Len(s)
      BY <1>0, <1>1, <1>3, <2>2
    <3> QED
      BY <1>1, <1>3, <3>1
  <2> QED
    BY <1>0, <1>3, <2>1, <2>2
<1> QED
  BY <1>2, <1>3

(* A line of the second pass keeps the echo.                               *)
LEMMA EchoStep ==
  ASSUME IInv, Echoes, ReadResult, NEW k \in 1 .. MaxConfigs - 1,
         k < Len(b), b[k + 1] = <<>>
  PROVE  Echo(k)'
<1>1. /\ Types /\ ListSoFar /\ RowsSoFar /\ pc = "results" /\ k # 0
      /\ k \in Row /\ 0 \in Row /\ MaxInputs \in Nat /\ MaxConfigs \in Nat
      /\ Len(b) \in Nat /\ 0 < Len(b) /\ at \in DOMAIN file
  <2>1. /\ Types /\ ListSoFar /\ RowsSoFar /\ pc = "results" /\ at <= Len(file)
    BY DEF IInv, ReadResult
  <2>2. /\ MaxInputs \in Nat /\ MaxConfigs \in Nat \ {0, 1} /\ k # 0
        /\ k \in Row /\ 0 \in Row
    BY SizesAssumption DEF Row
  <2>3. at \in Nat \ {0} /\ Len(b) \in Nat /\ file \in Files
    BY <2>1 DEF Types
  <2>4. DOMAIN file = 1 .. Len(file) /\ Len(file) \in Nat
    BY <2>3, FileLines
  <2>5. at \in DOMAIN file
    BY <2>1, <2>3, <2>4
  <2>6. 0 < Len(b)
    BY <2>2, <2>3
  <2> QED
    BY <2>1, <2>2, <2>3, <2>5, <2>6
<1>2. PICK r, s, r1, s1, p :
        /\ r = golden_results /\ s = test_results[k] /\ p = <<file[at].v0, file[at].v1>>
        /\ r1 = golden_results' /\ s1 = test_results'[k]
  OBVIOUS
<1>3. /\ r \in Seq(Pair) /\ s \in Seq(Pair)
      /\ Alike(r, s)
  BY <1>1, <1>2 DEF Types, Echoes, Echo
<1>4. SUFFICES Alike(r1, s1)
  BY <1>2 DEF Echo
<1>5. CASE Len(b) < MaxConfigs
  <2>1. r1 = r /\ s1 = s
    BY <1>2, <1>5 DEF ReadResult, resultVars
  <2> QED
    BY <1>3, <2>1
<1>6. CASE ~(Len(b) < MaxConfigs)
  <2>1. /\ r1 = IF Names(file[at], 0) THEN Append(r, p) ELSE r
        /\ s1 = IF Names(file[at], k) THEN Append(s, p) ELSE s
    BY <1>1, <1>2, <1>6 DEF ReadResult
  <2>2. Names(file[at], 0) <=> at \in Results /\ Begins(file[at].config, b[1])
    <3>1. Names(file[at], 0) <=> at \in Results /\ Begins(file[at].config, b[0 + 1])
      BY <1>1, LinesNamed
    <3> QED
      BY <3>1
  <2>3. Names(file[at], k) <=> at \in Results
    <3>1. file[at].config \in Seq(STRING)
      BY <1>1, FilesAssumption DEF Types
    <3> QED
      BY <1>1, <3>1, LinesNamed, BeginsItself
  <2>4. CASE at \in Results
    <3>1. p \in Pair /\ s1 = Append(s, p)
      BY <1>2, <2>1, <2>3, <2>4 DEF Pair
    <3>2. r1 = Append(r, p) \/ (r1 = r /\ Len(r) >= MaxInputs)
      BY <1>1, <1>2, <2>1, <2>2, <2>4, GoldenFull
    <3> QED
      BY <1>3, <3>1, <3>2, EchoKept
  <2>5. CASE at \notin Results
    BY <1>3, <2>1, <2>2, <2>3, <2>5
  <2> QED
    BY <2>4, <2>5
<1> QED
  BY <1>5, <1>6

(* Nothing is recorded unless the list is long enough.                     *)
Listed == Len(golden_results) > 0 => Len(b) >= MaxConfigs

LEMMA ListedInv == Spec => []Listed
<1>1. Init => Listed
  BY DEF Init, Listed
<1>2. IInv /\ Listed /\ [Next]_vars => Listed'
  <2> SUFFICES ASSUME IInv, Listed, [Next]_vars
               PROVE  Listed'
    OBVIOUS
  <2>1. CASE ReadHeader
    BY <2>1 DEF ReadHeader, resultVars, IInv, Types, Listed
  <2>2. CASE ReadResult
    <3>1. CASE Len(b) < MaxConfigs
      BY <2>2, <3>1 DEF ReadResult, resultVars, Listed
    <3>2. CASE ~(Len(b) < MaxConfigs)
      <4>1. Len(b) \in Nat /\ MaxConfigs \in Nat
        BY SizesAssumption DEF IInv, Types
      <4> QED
        BY <2>2, <3>2, <4>1 DEF ReadResult, Listed
    <3> QED
      BY <3>1, <3>2
  <2>3. ASSUME UNCHANGED <<b, golden_results>>
        PROVE  Listed'
    BY <2>3 DEF Listed
  <2>4. CASE SecondPass \/ BeginJoint \/ DetectJointly \/ BeginMetric \/ AddRow \/ Compute
    BY <2>3, <2>4
       DEF SecondPass, BeginJoint, DetectJointly, BeginMetric, AddRow, Compute, resultVars
  <2>5. CASE UNCHANGED vars
    BY <2>3, <2>5 DEF vars
  <2> QED
    BY <2>1, <2>2, <2>4, <2>5 DEF Next
<1> QED
  BY <1>1, <1>2, Invariance, PTL DEF Spec

LEMMA EchoesInv == Spec => []Echoes
<1>1. Init => Echoes
  BY DEF Init, Echoes
<1>2. IInv /\ Echoes /\ [Next]_vars => Echoes'
  <2> SUFFICES ASSUME IInv, Echoes, [Next]_vars, NEW k \in 1 .. MaxConfigs - 1,
                      pc' \in {"results", "joint", "metric", "done"},
                      k < Len(b'), b'[k + 1] = <<>>
               PROVE  Echo(k)'
    BY DEF Echoes
  <2>1. CASE ReadHeader
    BY <2>1 DEF ReadHeader, IInv, Types
  <2>2. CASE SecondPass
    <3>1. k \in Row
      BY SizesAssumption DEF Row
    <3>2. golden_results' = <<>> /\ test_results'[k] = <<>>
      BY <2>2, <3>1 DEF SecondPass, resultVars, IInv, Types
    <3> QED
      BY <3>2, SizesAssumption DEF Echo, Alike
  <2>3. CASE ReadResult
    <3>1. b' = b
      BY <2>3 DEF ReadResult
    <3> QED
      BY <2>3, <3>1, EchoStep
  <2>4. ASSUME UNCHANGED <<b, golden_results, test_results>>,
               pc \in {"results", "joint", "metric", "done"}
        PROVE  Echo(k)'
    BY <2>4 DEF Echoes, Echo
  <2>5. CASE BeginJoint \/ DetectJointly \/ BeginMetric \/ AddRow \/ Compute
    BY <2>4, <2>5 DEF BeginJoint, DetectJointly, BeginMetric, AddRow, Compute, resultVars
  <2>6. CASE UNCHANGED vars
    BY <2>4, <2>6 DEF vars
  <2> QED
    BY <2>1, <2>2, <2>3, <2>5, <2>6 DEF Next
<1> QED
  BY <1>1, <1>2, Invariance, PTL DEF Spec

(* A row of empty text is compared with its own echo, and counts as never  *)
(* detected, whatever the circuits answered.                               *)
THEOREM CutHeader == Spec => []CutHeaderUndetected
<1>1. ASSUME IInv, Echoes, Listed PROVE CutHeaderUndetected
  <2>1. SUFFICES ASSUME Counted, NEW k \in 1 .. MaxConfigs - 1, b[k + 1] = <<>>
                 PROVE  Detections(b[k + 1]) = {}
    BY <1>1, UndetectedRow DEF CutHeaderUndetected
  <2>2. /\ Types /\ ListSoFar /\ RowsSoFar /\ k \in Row /\ 0 \in Row /\ k # 0
        /\ MaxInputs \in Nat /\ MaxConfigs \in Nat
        /\ pc \in {"metric", "done"} /\ file \in Files
        /\ Len(golden_results) \in Nat /\ Len(test_results[k]) \in Nat
    <3>1. /\ Types /\ ListSoFar /\ RowsSoFar /\ pc \in {"metric", "done"}
      BY <1>1, <2>1 DEF IInv, Counted
    <3>2. /\ MaxInputs \in Nat /\ MaxConfigs \in Nat \ {0, 1} /\ k # 0
          /\ k \in Row /\ 0 \in Row
      BY SizesAssumption DEF Row
    <3>3. /\ file \in Files /\ golden_results \in Seq(Pair)
          /\ test_results[k] \in Seq(Pair)
      BY <3>1, <3>2 DEF Types
    <3>4. Len(golden_results) \in Nat /\ Len(test_results[k]) \in Nat
      BY <3>3
    <3> QED
      BY <3>1, <3>2, <3>3, <3>4
  <2>3. Len(golden_results) >= MaxInputs /\ Len(test_results[k]) >= MaxInputs
    BY <1>1, <2>1, <2>2 DEF IInv, DetectionsSoFar, Searched, Counted, Full, Recorded
  <2>4. SUFFICES ASSUME NEW i \in 0 .. MaxInputs - 1, FailAlike(<<>>, i)
                 PROVE  FALSE
    BY <2>1 DEF Detections
  <2>5. i + 1 \in 1 .. MaxInputs /\ i < Len(golden_results) /\ i < Len(test_results[k])
        /\ i + 1 <= Len(golden_results)
    BY <2>2, <2>3
  <2>6. PICK n \in FirstOf(<<>>, i) : test_results[k][i + 1] = <<file[n].v0, file[n].v1>>
    BY <2>1, <2>2, <2>5 DEF RowsSoFar, InPlace, Recorded
  <2>7. PICK g \in FirstOf(b[1], i) : golden_results[i + 1] = <<file[g].v0, file[g].v1>>
    <3>1. InPlace(0) /\ Recorded(0) = golden_results
      BY <2>2 DEF RowsSoFar, Recorded
    <3>2. \E g \in FirstOf(b[0 + 1], i) :
            golden_results[i + 1] = <<file[g].v0, file[g].v1>>
      BY <2>5, <3>1 DEF InPlace
    <3> QED
      BY <3>2
  <2>8. test_results[k][i + 1] = golden_results[i + 1]
    <3>1. k < Len(b)
      <4>1. Len(golden_results) > 0 /\ Len(b) \in Nat
        BY <2>2, <2>5 DEF Types
      <4> QED
        BY <1>1, <2>1, <2>2, <4>1 DEF Listed
    <3> QED
      BY <1>1, <2>1, <2>2, <2>5, <3>1 DEF Echoes, Echo, Alike
  <2>9. b[1] = ConfigOf(0)
    <3>1. g \in Results
      BY DEF FirstOf, LinesOf
    <3> QED
      BY <2>2, <3>1, GoldenListed
  <2>10. PICK l \in FirstOf(<<>>, i), h \in FirstOf(ConfigOf(0), i) : file[l].v0 # file[h].v0
    BY <2>4 DEF FailAlike
  <2>11. l = n /\ h = g
    BY <2>2, <2>6, <2>7, <2>9, <2>10, FirstIsOne
  <2> QED
    BY <2>6, <2>7, <2>8, <2>10, <2>11
<1> QED
  BY <1>1, Invariance, EchoesInv, ListedInv, PTL

(* The configurations with the numbers up to Base stand in their rows, in  *)
(* whatever order greater numbers come after them.                         *)
THEOREM FirstNumbered == Spec => []FirstRowsNumbered
<1>1. ASSUME IInv PROVE FirstRowsNumbered
  <2>1. SUFFICES ASSUME pc = "results", Complete, NEW x \in Row, x <= Base
                 PROVE  b[x + 1] = ConfigOf(x)
    BY DEF FirstRowsNumbered, NumberedUpTo
  <2>2. PICK n \in Headers : file[n].m = x
    BY <2>1 DEF Complete
  <2>3. n \in HeadersRead
    BY <2>1 DEF HeadersRead
  <2>4. b[x + 1] = Text(file[n])
    BY <1>1, <2>1, <2>2, <2>3 DEF IInv, ListSoFar, StandsAtNumber
  <2> QED
    BY <1>1, <2>2, <2>4, ConfigOfHeader DEF IInv, Types
<1> QED
  BY <1>1, Invariance, PTL

(* On a complete file no list is too short and no row incomplete: only     *)
(* Joint_detect may be without a value, when nothing was detected.         *)
THEOREM FailsWhenDiverse == Spec => []FailsOnlyWhenDiverse
<1>1. IInv => FailsOnlyWhenDiverse
  BY DEF IInv
<1> QED
  BY <1>1, Invariance, PTL

(* What the script prints, whatever the file.                              *)
LEMMA MetricPrinted ==
  ASSUME IInv
  PROVE  MetricCountsRows
<1>1. SUFFICES ASSUME pc = "done"
               PROVE  /\ DetectedRows # {}
                      /\ D_metric = Patterns * (MaxConfigs - Cardinality(DetectedRows)) - 1
  BY DEF MetricCountsRows
<1> DEFINE rows == 1 .. MaxConfigs - 1
           none == Undetected(MaxConfigs - 1)
<1>2. /\ count_JD = Cardinality(none) /\ none # rows
      /\ D_metric = Patterns - 1 + Patterns * count_JD
  BY <1>1 DEF IInv, Types, MetricSoFar, Counted, UndetectedSoFar
<1>3. MaxConfigs \in Nat /\ MaxConfigs > 1 /\ Patterns \in Nat
  BY SizesAssumption
<1>4. IsFiniteSet(rows) /\ Cardinality(rows) = MaxConfigs - 1
  <2>1. 1 \in Int /\ MaxConfigs - 1 \in Int
    BY <1>3
  <2> QED
    BY <1>3, <2>1, FS_Interval
<1>5. none \subseteq rows
  BY DEF Undetected
<1>6. DetectedRows = rows \ none
  BY <1>1, UndetectedRow DEF DetectedRows, Undetected, Counted
<1> HIDE DEF rows, none
<1>7. Cardinality(DetectedRows) = MaxConfigs - 1 - count_JD
  <2>1. rows \cap none = none
    BY <1>5
  <2>2. Cardinality(rows \ none) = Cardinality(rows) - Cardinality(rows \cap none)
    BY <1>4, FS_Difference
  <2> QED
    BY <1>2, <1>4, <1>6, <2>1, <2>2
<1>8. count_JD \in Nat
  <2>1. IsFiniteSet(none)
    BY <1>4, <1>5, FS_Subset
  <2> QED
    BY <1>2, <2>1, FS_CardinalityType
<1>9. MaxConfigs - Cardinality(DetectedRows) = count_JD + 1
  BY <1>3, <1>7, <1>8
<1>10. Patterns * (count_JD + 1) = Patterns + Patterns * count_JD
  BY <1>3, <1>8
<1>11. Patterns * count_JD \in Nat
  BY <1>3, <1>8
<1>12. Patterns * (MaxConfigs - Cardinality(DetectedRows)) = Patterns + Patterns * count_JD
  BY <1>9, <1>10
<1>13. DetectedRows # {}
  BY <1>2, <1>5, <1>6
<1> QED
  BY <1>2, <1>3, <1>11, <1>12, <1>13

(* The number printed counts the rows that were detected jointly.          *)
THEOREM RowsAreCounted == Spec => []MetricCountsRows
BY Invariance, MetricPrinted, PTL

(* It is the mean diversity when there is but one detection, and every     *)
(* configuration stands in its row.                                        *)
THEOREM OneDetection == Spec => []MetricOfOneDetection
<1>1. ASSUME IInv PROVE MetricOfOneDetection
  <2>1. SUFFICES ASSUME pc = "done", \A x \in Row : b[x + 1] = ConfigOf(x),
                        Cardinality(JointDetections) = 1
                 PROVE  D_metric = MeanDiversity
    BY DEF MetricOfOneDetection
  <2>2. MaxConfigs \in Nat /\ MaxConfigs > 1 /\ MaxInputs \in Nat /\ Patterns \in Nat
    BY SizesAssumption
  <2>3. PICK d : JointDetections = {d}
    <3>1. IsFiniteSet(JointDetections)
      <4>1. 1 \in Int /\ 0 \in Int /\ MaxConfigs - 1 \in Int /\ MaxInputs - 1 \in Int
        BY <2>2
      <4>2. IsFiniteSet(1 .. MaxConfigs - 1) /\ IsFiniteSet(0 .. MaxInputs - 1)
        BY <4>1, FS_Interval
      <4>3. IsFiniteSet((1 .. MaxConfigs - 1) \X (0 .. MaxInputs - 1))
        BY <4>2, FS_Product
      <4> QED
        BY <4>3, FS_Subset DEF JointDetections
    <3> QED
      BY <2>1, <3>1, FS_Singleton
  <2>4. d[1] \in 1 .. MaxConfigs - 1 /\ d[2] \in Detections(ConfigOf(d[1]))
    BY <2>3 DEF JointDetections, Detections
  <2>5. ASSUME NEW k \in 1 .. MaxConfigs - 1, NEW i \in Detections(ConfigOf(k))
        PROVE  k = d[1]
    <3>1. <<k, i>> \in JointDetections
      BY DEF JointDetections, Detections
    <3> QED
      BY <2>3, <3>1
  <2>6. \A k \in 1 .. MaxConfigs - 1 : b[k + 1] = ConfigOf(k)
    BY <2>1, <2>2 DEF Row
  <2>7. DetectedRows = {d[1]}
    BY <2>4, <2>5, <2>6 DEF DetectedRows
  <2>8. Cardinality(DetectedRows) = 1
    BY <2>7, FS_Singleton
  <2>9. D_metric = Patterns * (MaxConfigs - 1) - 1
    BY <1>1, <2>1, <2>8, MetricPrinted DEF MetricCountsRows
  <2> QED
    BY <2>1, <2>9 DEF MeanDiversity
<1> QED
  BY <1>1, Invariance, PTL
============================================================================
