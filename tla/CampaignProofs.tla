--------------------------- MODULE CampaignProofs ---------------------------
(***************************************************************************)
(* Proofs about Campaign, for all sizes, configurations, stimuli and       *)
(* answers of the circuits.  They are made once here and hold for every    *)
(* module that implements Campaign.                                        *)
(***************************************************************************)
EXTENDS Campaign, SequenceTheorems, TLAPS

SizesAreNumbers == Sizes \subseteq [tests : Nat, inputs : Nat]

-----------------------------------------------------------------------------
(* The inductive invariant.                                                *)

IsSequence(s) == \E S : s \in Seq(S)

LineOK(r) ==
  /\ r.kind \in {"header", "result"} /\ r.parts \in Nat
  /\ r.kind = "header" => DOMAIN r = {"kind", "m", "config", "parts"}
  /\ r.kind = "result" => /\ r.j \in Nat
                          /\ DOMAIN r = {"kind", "j", "v0", "v1", "input", "config", "parts"}

Types ==
  /\ IsSequence(log) /\ \A n \in DOMAIN log : LineOK(log[n])
  /\ TypeOK
  /\ phase = "idle" => row = 0 /\ col = 0
  /\ phase = "ended" => row = size.tests /\ (row > 0 => RowComplete)

(* The last row: its header, and below it only its results.                *)
LastRow ==
  row > 0 =>
    /\ Len(log) - col \in DOMAIN log
    /\ RowHeader.kind = "header"
    /\ \A k \in Len(log) - col + 1 .. Len(log) : log[k].kind = "result"

Lines == size.inputs + 1
RowsAbove(x) == x * Lines

(* The lines that were there before this campaign.                         *)
Before == Len(log) - (RowsAbove(row) + col - size.inputs)

HeaderAt(x) == Before + RowsAbove(x) + 1

HeaderThere(x) ==
  /\ HeaderAt(x) \in DOMAIN log
  /\ log[HeaderAt(x)].kind = "header" /\ log[HeaderAt(x)].m = x

ResultThere(x, i) ==
  /\ HeaderAt(x) + 1 + i \in DOMAIN log
  /\ log[HeaderAt(x) + 1 + i].kind = "result" /\ log[HeaderAt(x) + 1 + i].j = i

(* The rows so far, all but the last of them complete.                     *)
MatrixSoFar ==
  row > 0 =>
    /\ Before >= 0
    /\ \A x \in 0 .. row - 1 :
         /\ HeaderThere(x)
         /\ \A i \in 0 .. size.inputs - 1 :
              x < row - 1 \/ i < col => ResultThere(x, i)

(* None of its entries is cut but possibly the last one.                   *)
WholeSoFar == row > 0 => \A n \in Before + 1 .. Len(log) - 1 : Whole(log[n])

Inv == Types /\ LastRow /\ EachUnderItsHeader /\ MatrixSoFar /\ WholeSoFar

-----------------------------------------------------------------------------
(* One more line leaves the lines above it in their places.                *)
LEMMA Appending ==
  ASSUME NEW s, NEW e, IsSequence(s)
  PROVE  /\ IsSequence(Append(s, e))
         /\ Len(s) \in Nat /\ DOMAIN s = 1 .. Len(s)
         /\ Len(Append(s, e)) = Len(s) + 1
         /\ DOMAIN Append(s, e) = 1 .. Len(s) + 1
         /\ Append(s, e)[Len(s) + 1] = e
         /\ \A k \in 1 .. Len(s) : Append(s, e)[k] = s[k]
<1> PICK S : s \in Seq(S)
  BY DEF IsSequence
<1> DEFINE T == S \cup {e}
<1>1. s \in Seq(T)
  OBVIOUS
<1>2. e \in T
  OBVIOUS
<1> HIDE DEF T
<1>3. Append(s, e) \in Seq(T)
  BY <1>1, <1>2
<1> QED
  BY <1>1, <1>2, <1>3 DEF IsSequence

(* One append more leaves of an entry all but the number of its appends.   *)
SameEntry(e, q) ==
  /\ q.kind = e.kind /\ q.config = e.config
  /\ e.kind = "header" => q.m = e.m
  /\ e.kind = "result" => q.j = e.j

SameEntries(s, t) ==
  /\ IsSequence(t) /\ Len(t) = Len(s) /\ DOMAIN t = DOMAIN s
  /\ \A n \in DOMAIN s : SameEntry(s[n], t[n]) /\ LineOK(t[n])
  /\ \A n \in DOMAIN s : n < Len(s) => t[n] = s[n]

LEMMA EntryContinued ==
  ASSUME NEW e, LineOK(e)
  PROVE  SameEntry(e, OneMore(e)) /\ LineOK(OneMore(e))
<1>1. CASE e.kind = "header"
  <2>1. DOMAIN e = {"kind", "m", "config", "parts"} /\ e.parts \in Nat
    BY <1>1 DEF LineOK
  <2> QED
    BY <1>1, <2>1 DEF SameEntry, OneMore, LineOK
<1>2. CASE e.kind = "result"
  <2>1. /\ DOMAIN e = {"kind", "j", "v0", "v1", "input", "config", "parts"}
        /\ e.parts \in Nat /\ e.j \in Nat
    BY <1>2 DEF LineOK
  <2> QED
    BY <1>2, <2>1 DEF SameEntry, OneMore, LineOK
<1> QED
  BY <1>1, <1>2 DEF LineOK

LEMMA LogContinued ==
  ASSUME NEW s, IsSequence(s), Len(s) \in DOMAIN s, \A n \in DOMAIN s : LineOK(s[n])
  PROVE  SameEntries(s, Continued(s))
<1>1. PICK S : s \in Seq(S)
  BY DEF IsSequence
<1> DEFINE q == OneMore(s[Len(s)])
           t == Continued(s)
           T == S \cup {q}
<1>2. Len(s) \in Nat /\ DOMAIN s = 1 .. Len(s) /\ s \in Seq(T)
  BY <1>1
<1>3. t = [s EXCEPT ![Len(s)] = q]
  BY DEF Continued
<1>4. SameEntry(s[Len(s)], q) /\ LineOK(q)
  BY EntryContinued
<1> HIDE DEF q, t
<1>5. /\ t \in Seq(T) /\ Len(t) = Len(s) /\ DOMAIN t = DOMAIN s
      /\ t[Len(s)] = q /\ \A n \in DOMAIN s : n # Len(s) => t[n] = s[n]
  BY <1>2, <1>3
<1>6. \A n \in DOMAIN s : SameEntry(s[n], s[n])
  BY DEF SameEntry
<1>7. ASSUME NEW n \in DOMAIN s
      PROVE  SameEntry(s[n], t[n]) /\ LineOK(t[n])
  BY <1>4, <1>5, <1>6
<1> QED
  BY <1>2, <1>5, <1>7 DEF SameEntries, IsSequence, t

(* Nothing is there at the start.                                          *)
LEMMA InvInit ==
  ASSUME SizesAreNumbers, Init
  PROVE  Inv
<1>1. log \in Seq({}) /\ Len(log) = 0 /\ DOMAIN log = {}
  BY DEF Init
<1> QED
  BY <1>1 DEF Init, Inv, Types, IsSequence, TypeOK, NoSize, LastRow,
              EachUnderItsHeader, MatrixSoFar, WholeSoFar

(* The number of lines of the rows above a row.                            *)
LEMMA OneRowMore ==
  ASSUME NEW n \in Nat, size.inputs \in Nat
  PROVE  RowsAbove(n) \in Nat /\ RowsAbove(n + 1) = RowsAbove(n) + Lines
<1>1. Lines \in Nat
  BY DEF Lines
<1>2. ASSUME NEW k \in Nat
      PROVE  n * k \in Nat /\ (n + 1) * k = n * k + k
  OBVIOUS
<1> QED
  BY <1>1, <1>2 DEF RowsAbove

LEMMA BeforeCounted ==
  ASSUME SizesAreNumbers, Inv
  PROVE  Before \in Int
<1>1. /\ Len(log) \in Nat /\ row \in Nat /\ col \in Nat /\ size.inputs \in Nat
  BY DEF Inv, Types, IsSequence, TypeOK, SizesAreNumbers, NoSize
<1>2. RowsAbove(row) \in Nat
  BY <1>1, OneRowMore
<1> QED
  BY <1>1, <1>2 DEF Before

(* A header is the first line of a new row; the row before it is complete. *)
LEMMA HeaderStep ==
  ASSUME SizesAreNumbers, Inv, Header
  PROVE  Inv'
<1>0. PICK r : log' = Append(log, r) /\ r.kind = "header" /\ r.m = row /\ LineOK(r)
  <2>1. PICK c \in Configs : log' = Append(log,
          [kind |-> "header", m |-> row, config |-> c, parts |-> 1])
    BY DEF Header
  <2> QED
    BY <2>1 DEF LineOK
<1>1. /\ IsSequence(log') /\ Len(log) \in Nat /\ DOMAIN log = 1 .. Len(log)
      /\ Len(log') = Len(log) + 1 /\ DOMAIN log' = 1 .. Len(log) + 1
      /\ log'[Len(log) + 1] = r
      /\ \A k \in 1 .. Len(log) : log'[k] = log[k]
  <2> PICK old : old = log
    OBVIOUS
  <2>1. IsSequence(old)
    BY DEF Inv, Types
  <2>2. /\ IsSequence(Append(old, r))
        /\ Len(old) \in Nat /\ DOMAIN old = 1 .. Len(old)
        /\ Len(Append(old, r)) = Len(old) + 1
        /\ DOMAIN Append(old, r) = 1 .. Len(old) + 1
        /\ Append(old, r)[Len(old) + 1] = r
        /\ \A k \in 1 .. Len(old) : Append(old, r)[k] = old[k]
    BY <2>1, Appending
  <2> QED
    BY <1>0, <2>2
<1>2. r.kind = "header" /\ r.m = row /\ LineOK(r)
  BY <1>0
<1>3. /\ row' = row + 1 /\ col' = 0 /\ size' = size /\ phase' = "running"
      /\ row \in Nat /\ size.inputs \in Nat /\ size.tests \in Nat
      /\ row < size.tests /\ (row > 0 => col = size.inputs /\ LastWhole)
  BY DEF Header, Inv, Types, TypeOK, SizesAreNumbers, NoSize, MoreRows, RowComplete
<1>4. Types'
  <2>1. \A n \in DOMAIN log' : LineOK(log'[n])
    BY <1>1, <1>2 DEF Inv, Types
  <2> QED
    BY <1>1, <1>2, <1>3, <2>1 DEF Inv, Types, TypeOK, LineOK
<1>5. LastRow'
  BY <1>1, <1>2, <1>3 DEF LastRow, RowHeader
<1>6. EachUnderItsHeader'
  <2> SUFFICES ASSUME NEW n \in DOMAIN log', log'[n].kind = "result"
               PROVE  LET h == n - 1 - log'[n].j
                      IN  /\ h \in DOMAIN log' /\ log'[h].kind = "header"
                          /\ log'[h].config = log'[n].config
                          /\ \A k \in h + 1 .. n - 1 : log'[k].kind = "result"
    BY DEF EachUnderItsHeader
  <2>1. n \in DOMAIN log /\ log'[n] = log[n]
    BY <1>1, <1>2
  <2> QED
    BY <1>1, <2>1, SMTT(30) DEF Inv, Types, LineOK, EachUnderItsHeader
<1>7. MatrixSoFar'
  <2>1. /\ Before' = Len(log) - RowsAbove(row) /\ Before' \in Int /\ Lines' = Lines
        /\ Before' >= 0 /\ (row > 0 => Before' = Before)
    <3>1. Lines' = Lines /\ Lines = size.inputs + 1
      BY <1>3 DEF Lines
    <3>2. RowsAbove(row) \in Nat /\ RowsAbove(row)' = RowsAbove(row) + Lines
      BY <1>3, <3>1, OneRowMore DEF RowsAbove
    <3>3. Before' = Len(log) - RowsAbove(row) /\ Before' \in Int
      <4>1. /\ Len(log) \in Nat /\ Len(log') = Len(log) + 1
            /\ col' = 0 /\ size.inputs \in Nat /\ size'.inputs = size.inputs
        BY <1>1, <1>3
      <4> QED
        BY <3>1, <3>2, <4>1, SMTT(30) DEF Before
    <3>4. row > 0 => Before = Len(log) - RowsAbove(row) /\ Before >= 0
      BY <1>1, <1>3, <3>2 DEF Before, Inv, MatrixSoFar
    <3>5. row = 0 => RowsAbove(row) = 0
      BY <1>3, <3>1 DEF RowsAbove
    <3> QED
      BY <1>1, <1>3, <3>1, <3>2, <3>3, <3>4, <3>5
  <2> PICK n : n = row
    OBVIOUS
  <2>2. HeaderAt(n)' = Len(log) + 1
    <3>1. RowsAbove(n)' = RowsAbove(row) /\ RowsAbove(row) \in Nat
      BY <1>3, <2>1, OneRowMore DEF RowsAbove
    <3> QED
      BY <1>1, <2>1, <3>1 DEF HeaderAt
  <2>3. ASSUME NEW x \in 0 .. row - 1
        PROVE  HeaderAt(x)' = HeaderAt(x)
    BY <1>3, <2>1 DEF HeaderAt, RowsAbove
  <2>4. ASSUME NEW x \in 0 .. row - 1
        PROVE  /\ HeaderThere(x)'
               /\ \A i \in 0 .. size.inputs - 1 : ResultThere(x, i)'
    <3>1. HeaderThere(x) /\ \A i \in 0 .. size.inputs - 1 : ResultThere(x, i)
      BY <1>3 DEF Inv, MatrixSoFar
    <3>2. HeaderThere(x)'
      BY <1>1, <2>3, <3>1 DEF HeaderThere
    <3>3. ASSUME NEW i \in 0 .. size.inputs - 1
          PROVE  ResultThere(x, i)'
      BY <1>1, <2>3, <3>1 DEF ResultThere
    <3> QED
      BY <1>3, <3>2, <3>3
  <2>5. HeaderThere(n)'
    BY <1>1, <1>2, <1>3, <2>2 DEF HeaderThere
  <2> QED
    BY <1>3, <2>1, <2>4, <2>5 DEF MatrixSoFar
<1>8. WholeSoFar'
  <2>1. /\ Before' \in Int /\ (row > 0 => Before' = Before)
        /\ row = 0 => Before' = Len(log)
    <3>1. Lines \in Nat /\ Lines = size.inputs + 1 /\ Lines' = Lines
      BY <1>3 DEF Lines
    <3>2. /\ RowsAbove(row) \in Nat /\ RowsAbove(row)' = RowsAbove(row) + Lines
          /\ row = 0 => RowsAbove(row) = 0
      <4>1. RowsAbove(row) \in Nat /\ RowsAbove(row)' = RowsAbove(row) + Lines
        BY <1>3, <3>1, OneRowMore DEF RowsAbove
      <4>2. row = 0 => RowsAbove(row) = 0
        BY <1>3, <3>1 DEF RowsAbove
      <4> QED
        BY <4>1, <4>2
    <3>3. PICK a, last, n : a = RowsAbove(row) /\ last = Len(log) /\ n = size.inputs
      OBVIOUS
    <3>4. Before' = (last + 1) - ((a + (n + 1)) + 0 - n)
      BY <1>1, <1>3, <3>1, <3>2, <3>3 DEF Before
    <3>5. row > 0 => Before = last - (a + n - n)
      BY <1>3, <3>3 DEF Before
    <3>6. a \in Nat /\ last \in Nat /\ n \in Nat /\ (row = 0 => a = 0)
      BY <1>1, <1>3, <3>2, <3>3
    <3> QED
      BY <1>1, <3>3, <3>4, <3>5, <3>6
  <2>2. ASSUME NEW n \in Before' + 1 .. Len(log)
        PROVE  Whole(log'[n])
    <3>1. CASE row = 0
      <4>1. PICK a : a = Before'
        OBVIOUS
      <4>2. a = Len(log) /\ Len(log) \in Nat /\ n \in a + 1 .. Len(log)
        BY <1>1, <2>1, <2>2, <3>1, <4>1
      <4> QED
        BY <4>2
    <3>2. CASE row > 0
      <4>1. Before >= 0
        BY <3>2 DEF Inv, MatrixSoFar
      <4>2. n \in 1 .. Len(log) /\ n \in Before + 1 .. Len(log)
        BY <1>1, <2>1, <2>2, <3>2, <4>1
      <4>3. Whole(log[n])
        BY <1>1, <1>3, <2>1, <3>2, <4>2 DEF Inv, WholeSoFar, LastWhole
      <4> QED
        BY <1>1, <4>2, <4>3
    <3> QED
      BY <1>3, <3>1, <3>2
  <2>3. Len(log') - 1 = Len(log)
    BY <1>1
  <2> QED
    BY <2>2, <2>3 DEF WholeSoFar
<1> QED
  BY <1>4, <1>5, <1>6, <1>7, <1>8 DEF Inv

(* A result is the next line of the row in progress.                       *)
LEMMA ResultStep ==
  ASSUME SizesAreNumbers, Inv, Result
  PROVE  Inv'
<1>0. PICK r : /\ log' = Append(log, r) /\ (col \in Nat => LineOK(r))
               /\ r.kind = "result" /\ r.j = col /\ r.config = RowHeader.config
  <2>1. PICK t \in Stimuli : \E v \in Answered(RowHeader.config, t) : log' = Append(log,
          [kind |-> "result", j |-> col, v0 |-> v[1], v1 |-> v[2], input |-> t,
           config |-> RowHeader.config, parts |-> 1])
    BY DEF Result
  <2> QED
    BY <2>1 DEF LineOK
<1>1. /\ IsSequence(log') /\ Len(log) \in Nat /\ DOMAIN log = 1 .. Len(log)
      /\ Len(log') = Len(log) + 1 /\ DOMAIN log' = 1 .. Len(log) + 1
      /\ log'[Len(log) + 1] = r
      /\ \A k \in 1 .. Len(log) : log'[k] = log[k]
  <2> PICK old : old = log
    OBVIOUS
  <2>1. IsSequence(old)
    BY DEF Inv, Types
  <2>2. /\ IsSequence(Append(old, r))
        /\ Len(old) \in Nat /\ DOMAIN old = 1 .. Len(old)
        /\ Len(Append(old, r)) = Len(old) + 1
        /\ DOMAIN Append(old, r) = 1 .. Len(old) + 1
        /\ Append(old, r)[Len(old) + 1] = r
        /\ \A k \in 1 .. Len(old) : Append(old, r)[k] = old[k]
    BY <2>1, Appending
  <2> QED
    BY <1>0, <2>2
<1>3. /\ row' = row /\ col' = col + 1 /\ size' = size /\ phase' = "running"
      /\ row \in Nat /\ row > 0 /\ col \in Nat /\ col < size.inputs
      /\ size.inputs \in Nat /\ size.tests \in Nat /\ LastWhole
  BY DEF Result, Inv, Types, TypeOK, SizesAreNumbers, NoSize
<1>2. r.kind = "result" /\ r.j = col /\ r.config = log[Len(log) - col].config /\ LineOK(r)
  BY <1>0, <1>3 DEF RowHeader
<1>4. Types'
  <2>1. \A n \in DOMAIN log' : LineOK(log'[n])
    BY <1>1, <1>2 DEF Inv, Types
  <2> QED
    BY <1>1, <1>2, <1>3, <2>1 DEF Inv, Types, TypeOK, LineOK
<1>5. LastRow'
  <2>1. /\ Len(log) - col \in 1 .. Len(log) /\ log[Len(log) - col].kind = "header"
        /\ \A k \in Len(log) - col + 1 .. Len(log) : log[k].kind = "result"
    BY <1>1, <1>3 DEF Inv, LastRow, RowHeader
  <2>2. Len(log') - col' = Len(log) - col
    BY <1>1, <1>3
  <2>3. ASSUME NEW k \in Len(log) - col + 1 .. Len(log) + 1
        PROVE  log'[k].kind = "result"
    <3>1. CASE k = Len(log) + 1
      BY <1>1, <1>2, <3>1
    <3>2. CASE k # Len(log) + 1
      BY <1>1, <1>3, <2>1, <3>2
    <3> QED
      BY <3>1, <3>2
  <2> QED
    BY <1>1, <1>3, <2>1, <2>2, <2>3 DEF LastRow, RowHeader
<1>6. EachUnderItsHeader'
  <2> SUFFICES ASSUME NEW n \in DOMAIN log', log'[n].kind = "result"
               PROVE  LET h == n - 1 - log'[n].j
                      IN  /\ h \in DOMAIN log' /\ log'[h].kind = "header"
                          /\ log'[h].config = log'[n].config
                          /\ \A k \in h + 1 .. n - 1 : log'[k].kind = "result"
    BY DEF EachUnderItsHeader
  <2>1. CASE n = Len(log) + 1
    <3>1. n - 1 - log'[n].j = Len(log) - col
      BY <1>1, <1>2, <1>3, <2>1
    <3>2. /\ Len(log) - col \in 1 .. Len(log) /\ log[Len(log) - col].kind = "header"
          /\ \A k \in Len(log) - col + 1 .. Len(log) : log[k].kind = "result"
      BY <1>1, <1>3 DEF Inv, LastRow, RowHeader
    <3>3. log'[n].config = log[Len(log) - col].config
      BY <1>1, <1>2, <2>1
    <3>4. \A k \in Len(log) - col + 1 .. Len(log) : log'[k] = log[k]
      BY <1>1, <3>2
    <3> QED
      BY <1>1, <2>1, <3>1, <3>2, <3>3, <3>4
  <2>2. CASE n # Len(log) + 1
    <3>1. n \in DOMAIN log /\ log'[n] = log[n]
      BY <1>1, <2>2
    <3> QED
      BY <1>1, <3>1, SMTT(30) DEF Inv, Types, LineOK, EachUnderItsHeader
  <2> QED
    BY <2>1, <2>2
<1>7. MatrixSoFar'
  <2>1. Before' = Before /\ Before \in Int /\ Before >= 0 /\ Lines' = Lines
    <3>1. Lines' = Lines /\ RowsAbove(row)' = RowsAbove(row)
      BY <1>3 DEF Lines, RowsAbove
    <3>2. RowsAbove(row) \in Nat
      BY <1>3, OneRowMore
    <3>3. Before >= 0
      BY <1>3 DEF Inv, MatrixSoFar
    <3> QED
      <4>1. /\ Len(log) \in Nat /\ Len(log') = Len(log) + 1
            /\ col \in Nat /\ col' = col + 1
            /\ size.inputs \in Nat /\ size'.inputs = size.inputs
        BY <1>1, <1>3
      <4> QED
        BY <3>1, <3>2, <3>3, <4>1 DEF Before
  <2>2. ASSUME NEW x \in 0 .. row - 1
        PROVE  HeaderAt(x)' = HeaderAt(x)
    BY <2>1 DEF HeaderAt, RowsAbove
  <2>0. PICK last, c : last = row - 1 /\ c = col
    OBVIOUS
  <2>3. HeaderAt(last) = Len(log) - col
    <3>1. /\ RowsAbove(last) \in Nat /\ RowsAbove(row) = RowsAbove(last) + Lines
          /\ Lines = size.inputs + 1
      <4>1. last \in Nat /\ row = last + 1
        BY <1>3, <2>0
      <4> QED
        BY <1>3, <4>1, OneRowMore DEF Lines
    <3> QED
      <4>1. Len(log) \in Nat /\ col \in Nat /\ size.inputs \in Nat
        BY <1>1, <1>3
      <4>2. Before = Len(log) - (RowsAbove(last) + 1 + col)
        BY <3>1, <4>1 DEF Before
      <4> QED
        BY <3>1, <4>1, <4>2 DEF HeaderAt
  <2>4. ASSUME NEW x \in 0 .. row - 1
        PROVE  HeaderThere(x)'
    BY <1>1, <1>3, <2>2 DEF Inv, MatrixSoFar, HeaderThere
  <2>5. ASSUME NEW x \in 0 .. row - 1, NEW i \in 0 .. size.inputs - 1,
               x < row - 1 \/ i < col
        PROVE  ResultThere(x, i)'
    BY <1>1, <1>3, <2>2, <2>5 DEF Inv, MatrixSoFar, ResultThere
  <2>6. ResultThere(last, c)'
    BY <1>1, <1>2, <1>3, <2>0, <2>2, <2>3 DEF ResultThere
  <2> QED
    BY <1>3, <2>0, <2>1, <2>4, <2>5, <2>6 DEF MatrixSoFar
<1>8. WholeSoFar'
  <2>1. Before' = Before /\ Before \in Int /\ Before >= 0
    <3>1. RowsAbove(row)' = RowsAbove(row) /\ RowsAbove(row) \in Nat
      BY <1>3, OneRowMore DEF Lines, RowsAbove
    <3>2. Before >= 0
      BY <1>3 DEF Inv, MatrixSoFar
    <3>3. PICK a, last, n : a = RowsAbove(row) /\ last = Len(log) /\ n = size.inputs
      OBVIOUS
    <3>4. Before' = (last + 1) - (a + (col + 1) - n) /\ Before = last - (a + col - n)
      BY <1>1, <1>3, <3>1, <3>3 DEF Before
    <3> QED
      BY <1>1, <1>3, <3>1, <3>2, <3>3, <3>4
  <2>2. ASSUME NEW n \in Before + 1 .. Len(log)
        PROVE  Whole(log'[n])
    <3>1. n \in 1 .. Len(log)
      BY <1>1, <2>1, <2>2
    <3>2. Whole(log[n])
      BY <1>1, <1>3, <2>1, <2>2, <3>1 DEF Inv, WholeSoFar, LastWhole
    <3> QED
      BY <1>1, <3>1, <3>2
  <2>3. Len(log') - 1 = Len(log)
    BY <1>1
  <2> QED
    BY <2>1, <2>2, <2>3 DEF WholeSoFar
<1> QED
  BY <1>4, <1>5, <1>6, <1>7, <1>8 DEF Inv

(* A step that leaves the counters alone and of the log all but the number *)
(* of appends leaves the matrix.                                           *)
LEMMA SameMatrix ==
  ASSUME SizesAreNumbers, Inv, Types',
         UNCHANGED <<size, row, col>>, SameEntries(log, log')
  PROVE  Inv'
<1>1. /\ Len(log) \in Nat /\ DOMAIN log = 1 .. Len(log) /\ Len(log') = Len(log)
      /\ DOMAIN log' = DOMAIN log /\ \A n \in DOMAIN log : SameEntry(log[n], log'[n])
      /\ \A n \in DOMAIN log : n < Len(log) => log'[n] = log[n]
      /\ \A n \in DOMAIN log : LineOK(log[n])
  BY DEF Inv, Types, IsSequence, SameEntries
<1>2. Before' = Before /\ \A x : HeaderAt(x)' = HeaderAt(x)
  BY <1>1 DEF Before, HeaderAt, RowsAbove, Lines
<1>3. LastRow'
  <2>1. SUFFICES ASSUME row > 0
                 PROVE  /\ Len(log) - col \in DOMAIN log
                        /\ log'[Len(log) - col].kind = "header"
                        /\ \A k \in Len(log) - col + 1 .. Len(log) : log'[k].kind = "result"
    BY <1>1 DEF LastRow, RowHeader
  <2>2. /\ Len(log) - col \in DOMAIN log /\ log[Len(log) - col].kind = "header"
        /\ \A k \in Len(log) - col + 1 .. Len(log) : log[k].kind = "result"
    BY <2>1 DEF Inv, LastRow, RowHeader
  <2>3. \A k \in Len(log) - col + 1 .. Len(log) : k \in DOMAIN log
    BY <1>1, <2>2
  <2> QED
    BY <1>1, <2>2, <2>3 DEF SameEntry
<1>4. EachUnderItsHeader'
  <2> SUFFICES ASSUME NEW n \in DOMAIN log', log'[n].kind = "result"
               PROVE  LET h == n - 1 - log'[n].j
                      IN  /\ h \in DOMAIN log' /\ log'[h].kind = "header"
                          /\ log'[h].config = log'[n].config
                          /\ \A k \in h + 1 .. n - 1 : log'[k].kind = "result"
    BY DEF EachUnderItsHeader
  <2>1. /\ n \in DOMAIN log /\ log[n].kind = "result" /\ log'[n].j = log[n].j
        /\ log'[n].config = log[n].config /\ log[n].j \in Nat
    BY <1>1 DEF SameEntry, LineOK
  <2>2. PICK h : h = n - 1 - log[n].j
    OBVIOUS
  <2>3. /\ h \in DOMAIN log /\ log[h].kind = "header" /\ log[h].config = log[n].config
        /\ \A k \in h + 1 .. n - 1 : log[k].kind = "result"
    BY <2>1, <2>2 DEF Inv, EachUnderItsHeader
  <2>4. \A k \in h + 1 .. n - 1 : k \in DOMAIN log
    BY <1>1, <2>1, <2>3
  <2>5. \A k \in h + 1 .. n - 1 : log'[k].kind = "result"
    BY <1>1, <2>3, <2>4 DEF SameEntry
  <2> QED
    BY <1>1, <2>1, <2>2, <2>3, <2>5 DEF SameEntry
<1>5. MatrixSoFar'
  <2>1. \A x : HeaderThere(x) => HeaderThere(x)'
    BY <1>1, <1>2 DEF HeaderThere, SameEntry
  <2>2. \A x, i : ResultThere(x, i) => ResultThere(x, i)'
    BY <1>1, <1>2 DEF ResultThere, SameEntry
  <2> QED
    BY <1>2, <2>1, <2>2 DEF Inv, MatrixSoFar
<1>6. WholeSoFar'
  <2>1. SUFFICES ASSUME row > 0, NEW n \in Before + 1 .. Len(log) - 1
                 PROVE  Whole(log'[n])
    BY <1>1, <1>2 DEF WholeSoFar
  <2>2. Before >= 0 /\ Before \in Int
    BY <2>1, BeforeCounted DEF Inv, MatrixSoFar
  <2>3. n \in DOMAIN log /\ n < Len(log)
    BY <1>1, <2>1, <2>2
  <2> QED
    BY <1>1, <2>1, <2>3 DEF Inv, WholeSoFar
<1> QED
  BY <1>3, <1>4, <1>5, <1>6 DEF Inv

LEMMA SameLog ==
  ASSUME SizesAreNumbers, Inv, Types', UNCHANGED <<log, size, row, col>>
  PROVE  Inv'
<1>1. \A n \in DOMAIN log : SameEntry(log[n], log[n])
  BY DEF SameEntry
<1>2. SameEntries(log, log')
  BY <1>1 DEF Inv, Types, SameEntries
<1> QED
  BY <1>2, SameMatrix

(* One append more.                                                        *)
LEMMA WriteContinues ==
  ASSUME SizesAreNumbers, Inv, Write
  PROVE  SameEntries(log, log') /\ Len(log) \in DOMAIN log
<1>1. row > 0 /\ log' = Continued(log)
  BY DEF Write
<1>2. Len(log) \in DOMAIN log
  <2>1. Len(log) \in Nat /\ DOMAIN log = 1 .. Len(log) /\ col \in Nat
        /\ Len(log) - col \in DOMAIN log
    BY <1>1 DEF Inv, Types, IsSequence, TypeOK, SizesAreNumbers, NoSize, LastRow
  <2> QED
    BY <2>1
<1> QED
  BY <1>1, <1>2, LogContinued DEF Inv, Types

LEMMA WriteStep ==
  ASSUME SizesAreNumbers, Inv, Write
  PROVE  Inv'
<1>1. SameEntries(log, log')
  BY WriteContinues
<1>2. /\ phase = "running" /\ phase' = "running" /\ UNCHANGED <<size, row, col>>
  BY DEF Write
<1>3. \A n \in DOMAIN log' : LineOK(log'[n])
  BY <1>1 DEF SameEntries
<1>4. Types'
  BY <1>1, <1>2, <1>3 DEF Inv, Types, TypeOK, LineOK, SameEntries
<1> QED
  BY <1>1, <1>2, <1>4, SameMatrix

(* Inv is inductive.                                                       *)
LEMMA InvStep ==
  ASSUME SizesAreNumbers, Inv, [Next]_vars
  PROVE  Inv'
<1>1. CASE Begin
  BY <1>1 DEF Inv, Begin, Types, IsSequence, TypeOK, NoSize, SizesAreNumbers, LastRow,
              EachUnderItsHeader, MatrixSoFar, WholeSoFar
<1>2. CASE Header
  BY <1>2, HeaderStep
<1>3. CASE Result
  BY <1>3, ResultStep
<1>4. CASE End
  <2>1. /\ UNCHANGED <<log, size, row, col>> /\ phase' = "ended"
        /\ row = size.tests /\ (row > 0 => RowComplete)
    BY <1>4 DEF End
  <2>2. Types'
    BY <2>1 DEF Inv, Types, TypeOK, RowComplete, LastWhole
  <2> QED
    BY <2>1, <2>2, SameLog
<1>5. CASE GiveUp
  BY <1>5 DEF Inv, GiveUp, Types, IsSequence, TypeOK, NoSize, LastRow,
              EachUnderItsHeader, MatrixSoFar, WholeSoFar
<1>6. CASE UNCHANGED vars
  <2>1. UNCHANGED vars
    BY <1>6
  <2>2. Types'
    BY <2>1 DEF vars, Inv, Types, TypeOK, RowComplete, LastWhole
  <2> QED
    BY <2>1, <2>2, SameLog DEF vars
<1>7. CASE Write
  BY <1>7, WriteStep
<1> QED
  BY <1>1, <1>2, <1>3, <1>4, <1>5, <1>6, <1>7 DEF Next

(* The inductive invariant holds in every reachable state.                 *)
THEOREM Invariance == SizesAreNumbers => (Spec => []Inv)
<1> SUFFICES ASSUME SizesAreNumbers PROVE Spec => []Inv
  OBVIOUS
<1> QED
  BY InvInit, InvStep, PTL DEF Spec

-----------------------------------------------------------------------------
(* What the evaluation script relies on.                                   *)

(* Every result stands below the header with its configuration, at the     *)
(* distance its number says, after any number of campaigns given up.       *)
THEOREM ResultsUnderHeaders ==
  ASSUME SizesAreNumbers
  PROVE  Spec => []EachUnderItsHeader
<1>1. Inv => EachUnderItsHeader
  BY DEF Inv
<1> QED
  BY <1>1, Invariance, PTL

(* A campaign that ended has appended its whole matrix, in order, and no   *)
(* entry of it is cut.                                                     *)
THEOREM CompleteMatrix ==
  ASSUME SizesAreNumbers
  PROVE  Spec => []MatrixWhenEnded
<1>1. ASSUME Inv, phase = "ended"
      PROVE  LET lines == size.inputs + 1
                 first == Len(log) - size.tests * lines
             IN  /\ first >= 0
                 /\ \A n \in first + 1 .. Len(log) : Whole(log[n])
                 /\ \A x \in 0 .. size.tests - 1 :
                      /\ log[first + x * lines + 1].kind = "header"
                      /\ log[first + x * lines + 1].m = x
                      /\ \A i \in 0 .. size.inputs - 1 :
                           /\ log[first + x * lines + 2 + i].kind = "result"
                           /\ log[first + x * lines + 2 + i].j = i
  <2> DEFINE first == Len(log) - size.tests * Lines
  <2>1. /\ row = size.tests /\ (row > 0 => col = size.inputs /\ LastWhole)
        /\ row \in Nat /\ size.inputs \in Nat /\ Len(log) \in Nat
    BY <1>1 DEF Inv, Types, TypeOK, IsSequence, RowComplete, SizesAreNumbers, NoSize
  <2>2. row > 0 => Before = first
    <3>1. RowsAbove(row) \in Nat /\ first = Len(log) - RowsAbove(row)
      BY <2>1, OneRowMore DEF RowsAbove
    <3> QED
      BY <2>1, <3>1 DEF Before
  <2>3. first >= 0 /\ first \in Int
    BY <1>1, <2>1, <2>2 DEF Inv, MatrixSoFar, Lines
  <2>4. ASSUME NEW x \in 0 .. size.tests - 1
        PROVE  HeaderThere(x) /\ \A i \in 0 .. size.inputs - 1 : ResultThere(x, i)
    BY <1>1, <2>1 DEF Inv, MatrixSoFar
  <2>5. ASSUME NEW x \in 0 .. size.tests - 1
        PROVE  HeaderAt(x) = first + x * Lines + 1 /\ first + x * Lines \in Int
    <3>1. RowsAbove(x) \in Nat
      <4>1. x \in Nat
        BY <2>1
      <4> QED
        BY <2>1, <4>1, OneRowMore
    <3>2. RowsAbove(x) = x * Lines
      BY DEF RowsAbove
    <3>3. Before = first
      BY <2>1, <2>2
    <3> QED
      BY <2>3, <3>1, <3>2, <3>3 DEF HeaderAt
  <2> HIDE DEF first
  <2>6. ASSUME NEW x \in 0 .. size.tests - 1
        PROVE  /\ log[first + x * Lines + 1].kind = "header"
               /\ log[first + x * Lines + 1].m = x
    BY <2>4, <2>5 DEF HeaderThere
  <2>7. ASSUME NEW x \in 0 .. size.tests - 1, NEW i \in 0 .. size.inputs - 1
        PROVE  /\ log[first + x * Lines + 2 + i].kind = "result"
               /\ log[first + x * Lines + 2 + i].j = i
    <3>1. PICK a : a = first + x * Lines
      OBVIOUS
    <3>2. HeaderAt(x) = a + 1 /\ a \in Int
      BY <2>5, <3>1
    <3>3. HeaderAt(x) + 1 + i = a + 2 + i
      BY <2>1, <3>2
    <3> QED
      BY <2>4, <3>1, <3>3 DEF ResultThere
  <2>8. ASSUME NEW n \in first + 1 .. Len(log)
        PROVE  Whole(log[n])
    <3>1. row > 0
      <4>1. SUFFICES ASSUME row = 0 PROVE FALSE
        BY <2>1
      <4>2. Lines \in Nat
        BY <2>1 DEF Lines
      <4>3. size.tests * Lines = 0
        BY <2>1, <4>1, <4>2
      <4>4. first = Len(log)
        BY <2>1, <4>3 DEF first
      <4> QED
        BY <2>1, <2>8, <4>4
    <3>2. n \in Before + 1 .. Len(log) - 1 \/ n = Len(log)
      BY <2>1, <2>2, <2>3, <2>8, <3>1
    <3> QED
      BY <1>1, <2>1, <3>1, <3>2 DEF Inv, WholeSoFar, LastWhole
  <2> QED
    BY <2>3, <2>6, <2>7, <2>8 DEF first, Lines
<1>2. Inv => MatrixWhenEnded
  BY <1>1 DEF MatrixWhenEnded
<1> QED
  BY <1>2, Invariance, PTL

-----------------------------------------------------------------------------
(* The form of the file that one campaign writes.                          *)

(* A sequence is one of its own elements.                                  *)
LEMMA OwnElements ==
  ASSUME NEW s, IsSequence(s)
  PROVE  s \in Seq({s[n] : n \in DOMAIN s})
<1>1. PICK S : s \in Seq(S)
  BY DEF IsSequence
<1> DEFINE T == {s[n] : n \in DOMAIN s}
<1>2. Len(s) \in Nat /\ s \in [1 .. Len(s) -> S] /\ DOMAIN s = 1 .. Len(s)
  BY <1>1, LenProperties
<1>3. s \in [1 .. Len(s) -> T]
  BY <1>2
<1> HIDE DEF T
<1>4. s \in UNION {[1 .. n -> T] : n \in Nat}
  BY <1>2, <1>3
<1> QED
  BY <1>4, SeqDef, Zenon DEF T

(* A file of this form stays one when an entry is added that follows its   *)
(* last one, which must not be cut.                                        *)
LEMMA FileExtended ==
  ASSUME NEW f, NEW g, NEW last \in Nat, NEW inputs \in Nat,
         DOMAIN f = 1 .. last, CampaignFile(f, inputs), last > 0 => Whole(f[last]),
         IsSequence(g), DOMAIN g = 1 .. last + 1, \A k \in 1 .. last : g[k] = f[k],
         \/ /\ g[last + 1].kind = "header" /\ g[last + 1].m \in Nat
            /\ HeaderFollows(g, last + 1, inputs)
            /\ \A l \in HeadersOf(f) : f[l].m < g[last + 1].m
         \/ /\ g[last + 1].kind = "result" /\ g[last + 1].j \in Nat
            /\ ResultFollows(g, last + 1)
  PROVE  CampaignFile(g, inputs)
<1>1. g \in Seq({g[n] : n \in DOMAIN g})
  BY OwnElements
<1>2. /\ HeadersOf(f) \subseteq HeadersOf(g) /\ HeadersOf(f) \subseteq 1 .. last
      /\ HeadersOf(g) \subseteq HeadersOf(f) \cup {last + 1}
  BY DEF HeadersOf
<1>3. ASSUME NEW n \in 1 .. last
      PROVE  \/ g[n].kind = "header" /\ g[n].m \in Nat /\ HeaderFollows(g, n, inputs)
             \/ g[n].kind = "result" /\ g[n].j \in Nat /\ ResultFollows(g, n)
  <2>1. g[n] = f[n] /\ n \in DOMAIN f /\ (n - 1 \in DOMAIN g => n - 1 \in 1 .. last)
    OBVIOUS
  <2>2. CASE f[n].kind = "header" /\ f[n].m \in Nat /\ HeaderFollows(f, n, inputs)
    <3>1. n - 1 \in DOMAIN g /\ inputs > 0 =>
            g[n - 1].kind = "result" /\ g[n - 1].j >= inputs - 1
      BY <2>1, <2>2 DEF HeaderFollows
    <3>2. ASSUME g[n].m # 0
          PROVE  \E l \in HeadersOf(g) : l < n /\ g[l].m = g[n].m - 1
      <4>1. PICK l \in HeadersOf(f) : l < n /\ f[l].m = f[n].m - 1
        BY <2>1, <2>2, <3>2 DEF HeaderFollows
      <4> QED
        BY <1>2, <2>1, <4>1
    <3> QED
      BY <2>1, <2>2, <3>1, <3>2 DEF HeaderFollows
  <2>3. CASE f[n].kind = "result" /\ f[n].j \in Nat /\ ResultFollows(f, n)
    <3>1. n - 1 \in 1 .. last
      BY <2>3 DEF ResultFollows
    <3>2. g[n - 1] = f[n - 1] /\ n - 1 \in DOMAIN g
      BY <3>1
    <3> QED
      BY <2>1, <2>3, <3>2 DEF ResultFollows
  <2> QED
    BY <2>1, <2>2, <2>3 DEF CampaignFile
<1>4. ASSUME NEW l \in HeadersOf(g), NEW n \in HeadersOf(g), l < n
      PROVE  g[l].m < g[n].m
  <2>1. l \in HeadersOf(f)
    BY <1>2, <1>4
  <2>2. CASE n = last + 1
    BY <1>2, <2>1, <2>2 DEF HeadersOf
  <2>3. CASE n # last + 1
    BY <1>2, <1>4, <2>1, <2>3 DEF CampaignFile
  <2> QED
    BY <2>2, <2>3
<1>5. \A n \in DOMAIN g :
        \/ g[n].kind = "header" /\ g[n].m \in Nat /\ HeaderFollows(g, n, inputs)
        \/ g[n].kind = "result" /\ g[n].j \in Nat /\ ResultFollows(g, n)
  BY <1>3
<1>6. ASSUME NEW n \in DOMAIN g, n < Len(g)
      PROVE  Whole(g[n])
  <2>1. Len(g) = last + 1 /\ Len(f) = last
    BY <1>1 DEF CampaignFile
  <2>2. n \in 1 .. last /\ g[n] = f[n]
    BY <1>6, <2>1
  <2>3. n < last => Whole(f[n])
    BY <2>1, <2>2, Zenon DEF CampaignFile
  <2> QED
    BY <2>2, <2>3
<1> QED
  BY <1>1, <1>4, <1>5, <1>6 DEF CampaignFile

(* And when its last entry gets another append.                            *)
LEMMA FileContinued ==
  ASSUME NEW f, NEW g, NEW inputs \in Nat, CampaignFile(f, inputs), SameEntries(f, g)
  PROVE  CampaignFile(g, inputs) /\ HeadersOf(g) = HeadersOf(f)
<1>1. /\ IsSequence(g) /\ Len(g) = Len(f) /\ DOMAIN g = DOMAIN f
      /\ \A n \in DOMAIN f : SameEntry(f[n], g[n])
      /\ \A n \in DOMAIN f : n < Len(f) => g[n] = f[n]
  BY DEF SameEntries
<1>2. HeadersOf(g) = HeadersOf(f) /\ \A n \in HeadersOf(f) : n \in DOMAIN f /\ g[n].m = f[n].m
  <2>1. \A n \in DOMAIN f : g[n].kind = f[n].kind /\ (f[n].kind = "header" => g[n].m = f[n].m)
    BY <1>1 DEF SameEntry
  <2> QED
    BY <1>1, <2>1 DEF HeadersOf
<1>3. g \in Seq({g[n] : n \in DOMAIN g})
  BY <1>1, OwnElements
<1>4. ASSUME NEW n \in DOMAIN f
      PROVE  \/ g[n].kind = "header" /\ g[n].m \in Nat /\ HeaderFollows(g, n, inputs)
             \/ g[n].kind = "result" /\ g[n].j \in Nat /\ ResultFollows(g, n)
  <2>1. SameEntry(f[n], g[n]) /\ (n - 1 \in DOMAIN f => SameEntry(f[n - 1], g[n - 1]))
    BY <1>1
  <2>2. CASE f[n].kind = "header" /\ f[n].m \in Nat /\ HeaderFollows(f, n, inputs)
    <3>1. g[n].kind = "header" /\ g[n].m = f[n].m
      BY <2>1, <2>2 DEF SameEntry
    <3>2. n - 1 \in DOMAIN g /\ inputs > 0 =>
            g[n - 1].kind = "result" /\ g[n - 1].j >= inputs - 1
      BY <1>1, <2>1, <2>2 DEF HeaderFollows, SameEntry
    <3>3. ASSUME g[n].m # 0
          PROVE  \E l \in HeadersOf(g) : l < n /\ g[l].m = g[n].m - 1
      <4>1. PICK l \in HeadersOf(f) : l < n /\ f[l].m = f[n].m - 1
        BY <2>2, <3>1, <3>3 DEF HeaderFollows
      <4> QED
        BY <1>2, <3>1, <4>1
    <3> QED
      BY <2>2, <3>1, <3>2, <3>3 DEF HeaderFollows
  <2>3. CASE f[n].kind = "result" /\ f[n].j \in Nat /\ ResultFollows(f, n)
    <3>1. n - 1 \in DOMAIN f
      BY <2>3 DEF ResultFollows
    <3>2. f[n - 1].kind = "result" => g[n - 1].j = f[n - 1].j
      BY <2>1, <3>1 DEF SameEntry
    <3>3. f[n - 1].kind \in {"header", "result"}
      BY <3>1, Zenon DEF CampaignFile
    <3> QED
      BY <1>1, <2>1, <2>3, <3>1, <3>2, <3>3 DEF ResultFollows, SameEntry
  <2> QED
    BY <2>2, <2>3, Zenon DEF CampaignFile
<1>5. \A l, n \in HeadersOf(g) : l < n => g[l].m < g[n].m
  <2>1. \A l, n \in HeadersOf(f) : l < n => f[l].m < f[n].m
    BY Zenon DEF CampaignFile
  <2> QED
    BY <1>2, <2>1
<1>6. \A n \in DOMAIN g : n < Len(g) => Whole(g[n])
  <2>1. \A n \in DOMAIN f : n < Len(f) => Whole(f[n])
    BY Zenon DEF CampaignFile
  <2> QED
    BY <1>1, <2>1
<1>7. \A n \in DOMAIN g :
        \/ g[n].kind = "header" /\ g[n].m \in Nat /\ HeaderFollows(g, n, inputs)
        \/ g[n].kind = "result" /\ g[n].j \in Nat /\ ResultFollows(g, n)
  BY <1>1, <1>4
<1> QED
  BY <1>2, <1>3, <1>5, <1>6, <1>7, Zenon DEF CampaignFile

(* The form asks for less when fewer results are expected of a row.        *)
LEMMA FewerInputs ==
  ASSUME NEW f, NEW inputs \in Nat, CampaignFile(f, inputs), NEW k \in 0 .. inputs
  PROVE  CampaignFile(f, k)
<1>1. ASSUME NEW n \in DOMAIN f, HeaderFollows(f, n, inputs)
      PROVE  HeaderFollows(f, n, k)
  <2>1. ASSUME n - 1 \in DOMAIN f, k > 0
        PROVE  f[n - 1].kind = "result" /\ f[n - 1].j >= k - 1
    <3>1. f[n - 1].kind = "result" /\ f[n - 1].j >= inputs - 1
      BY <1>1, <2>1 DEF HeaderFollows
    <3>2. f[n - 1].j \in Nat
      BY <2>1, <3>1 DEF CampaignFile
    <3> QED
      BY <3>1, <3>2
  <2> QED
    BY <1>1, <2>1 DEF HeaderFollows
<1> QED
  BY <1>1, Zenon DEF CampaignFile

(* The row in progress has the last number, and the file is of that form   *)
(* if only its first line can be a header 0.                               *)
OneCampaign == \A n \in HeadersOf(log) : log[n].m = 0 => n = 1

FileSoFar ==
  row > 0 =>
    /\ RowHeader.m = row - 1
    /\ OneCampaign =>
         /\ CampaignFile(log, size.inputs)
         /\ \A n \in HeadersOf(log) : log[n].m < row

(* The last line is the header of the row, or its last result.             *)
LEMMA LastLine ==
  ASSUME SizesAreNumbers, Inv, row > 0
  PROVE  /\ Len(log) \in DOMAIN log /\ col \in Nat
         /\ log[Len(log)].config = RowHeader.config
         /\ log[Len(log)].kind = "header" <=> col = 0
         /\ col > 0 => log[Len(log)].kind = "result" /\ log[Len(log)].j = col - 1
<1>1. /\ Len(log) \in Nat /\ DOMAIN log = 1 .. Len(log) /\ col \in Nat
      /\ Len(log) - col \in DOMAIN log /\ RowHeader.kind = "header"
      /\ \A k \in Len(log) - col + 1 .. Len(log) : log[k].kind = "result"
  BY DEF Inv, Types, IsSequence, TypeOK, SizesAreNumbers, NoSize, LastRow
<1>2. Len(log) \in DOMAIN log
  BY <1>1
<1>3. CASE col = 0
  BY <1>1, <1>2, <1>3 DEF RowHeader
<1>4. CASE col > 0
  <2> DEFINE last == Len(log)
             h    == last - 1 - log[last].j
  <2>1. log[last].kind = "result" /\ log[last].j \in Nat
    BY <1>1, <1>2, <1>4 DEF Inv, Types, LineOK
  <2>2. /\ h \in DOMAIN log /\ log[h].kind = "header" /\ log[h].config = log[last].config
        /\ \A k \in h + 1 .. last - 1 : log[k].kind = "result"
    BY <1>2, <2>1 DEF Inv, EachUnderItsHeader
  <2>3. h = last - col
    <3>1. PICK l : l = last - col
      OBVIOUS
    <3>2. l \in DOMAIN log /\ log[l].kind = "header"
          /\ \A k \in l + 1 .. last : log[k].kind = "result"
      BY <1>1, <3>1 DEF RowHeader
    <3>3. ~(h > l)
      BY <1>1, <2>1, <2>2, <3>1, <3>2
    <3>4. ~(h < l)
      BY <1>1, <1>4, <2>1, <2>2, <3>1, <3>2
    <3> QED
      BY <1>1, <2>1, <3>1, <3>3, <3>4
  <2> QED
    BY <1>1, <1>2, <1>4, <2>1, <2>2, <2>3 DEF RowHeader
<1> QED
  BY <1>1, <1>3, <1>4

(* A header comes first, or behind a complete row with the number below    *)
(* its own.                                                                *)
LEMMA HeaderInFile ==
  ASSUME SizesAreNumbers, Inv, FileSoFar, Header
  PROVE  FileSoFar'
<1>0. PICK r : log' = Append(log, r) /\ r.kind = "header" /\ r.m = row
  BY DEF Header
<1> DEFINE last == Len(log)
<1>1. /\ IsSequence(log') /\ last \in Nat /\ DOMAIN log = 1 .. last
      /\ Len(log') = last + 1 /\ DOMAIN log' = 1 .. last + 1
      /\ log'[last + 1] = r
      /\ \A k \in 1 .. last : log'[k] = log[k]
  <2> PICK old : old = log
    OBVIOUS
  <2>1. IsSequence(old)
    BY DEF Inv, Types
  <2> QED
    BY <1>0, <2>1, Appending
<1>2. r.kind = "header" /\ r.m = row
  BY <1>0
<1> HIDE DEF last
<1>3. /\ row' = row + 1 /\ col' = 0 /\ size' = size
      /\ row \in Nat /\ size.inputs \in Nat
      /\ row > 0 => col = size.inputs /\ LastWhole
  BY DEF Header, Inv, Types, TypeOK, SizesAreNumbers, NoSize, MoreRows, RowComplete
<1>4. RowHeader'.m = row' - 1
  BY <1>1, <1>2, <1>3 DEF RowHeader
<1>5. /\ HeadersOf(log') = HeadersOf(log) \cup {last + 1}
      /\ \A n \in HeadersOf(log) : n \in 1 .. last /\ log'[n] = log[n]
  BY <1>1, <1>2 DEF HeadersOf
<1>6. ASSUME OneCampaign'
      PROVE  CampaignFile(log', size.inputs) /\ \A n \in HeadersOf(log') : log'[n].m < row + 1
  <2>1. OneCampaign
    BY <1>5, <1>6 DEF OneCampaign
  <2>2. CASE row = 0
    <3>1. last = 0
      BY <1>1, <1>2, <1>5, <1>6, <2>2 DEF OneCampaign
    <3>2. log' \in Seq({log'[n] : n \in DOMAIN log'})
      BY <1>1, OwnElements
    <3>3. DOMAIN log' = {1} /\ log'[1] = r /\ HeadersOf(log') = {1}
      BY <1>1, <1>5, <3>1
    <3>4. HeaderFollows(log', 1, size.inputs)
      BY <1>2, <2>2, <3>3 DEF HeaderFollows
    <3> QED
      <4>1. Len(log') = 1
        BY <1>1, <3>1
      <4>2. row \in Nat /\ r.kind = "header" /\ r.m = 0
        BY <1>2, <1>3, <2>2
      <4> QED
        BY <2>2, <3>2, <3>3, <3>4, <4>1, <4>2 DEF CampaignFile
  <2>3. CASE row > 0
    <3>1. CampaignFile(log, size.inputs) /\ \A n \in HeadersOf(log) : log[n].m < row
      BY <2>1, <2>3 DEF FileSoFar
    <3>2. HeaderFollows(log', last + 1, size.inputs)
      <4>1. /\ last \in DOMAIN log
            /\ col > 0 => log[last].kind = "result" /\ log[last].j = col - 1
        BY <2>3, LastLine DEF last
      <4>2. size.inputs > 0 => log'[last].kind = "result" /\ log'[last].j >= size.inputs - 1
        BY <1>1, <1>3, <2>3, <4>1
      <4>3. PICK l : l = last - col
        OBVIOUS
      <4>4. l \in HeadersOf(log) /\ log[l].m = row - 1
        BY <2>3, <4>3 DEF Inv, LastRow, FileSoFar, RowHeader, HeadersOf, last
      <4>5. l \in HeadersOf(log') /\ l < last + 1 /\ log'[l].m = log'[last + 1].m - 1
        BY <1>1, <1>2, <1>5, <4>4
      <4>6. (last + 1) - 1 = last
        BY <1>1
      <4> QED
        BY <4>2, <4>5, <4>6 DEF HeaderFollows
    <3>3. CampaignFile(log', size.inputs)
      <4>1. PICK f, g : f = log /\ g = log'
        OBVIOUS
      <4>2. /\ DOMAIN f = 1 .. last /\ CampaignFile(f, size.inputs)
            /\ last > 0 => Whole(f[last])
            /\ IsSequence(g) /\ DOMAIN g = 1 .. last + 1 /\ \A k \in 1 .. last : g[k] = f[k]
            /\ g[last + 1].kind = "header" /\ g[last + 1].m \in Nat
            /\ HeaderFollows(g, last + 1, size.inputs)
            /\ \A l \in HeadersOf(f) : f[l].m < g[last + 1].m
        BY <1>1, <1>2, <1>3, <2>3, <3>1, <3>2, <4>1 DEF LastWhole, last
      <4> QED
        BY <1>1, <1>3, <4>1, <4>2, FileExtended
    <3>4. \A n \in HeadersOf(log) : log[n].m \in Nat /\ log[n].m < row
      BY <3>1 DEF CampaignFile, HeadersOf
    <3> QED
      BY <1>1, <1>2, <1>3, <1>5, <3>3, <3>4
  <2> QED
    BY <1>3, <2>2, <2>3
<1> QED
  BY <1>3, <1>4, <1>6 DEF FileSoFar

(* A result comes behind the header of its row, or the result before it.   *)
LEMMA ResultInFile ==
  ASSUME SizesAreNumbers, Inv, FileSoFar, Result
  PROVE  FileSoFar'
<1>0. PICK r : /\ log' = Append(log, r)
               /\ r.kind = "result" /\ r.j = col /\ r.config = RowHeader.config
  BY DEF Result
<1> DEFINE last == Len(log)
<1>1. /\ IsSequence(log') /\ last \in Nat /\ DOMAIN log = 1 .. last
      /\ Len(log') = last + 1 /\ DOMAIN log' = 1 .. last + 1
      /\ log'[last + 1] = r
      /\ \A k \in 1 .. last : log'[k] = log[k]
  <2> PICK old : old = log
    OBVIOUS
  <2>1. IsSequence(old)
    BY DEF Inv, Types
  <2> QED
    BY <1>0, <2>1, Appending
<1>2. r.kind = "result" /\ r.j = col /\ r.config = RowHeader.config
  BY <1>0
<1>3. /\ row' = row /\ col' = col + 1 /\ size' = size
      /\ row \in Nat /\ row > 0 /\ col \in Nat /\ size.inputs \in Nat /\ LastWhole
  BY DEF Result, Inv, Types, TypeOK, SizesAreNumbers, NoSize
<1>4. RowHeader' = RowHeader
  <2>1. Len(log) - col \in 1 .. last
    BY <1>1, <1>3 DEF Inv, LastRow
  <2>2. Len(log') - col' = Len(log) - col
    BY <1>1, <1>3
  <2> QED
    BY <1>1, <2>1, <2>2 DEF RowHeader
<1>5. /\ last \in DOMAIN log /\ log[last].config = RowHeader.config
      /\ log[last].kind = "header" <=> col = 0
      /\ col > 0 => log[last].kind = "result" /\ log[last].j = col - 1
  BY <1>3, LastLine
<1> HIDE DEF last
<1>6. /\ HeadersOf(log') = HeadersOf(log)
      /\ \A n \in HeadersOf(log) : n \in 1 .. last /\ log'[n] = log[n]
  BY <1>1, <1>2 DEF HeadersOf
<1>7. ResultFollows(log', last + 1)
  <2>1. (last + 1) - 1 = last /\ log'[last] = log[last] /\ last \in DOMAIN log'
    BY <1>1, <1>5
  <2>2. r.j = IF log[last].kind = "header" THEN 0 ELSE log[last].j + 1
    BY <1>2, <1>3, <1>5
  <2> QED
    BY <1>1, <1>2, <1>5, <2>1, <2>2 DEF ResultFollows
<1>8. ASSUME OneCampaign'
      PROVE  CampaignFile(log', size.inputs) /\ \A n \in HeadersOf(log') : log'[n].m < row
  <2>1. OneCampaign
    BY <1>6, <1>8 DEF OneCampaign
  <2>2. CampaignFile(log, size.inputs) /\ \A n \in HeadersOf(log) : log[n].m < row
    BY <1>3, <2>1 DEF FileSoFar
  <2>3. CampaignFile(log', size.inputs)
    <3>1. PICK f, g : f = log /\ g = log'
      OBVIOUS
    <3>2. /\ DOMAIN f = 1 .. last /\ CampaignFile(f, size.inputs)
          /\ last > 0 => Whole(f[last])
          /\ IsSequence(g) /\ DOMAIN g = 1 .. last + 1 /\ \A k \in 1 .. last : g[k] = f[k]
          /\ g[last + 1].kind = "result" /\ g[last + 1].j \in Nat
          /\ ResultFollows(g, last + 1)
      BY <1>1, <1>2, <1>3, <1>7, <2>2, <3>1 DEF LastWhole, last
    <3> QED
      BY <1>1, <1>3, <3>1, <3>2, FileExtended
  <2> QED
    BY <1>6, <2>2, <2>3
<1> QED
  BY <1>3, <1>4, <1>8 DEF FileSoFar

(* Another append leaves the numbers.                                      *)
LEMMA WriteInFile ==
  ASSUME SizesAreNumbers, Inv, FileSoFar, Write
  PROVE  FileSoFar'
<1>1. /\ SameEntries(log, log') /\ UNCHANGED <<size, row, col>>
      /\ row > 0 /\ size.inputs \in Nat
  BY WriteContinues DEF Write, Inv, Types, TypeOK, SizesAreNumbers, NoSize
<1>2. /\ Len(log) - col \in DOMAIN log /\ RowHeader.kind = "header"
      /\ RowHeader.m = row - 1
  BY <1>1 DEF Inv, LastRow, FileSoFar
<1>3. RowHeader'.m = row' - 1
  BY <1>1, <1>2 DEF SameEntries, SameEntry, RowHeader
<1>4. /\ HeadersOf(log') = HeadersOf(log)
      /\ \A n \in HeadersOf(log) : log'[n].m = log[n].m
  <2>1. \A n \in DOMAIN log : /\ log'[n].kind = log[n].kind
                              /\ log[n].kind = "header" => log'[n].m = log[n].m
    BY <1>1 DEF SameEntries, SameEntry
  <2>2. DOMAIN log' = DOMAIN log
    BY <1>1 DEF SameEntries
  <2> QED
    BY <2>1, <2>2 DEF HeadersOf
<1>5. ASSUME OneCampaign'
      PROVE  CampaignFile(log', size.inputs) /\ \A n \in HeadersOf(log') : log'[n].m < row
  <2>1. OneCampaign
    BY <1>4, <1>5 DEF OneCampaign
  <2>2. CampaignFile(log, size.inputs) /\ \A n \in HeadersOf(log) : log[n].m < row
    BY <1>1, <2>1 DEF FileSoFar
  <2> QED
    BY <1>1, <1>4, <2>2, FileContinued
<1> QED
  BY <1>1, <1>3, <1>5 DEF FileSoFar

(* The other steps leave the file.                                         *)
LEMMA FileStep ==
  ASSUME SizesAreNumbers, Inv, FileSoFar, [Next]_vars
  PROVE  FileSoFar'
<1>1. CASE Begin
  BY <1>1 DEF Begin, Inv, Types, FileSoFar
<1>2. CASE Header
  BY <1>2, HeaderInFile
<1>3. CASE Result
  BY <1>3, ResultInFile
<1>4. CASE End \/ UNCHANGED vars
  <2>1. UNCHANGED <<log, size, row, col>>
    BY <1>4 DEF End, vars
  <2> QED
    BY <2>1 DEF FileSoFar, RowHeader, OneCampaign
<1>5. CASE GiveUp
  BY <1>5 DEF GiveUp, FileSoFar
<1>6. CASE Write
  BY <1>6, WriteInFile
<1> QED
  BY <1>1, <1>2, <1>3, <1>4, <1>5, <1>6 DEF Next

(* What a campaign leaves that has found the file empty, between any two   *)
(* of its appends, is what DMetric assumes of the files it reads.          *)
THEOREM FileForEvaluation ==
  ASSUME SizesAreNumbers
  PROVE  Spec => []FileOfOneCampaign
<1>1. Init => FileSoFar
  BY DEF Init, FileSoFar
<1>2. Inv /\ FileSoFar /\ [Next]_vars => FileSoFar'
  BY FileStep
<1>3. ASSUME Inv, FileSoFar
      PROVE  FileOfOneCampaign
  <2>1. size.inputs \in Nat
    BY <1>3 DEF Inv, Types, TypeOK, SizesAreNumbers, NoSize
  <2> QED
    BY <1>3, <2>1, FewerInputs DEF FileSoFar, OneCampaign, FileOfOneCampaign
<1> QED
  BY <1>1, <1>2, <1>3, Invariance, PTL DEF Spec
============================================================================
