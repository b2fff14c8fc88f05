--------------------------- MODULE HostTextProofs ---------------------------
(***************************************************************************)
(* Lemmas about what main.c does to strings, text files and words: the     *)
(* operators of HostProgram, without its state.                            *)
(***************************************************************************)
EXTENDS HostView, TLAPS

-----------------------------------------------------------------------------
(* Strings and texts.                                                      *)

Char == {"0", "1", "nl"}

(* A buffer with n characters.                                             *)
Holds(s, n) ==
  /\ s \in [Cell -> {"0", "1", "nul"}]
  /\ \A p \in 0 .. n - 1 : s[p] \in {"0", "1"}
  /\ \A p \in n .. 32 : s[p] = "nul"

DigitText(text, n) == text \in Seq({"0", "1"}) /\ Len(text) >= n

(* strlen finds the first zero.                                            *)
LEMMA StrLenIs ==
  ASSUME NEW s, NEW n \in Cell, s[n] = "nul", \A q \in 0 .. n - 1 : s[q] # "nul"
  PROVE  StrLen(s) = n
<1> DEFINE First(p) == s[p] = "nul" /\ \A q \in 0 .. p - 1 : s[q] # "nul"
<1>1. First(n)
  OBVIOUS
<1>2. ASSUME NEW p \in Cell, First(p)
      PROVE  p = n
  <2>1. CASE p < n
    BY <1>2, <2>1 DEF Cell
  <2>2. CASE n < p
    BY <1>2, <2>2 DEF Cell
  <2> QED
    BY <2>1, <2>2 DEF Cell
<1>3. StrLen(s) = CHOOSE p \in Cell : First(p)
  BY DEF StrLen
<1> HIDE DEF First
<1> QED
  BY <1>1, <1>2, <1>3

(* A character that dec2bin writes is a digit (main.c:205-210).             *)
LEMMA DigitIsBit == \A n, i : Digit(n, i) \in {"0", "1"}
BY DEF Digit

(* What fputs writes of a buffer are its characters.                       *)
LEMMA TextOfBuffer ==
  ASSUME NEW n \in 0 .. 31, NEW s, Holds(s, n)
  PROVE  /\ CString(s) \in Seq({"0", "1"}) /\ Len(CString(s)) = n
         /\ \A k \in 1 .. n : CString(s)[k] = s[k - 1]
<1>1. StrLen(s) = n
  <2>1. n \in Cell /\ s[n] = "nul" /\ \A q \in 0 .. n - 1 : s[q] # "nul"
    BY DEF Holds, Cell
  <2> QED
    BY <2>1, StrLenIs
<1>2. CString(s) = [k \in 1 .. n |-> s[k - 1]]
  BY <1>1 DEF CString
<1>3. \A k \in 1 .. n : s[k - 1] \in {"0", "1"}
  BY DEF Holds
<1> QED
  BY <1>2, <1>3

(* A conversion leaves at least its own digits in the buffer, first, and   *)
(* no more than were ever there: what an earlier, longer number left.      *)
LEMMA Conversion ==
  ASSUME NEW n, NEW s, NEW rand, NEW len, NEW short, NEW t,
         Holds(s, n), t = Dec2Bin(s, rand, len),
         n \in 0 .. 31, len \in 0 .. 31, short \in 0 .. len
  PROVE  /\ \E k \in 0 .. 31 : Holds(t, k)
         /\ DigitText(CString(t), len)
         /\ Shortened(CString(t), short) = RandomText(short, rand)
<1>0. PICK k \in 0 .. 31 : k = IF len > n THEN len ELSE n
  OBVIOUS
<1>2. /\ t \in [Cell -> {"0", "1", "nul"}]
      /\ \A p \in Cell : t[p] = IF p < len THEN Digit(rand, p) ELSE s[p]
  BY DigitIsBit DEF Dec2Bin, Holds
<1>3. Holds(t, k)
  <2>1. ASSUME NEW p \in 0 .. k - 1
        PROVE  t[p] \in {"0", "1"}
    <3>1. CASE p < len
      BY <1>2, <3>1, DigitIsBit DEF Cell
    <3>2. CASE p >= len
      BY <1>0, <1>2, <3>2 DEF Holds, Cell
    <3> QED
      BY <3>1, <3>2
  <2>2. ASSUME NEW p \in k .. 32
        PROVE  t[p] = "nul"
    BY <1>0, <1>2 DEF Holds, Cell
  <2> QED
    BY <1>2, <2>1, <2>2 DEF Holds
<1>4. /\ CString(t) \in Seq({"0", "1"}) /\ Len(CString(t)) = k
      /\ \A i \in 1 .. k : CString(t)[i] = t[i - 1]
  BY <1>3, TextOfBuffer
<1>5. ASSUME NEW i \in 1 .. short
      PROVE  CharAt(CString(t), i) = Digit(rand, i - 1)
  <2>1. i \in 1 .. k /\ i - 1 \in Cell /\ i - 1 < len
    BY <1>0 DEF Cell
  <2>2. DOMAIN CString(t) = 1 .. k
    BY <1>4
  <2> QED
    BY <1>2, <1>4, <2>1, <2>2 DEF CharAt
<1>6. Shortened(CString(t), short) = RandomText(short, rand)
  BY <1>5 DEF Shortened, RandomText
<1>7. DigitText(CString(t), len)
  BY <1>0, <1>4 DEF DigitText
<1> QED
  BY <1>3, <1>6, <1>7

-----------------------------------------------------------------------------
(* Text files.                                                             *)

(* A file of lines that begin with the n characters of a member of Texts.  *)
FileOf(file, n, Texts) ==
  /\ file \in Seq(Seq(Char))
  /\ \A k \in 1 .. Len(file) :
       Len(file[k]) >= n /\ Shortened(file[k], n) \in Texts

(* What the readers may rely on: the number of lines with a newline.       *)
Complete(file) == IF Unfinished(file) THEN Len(file) - 1 ELSE Len(file)

(* What is written behind the first n characters of a line does not change *)
(* them.                                                                   *)
LEMMA ShortenedConcat ==
  ASSUME NEW line \in Seq(Char), NEW text \in Seq(Char), NEW n \in 0 .. Len(line)
  PROVE  Shortened(line \o text, n) = Shortened(line, n)
<1>1. ASSUME NEW i \in 1 .. n
      PROVE  CharAt(line \o text, i) = CharAt(line, i)
  BY DEF CharAt
<1> QED
  BY <1>1 DEF Shortened

(* A text starts a new line, or runs on from an unfinished one.            *)
LEMMA AppendedLine ==
  ASSUME NEW n \in Nat \ {0}, NEW Texts, NEW file, FileOf(file, n, Texts),
         NEW text \in Seq(Char), text # <<>>,
         Unfinished(file) \/ (Len(text) >= n /\ Shortened(text, n) \in Texts)
  PROVE  LET new == Appended(file, text)
             last == new[Len(new)]
         IN  /\ FileOf(new, n, Texts) /\ new # <<>>
             /\ Len(new) = IF Unfinished(file) THEN Len(file) ELSE Len(file) + 1
             /\ file # <<>> => Shortened(new[1], n) = Shortened(file[1], n)
             /\ file = <<>> => new = <<text>>
             /\ last[Len(last)] = text[Len(text)]
<1>1. file \in Seq(Seq(Char)) /\ Len(file) \in Nat
  BY DEF FileOf
<1>2. CASE Unfinished(file)
  <2>1. PICK k : k = Len(file) /\ k \in 1 .. Len(file) /\ file # <<>>
    <3>1. file # <<>>
      BY <1>2 DEF Unfinished
    <3> QED
      BY <1>1, <3>1
  <2>2. PICK line \in Seq(Char) : line = file[k] \o text
    <3>1. file[k] \in Seq(Char)
      BY <1>1, <2>1
    <3>2. file[k] \o text \in Seq(Char)
      BY <3>1
    <3> QED
      BY <3>2
  <2>3. /\ Len(line) = Len(file[k]) + Len(text) /\ line[Len(line)] = text[Len(text)]
        /\ Len(line) >= n /\ Shortened(line, n) = Shortened(file[k], n)
    <3>1. file[k] \in Seq(Char) /\ Len(file[k]) >= n
      BY <1>1, <2>1 DEF FileOf
    <3>2. Len(text) \in Nat \ {0} /\ Len(file[k]) \in Nat
      BY <3>1
    <3> QED
      BY <2>2, <3>1, <3>2, ShortenedConcat
  <2>4. PICK new : new = [file EXCEPT ![k] = line]
    OBVIOUS
  <2>5. Appended(file, text) = new
    BY <1>2, <2>1, <2>2, <2>4 DEF Appended
  <2>6. /\ new \in Seq(Seq(Char)) /\ Len(new) = Len(file)
        /\ \A i \in 1 .. Len(file) : new[i] = IF i = k THEN line ELSE file[i]
    BY <1>1, <2>1, <2>2, <2>4
  <2>7. FileOf(new, n, Texts)
    BY <2>1, <2>3, <2>6 DEF FileOf
  <2> QED
    BY <1>1, <1>2, <2>1, <2>3, <2>5, <2>6, <2>7
<1>3. CASE ~Unfinished(file)
  <2>1. PICK new : new = Append(file, text)
    OBVIOUS
  <2>2. Appended(file, text) = new
    BY <1>3, <2>1 DEF Appended
  <2>3. /\ new \in Seq(Seq(Char)) /\ Len(new) = Len(file) + 1
        /\ \A i \in 1 .. Len(file) : new[i] = file[i]
        /\ new[Len(file) + 1] = text
    BY <1>1, <2>1
  <2>4. FileOf(new, n, Texts)
    <3> SUFFICES ASSUME NEW i \in 1 .. Len(new)
                 PROVE  Len(new[i]) >= n /\ Shortened(new[i], n) \in Texts
      BY <2>3 DEF FileOf
    <3>1. CASE i = Len(file) + 1
      BY <1>3, <2>3, <3>1
    <3>2. CASE i # Len(file) + 1
      <4>1. i \in 1 .. Len(file) /\ new[i] = file[i]
        BY <1>1, <2>3, <3>2
      <4> QED
        BY <4>1 DEF FileOf
    <3> QED
      BY <3>1, <3>2
  <2>5. file # <<>> => 1 \in 1 .. Len(file)
    BY <1>1
  <2>6. file = <<>> => new = <<text>>
    BY <2>1
  <2> QED
    BY <1>1, <1>3, <2>2, <2>3, <2>4, <2>5, <2>6
<1> QED
  BY <1>2, <1>3

(* The call that writes a text leaves a line that still lacks its newline. *)
LEMMA TextWritten ==
  ASSUME NEW n \in Nat \ {0}, NEW Texts, NEW file, FileOf(file, n, Texts),
         NEW text \in Seq({"0", "1"}), Len(text) >= n, Shortened(text, n) \in Texts
  PROVE  LET new == Appended(file, text)
         IN  /\ FileOf(new, n, Texts) /\ new # <<>>
             /\ Unfinished(new) /\ Complete(new) = Complete(file)
             /\ Shortened(new[1], n) =
                  IF file = <<>> THEN Shortened(text, n) ELSE Shortened(file[1], n)
<1>1. /\ text \in Seq(Char) /\ text # <<>> /\ text[Len(text)] # "nl"
      /\ file \in Seq(Seq(Char)) /\ Len(file) \in Nat
  BY DEF Char, FileOf
<1>2. PICK new : new = Appended(file, text)
  OBVIOUS
<1>3. /\ FileOf(new, n, Texts) /\ new # <<>>
      /\ Len(new) = IF Unfinished(file) THEN Len(file) ELSE Len(file) + 1
      /\ file # <<>> => Shortened(new[1], n) = Shortened(file[1], n)
      /\ file = <<>> => new = <<text>>
      /\ LET last == new[Len(new)] IN last[Len(last)] # "nl"
  BY <1>1, <1>2, AppendedLine
<1>4. Unfinished(new)
  BY <1>3 DEF Unfinished
<1>5. Complete(new) = Complete(file)
  BY <1>1, <1>3, <1>4 DEF Complete
<1>6. file = <<>> => new[1] = text
  BY <1>3
<1> QED
  BY <1>2, <1>3, <1>4, <1>5, <1>6

(* The next call completes it.                                             *)
LEMMA NewlineWritten ==
  ASSUME NEW n \in Nat \ {0}, NEW Texts, NEW file, FileOf(file, n, Texts),
         Unfinished(file)
  PROVE  LET new == Appended(file, Newline)
         IN  /\ FileOf(new, n, Texts) /\ new # <<>>
             /\ Complete(new) = Complete(file) + 1
             /\ Shortened(new[1], n) = Shortened(file[1], n)
<1>1. /\ Newline \in Seq(Char) /\ Newline # <<>> /\ Newline[Len(Newline)] = "nl"
      /\ file \in Seq(Seq(Char)) /\ Len(file) \in Nat /\ file # <<>>
  BY DEF Char, FileOf, Newline, Unfinished
<1>2. PICK new : new = Appended(file, Newline)
  OBVIOUS
<1>3. /\ FileOf(new, n, Texts) /\ new # <<>>
      /\ Len(new) = Len(file)
      /\ Shortened(new[1], n) = Shortened(file[1], n)
      /\ LET last == new[Len(new)] IN last[Len(last)] = "nl"
  BY <1>1, <1>2, AppendedLine
<1>4. ~Unfinished(new)
  BY <1>3 DEF Unfinished
<1>5. Complete(new) = Complete(file) + 1
  BY <1>1, <1>3, <1>4 DEF Complete
<1> QED
  BY <1>2, <1>3, <1>5

-----------------------------------------------------------------------------
(* The control string.                                                     *)

(* All of its 32 characters are digits.                                    *)
Full(s) == Holds(s, 32)

Digits(line, n) == \A k \in 1 .. n : CharAt(line, k) \in {"0", "1"}

(* strlen of the whole string of the word (main.c:298-309).                 *)
LEMMA FullLength ==
  ASSUME NEW s, Full(s)
  PROVE  StrLen(s) = 32
<1>1. 32 \in Cell /\ s[32] = "nul" /\ \A q \in 0 .. 31 : s[q] # "nul"
  BY DEF Full, Holds, Cell
<1> QED
  BY <1>1, StrLenIs

(* Counted from the end of a full string, the assignments of main.c hit    *)
(* the cells they are meant for (main.c:323-324, 359, 381).                *)
LEMMA CellsFromEnd ==
  ASSUME NEW s, Full(s), NEW c
  PROVE  /\ FromEnd(s, 23, c) = [s EXCEPT ![9] = c]
         /\ FromEnd(s, 2, c) = [s EXCEPT ![30] = c]
         /\ FromEnd(s, 1, c) = [s EXCEPT ![31] = c]
<1>1. StrLen(s) = 32
  BY FullLength
<1>2. StrLen(s) - 23 = 9 /\ StrLen(s) - 2 = 30 /\ StrLen(s) - 1 = 31
  BY <1>1
<1> QED
  BY <1>2 DEF FromEnd

(* The one the program uses most: the cell of SCAN_ENABLE.                 *)
LEMMA ScanEnableCell ==
  ASSUME NEW s, Full(s), NEW c \in {"0", "1"}, NEW t, t = FromEnd(s, 2, c)
  PROVE  Full(t) /\ \A p \in 0 .. 31 : t[p] = IF p = 30 THEN c ELSE s[p]
<1>1. t = [s EXCEPT ![30] = c]
  BY CellsFromEnd
<1> QED
  BY <1>1 DEF Full, Holds, Cell

(* Copying the digits of a line into inner cells leaves the string full.   *)
LEMMA CellsCopied ==
  ASSUME NEW s, NEW first, NEW last, NEW line, NEW t, NEW n,
         Full(s), Digits(line, n), t = Copied(s, first, last, line),
         first \in 0 .. 31, last \in first .. 31, n = last - first + 1
  PROVE  /\ Full(t)
         /\ \A p \in first .. last : t[p] = CharAt(line, p - first + 1)
         /\ \A p \in 0 .. 31 : p \notin first .. last => t[p] = s[p]
<1>2. /\ DOMAIN t = Cell
      /\ t = [p \in Cell |-> t[p]]
      /\ \A p \in Cell :
           t[p] = IF p \in first .. last THEN CharAt(line, p - first + 1) ELSE s[p]
  BY DEF Copied
<1>3. ASSUME NEW p \in 0 .. 31
      PROVE  t[p] \in {"0", "1"}
  <2>1. CASE p \in first .. last
    <3>1. p - first + 1 \in 1 .. n
      BY <2>1
    <3> QED
      BY <1>2, <2>1, <3>1 DEF Digits, Cell
  <2>2. CASE p \notin first .. last
    BY <1>2, <2>2 DEF Full, Holds, Cell
  <2> QED
    BY <2>1, <2>2
<1>4. t[32] = "nul"
  BY <1>2 DEF Full, Holds, Cell
<1>5. Full(t)
  BY <1>2, <1>3, <1>4 DEF Full, Holds, Cell
<1> QED
  BY <1>2, <1>5 DEF Cell

(* The first word of a test.                                               *)
LEMMA FirstString == Full(InitialString)
<1>1. ASSUME NEW p \in Cell
      PROVE  InitialString[p] = CASE p = 32 -> "nul" [] p = 31 -> "1"
                                  [] p = 30 -> ScanWhileClearing
                                  [] p < 9  -> "0" [] OTHER -> "1"
  BY DEF InitialString, StringOf
<1>2. ASSUME NEW p \in Cell
      PROVE  InitialString[p] \in IF p = 32 THEN {"nul"} ELSE {"0", "1"}
  BY <1>1, FirstWordAssumption DEF Cell
<1>3. InitialString = [p \in Cell |-> InitialString[p]]
  BY DEF InitialString, StringOf
<1> QED
  BY <1>2, <1>3 DEF Full, Holds, Cell

(* The word that starts a scan carries the configuration.                  *)
LEMMA ScanCells ==
  ASSUME NEW s, Full(s), NEW line, Digits(line, 16)
  PROVE  LET t == ScanString(s, line)
         IN  /\ Full(t) /\ t[9] = "0" /\ t[30] = "1" /\ t[31] = s[31]
             /\ \A k \in 1 .. 16 : t[9 + k] = CharAt(line, k)
<1>1. PICK a : a = FromEnd(s, 23, "0")
  OBVIOUS
<1>2. Full(a) /\ a[9] = "0" /\ a[31] = s[31]
  <2>1. a = [s EXCEPT ![9] = "0"]
    BY <1>1, CellsFromEnd
  <2> QED
    BY <2>1 DEF Full, Holds, Cell
<1>3. PICK b : b = FromEnd(a, 2, "1")
  OBVIOUS
<1>4. Full(b) /\ b[9] = "0" /\ b[30] = "1" /\ b[31] = s[31]
  <2>1. Full(b) /\ \A p \in 0 .. 31 : b[p] = IF p = 30 THEN "1" ELSE a[p]
    BY <1>2, <1>3, ScanEnableCell
  <2> QED
    BY <1>2, <2>1
<1>5. PICK t : t = Copied(b, 10, 25, line)
  OBVIOUS
<1>6. /\ Full(t)
      /\ \A p \in 10 .. 25 : t[p] = CharAt(line, p - 10 + 1)
      /\ \A p \in 0 .. 31 : p \notin 10 .. 25 => t[p] = b[p]
  <2>1. 16 = 25 - 10 + 1 /\ 10 \in 0 .. 31 /\ 25 \in 10 .. 31
    OBVIOUS
  <2> QED
    BY <1>4, <1>5, <2>1, CellsCopied
<1>7. ASSUME NEW k \in 1 .. 16
      PROVE  t[9 + k] = CharAt(line, k)
  <2>1. 9 + k \in 10 .. 25 /\ 9 + k \in 0 .. 31 /\ (9 + k) - 10 + 1 = k
    OBVIOUS
  <2> QED
    BY <1>6, <2>1
<1>8. ScanString(s, line) = t
  BY <1>1, <1>3, <1>5 DEF ScanString
<1> QED
  BY <1>4, <1>6, <1>7, <1>8

(* The word that drives the circuits carries the stimulus as well.         *)
LEMMA DriveCells ==
  ASSUME NEW s, Full(s), NEW line, Digits(line, 4)
  PROVE  LET t == DriveString(s, line)
         IN  /\ Full(t) /\ t[31] = "0" /\ t[30] = s[30]
             /\ \A p \in 0 .. 25 : t[p] = s[p]
             /\ \A k \in 1 .. 4 : t[25 + k] = CharAt(line, k)
<1>1. PICK a : a = FromEnd(s, 1, "0")
  OBVIOUS
<1>2. Full(a) /\ a[31] = "0" /\ \A p \in 0 .. 30 : a[p] = s[p]
  <2>1. a = [s EXCEPT ![31] = "0"]
    BY <1>1, CellsFromEnd
  <2> QED
    BY <2>1 DEF Full, Holds, Cell
<1>3. PICK t : t = Copied(a, 26, 29, line)
  OBVIOUS
<1>4. /\ Full(t)
      /\ \A p \in 26 .. 29 : t[p] = CharAt(line, p - 26 + 1)
      /\ \A p \in 0 .. 31 : p \notin 26 .. 29 => t[p] = a[p]
  <2>1. 4 = 29 - 26 + 1 /\ 26 \in 0 .. 31 /\ 29 \in 26 .. 31
    OBVIOUS
  <2> QED
    BY <1>2, <1>3, <2>1, CellsCopied
<1>5. ASSUME NEW k \in 1 .. 4
      PROVE  t[25 + k] = CharAt(line, k)
  <2>1. 25 + k \in 26 .. 29 /\ 25 + k \in 0 .. 31 /\ (25 + k) - 26 + 1 = k
    OBVIOUS
  <2> QED
    BY <1>4, <2>1
<1>6. DriveString(s, line) = t
  BY <1>1, <1>3 DEF DriveString
<1> QED
  BY <1>2, <1>4, <1>5, <1>6

(* dec_2_int of a full string: bit b is the character b places before its  *)
(* last one.                                                               *)
LEMMA WordBits ==
  ASSUME NEW s, Full(s)
  PROVE  /\ WordOf(s) \in [WordBit -> {"0", "1"}]
         /\ \A b \in WordBit : WordOf(s)[b] = s[31 - b]
<1>1. ASSUME NEW b \in WordBit
      PROVE  /\ StrLen(s) - 1 - b = 31 - b /\ 31 - b \in Cell
             /\ s[31 - b] \in {"0", "1"}
  <2>1. 31 - b \in 0 .. 31 /\ 32 - 1 - b = 31 - b
    BY DEF WordBit
  <2> QED
    BY <2>1, FullLength DEF Full, Holds, Cell
<1> QED
  BY <1>1 DEF WordOf

==============================================================================
