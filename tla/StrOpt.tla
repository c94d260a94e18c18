------------------------------- MODULE StrOpt -------------------------------
(***************************************************************************)
(* The text helpers of StrOpt (base/stropt/t_stropt.cpp) whose boundaries  *)
(* are easy to get wrong: the three splitters, which can be asked for a    *)
(* field by its level or field by field with an offset, the two calls that *)
(* remove blanks, the reading of a number and the writing of bytes as hex. *)
(*                                                                         *)
(* A text is a sequence of characters, a character a string of length one. *)
(* The machine reads one text field by field; what the other helpers make  *)
(* of a text depends on nothing but the text.                              *)
(***************************************************************************)
EXTENDS Integers, SequencesExt

CONSTANTS
  Chars,    \* the characters
  Texts,    \* the texts that are read
  Ways,     \* how they are split: [call, sep, merge]
  ExpHalf,  \* half the range of int16_t, 2^15 in the code
  Numbers,  \* the numbers that are written and read: [neg, mant, places, exp]
  Undefined \* what a call returns that has written past its string

VARIABLES
  text,   \* the text that is read
  way,    \* with which of the splitters
  off,    \* what `off` points to: how much of the text has been read
  fields  \* the fields returned so far

textVars == <<text, way, off, fields>>

Blanks == {" ", "\t", "\n", "\r"}
Numeral == <<"0", "1", "2", "3", "4", "5", "6", "7", "8", "9">>
Digits == Range(Numeral)

ASSUME TextAssumption ==
  /\ Blanks \cup Digits \cup {".", ",", "e", "E", "+", "-"} \subseteq Chars
  /\ Texts \subseteq Seq(Chars)
  /\ Ways \subseteq [call : {"strSepParse", "strParse", "strLine"},
                     sep : Seq(Chars), merge : BOOLEAN]
  /\ \A w \in Ways : w.call = "strSepParse" => Len(w.sep) = 1
  /\ ExpHalf \in Nat \ {0}
  /\ Numbers \subseteq [neg : BOOLEAN, mant : Nat, places : 0 .. ExpHalf - 1,
                        exp : 1 - ExpHalf .. ExpHalf - 1]
  /\ Undefined \notin Seq(Chars)

Blank(c)       == c \in Blanks  \* isspace
From(s, p)     == SubSeq(s, p, Len(s))
FirstOf(S, no) == IF S = {} THEN no ELSE CHOOSE p \in S : \A q \in S : p <= q
LastOf(S, no)  == IF S = {} THEN no ELSE CHOOSE p \in S : \A q \in S : p >= q

-----------------------------------------------------------------------------
(***************************************************************************)
(* The loop the splitters share.  size[p] is the length of the separator   *)
(* that begins at position p of s, 0 if none does; positions count from 1, *)
(* so that an_dir is the offset plus 1.  The result is the field and what  *)
(* *off is set to.                                                         *)
(***************************************************************************)
\* path.find(sep, an_dir); 0 is npos.
NextSep(size, an_dir) == FirstOf({p \in DOMAIN size : p >= an_dir /\ size[p] > 0}, 0)

\* Where the field after the separator at t_dir begins.
AfterSep(size, merge, t_dir) ==
  IF merge /\ size[t_dir] = 1
    THEN FirstOf({p \in DOMAIN size : p >= t_dir /\ size[p] = 0}, Len(size) + 1)
    ELSE t_dir + size[t_dir]

\* an_dir when the loop comes to t_lev, 0 when the separators do not last so long.
LevelStarts(size, merge, level, start) ==
  LET an_dir[t_lev \in 0 .. level] ==
        IF t_lev = 0 THEN start + 1
        ELSE IF an_dir[t_lev - 1] = 0 \/ NextSep(size, an_dir[t_lev - 1]) = 0 THEN 0
        ELSE AfterSep(size, merge, NextSep(size, an_dir[t_lev - 1]))
  IN an_dir

Split(s, size, merge, level, start) ==
  LET an_dir == LevelStarts(size, merge, level, start)[level]
      t_dir  == NextSep(size, an_dir)
  IN CASE start >= Len(s) -> [val |-> <<>>, off |-> start]
       [] start < Len(s) /\ an_dir = 0 -> [val |-> <<>>, off |-> Len(s)]
       [] start < Len(s) /\ an_dir > 0 /\ t_dir = 0 ->
            [val |-> From(s, an_dir), off |-> Len(s)]
       [] start < Len(s) /\ an_dir > 0 /\ t_dir > 0 ->
            [val |-> SubSeq(s, an_dir, t_dir - 1), off |-> t_dir + size[t_dir] - 1]

strSepParse(s, level, sep, start) ==
  Split(s, [p \in DOMAIN s |-> IF s[p] = sep THEN 1 ELSE 0], FALSE, level, start)

Begins(s, p, sep) ==
  p + Len(sep) - 1 <= Len(s) /\ SubSeq(s, p, p + Len(sep) - 1) = sep

strParse_MergesOne(s, level, sep, start, merge) ==  \* mutant: of a run, one is left
  Split(s, [p \in DOMAIN s |-> IF Begins(s, p, sep) THEN Len(sep) ELSE 0],
        FALSE, level, start)

strParse(s, level, sep, start, merge) ==
  IF sep = <<>> THEN [val |-> <<>>, off |-> start]
  ELSE Split(s, [p \in DOMAIN s |-> IF Begins(s, p, sep) THEN Len(sep) ELSE 0],
             merge, level, start)

\* edLnSmbSz: CR and LF together are one end of line.
edLnSmbSz_One(s, p) == IF s[p] \in {"\r", "\n"} THEN 1 ELSE 0  \* mutant

edLnSmbSz(s, p) ==
  IF s[p] = "\r" /\ p < Len(s) /\ s[p + 1] = "\n" THEN 2
  ELSE IF s[p] \in {"\r", "\n"} THEN 1 ELSE 0

strLine(s, level, start) ==
  Split(s, [p \in DOMAIN s |-> edLnSmbSz(s, p)], FALSE, level, start)

Field(w, s, level, start) ==
  CASE w.call = "strSepParse" -> strSepParse(s, level, w.sep[1], start)
    [] w.call = "strParse"    -> strParse(s, level, w.sep, start, w.merge)
    [] w.call = "strLine"     -> strLine(s, level, start)

-----------------------------------------------------------------------------
\* strTrim: from the first to the last character that is not in cfg.
strTrim(val, cfg) ==
  LET kept == {p \in DOMAIN val : val[p] \notin cfg}
  IN SubSeq(val, FirstOf(kept, 1), LastOf(kept, 0))

(***************************************************************************)
(* strSimplified.  The first part of the text, up to the blanks that have  *)
(* to be shortened, is copied as it is; the rest word by word.  `result`   *)
(* has room for that part and for what follows it, fromEnd - from; but     *)
(* copyCount * 2 bytes are copied, so that the first part needs that room  *)
(* twice and overruns `result` when it is longer than what follows it.     *)
(***************************************************************************)
\* The last character, at fromEnd after its decrement, ends the last word.
Shortened_DropsLast(val, from, last) ==  \* mutant: it is left out
  LET rest[f \in from .. last] ==
        LET g == FirstOf({q \in f + 1 .. last : ~Blank(val[q])}, last)
            e == FirstOf({q \in g + 1 .. last - 1 : Blank(val[q])}, last)
        IN <<" ">> \o IF e = last THEN SubSeq(val, g, last - 1)
                                  ELSE SubSeq(val, g, e - 1) \o rest[e]
  IN rest[from]

Shortened(val, from, last) ==
  LET rest[f \in from .. last] ==
        LET g == FirstOf({q \in f + 1 .. last : ~Blank(val[q])}, last)
            e == FirstOf({q \in g + 1 .. last - 1 : Blank(val[q])}, last)
        IN <<" ">> \o IF e = last THEN SubSeq(val, g, last)
                                  ELSE SubSeq(val, g, e - 1) \o rest[e]
  IN rest[from]

Ink(val) == {p \in DOMAIN val : ~Blank(val[p])}
FirstInk(val) == FirstOf(Ink(val), 0)
LastInk(val)  == LastOf(Ink(val), 0)

\* The loop that looks for a blank other than ' ', or for two in a row: where
\* it stops, and where `from` is left.
Stop(val) ==
  FirstOf({p \in FirstInk(val) .. LastInk(val) :
             Blank(val[p]) /\ (val[p] # " " \/ Blank(val[p + 1]))},
          LastInk(val) + 1)

StopFrom(val) == IF val[Stop(val)] = " " THEN Stop(val) + 1 ELSE Stop(val)

Overruns(val) ==
  /\ Ink(val) # {} /\ Stop(val) <= LastInk(val)
  /\ LET copyCount == Stop(val) - FirstInk(val)
     IN 2 * copyCount > ((LastInk(val) + 1) - StopFrom(val)) + copyCount

strSimplified(val) ==
  CASE Ink(val) = {} -> val
    [] Ink(val) # {} /\ Stop(val) > LastInk(val) ->
         SubSeq(val, FirstInk(val), LastInk(val))
    [] Overruns(val) -> Undefined
    [] Ink(val) # {} /\ Stop(val) <= LastInk(val) /\ ~Overruns(val) ->
         SubSeq(val, FirstInk(val), Stop(val) - 1)
           \o Shortened(val, StopFrom(val), LastInk(val))

-----------------------------------------------------------------------------
(***************************************************************************)
(* str2real, as the pair of an integer and a power of ten; the double that *)
(* is made of them is rounded.  The exponent and the number of digits      *)
(* after the radix point are kept in an int16_t.                           *)
(***************************************************************************)
Wrapped(n) == ((n + ExpHalf) % (2 * ExpHalf)) - ExpHalf

DigitAt(s, p) == CHOOSE d \in 0 .. 9 : Numeral[d + 1] = s[p]

\* Where the digits that begin at p end, and the number they continue, in an
\* int16_t if `short`.
AfterDigits(s, p) == FirstOf({q \in p .. Len(s) : s[q] \notin Digits}, Len(s) + 1)

Continued(s, p, e, n, short) ==
  LET Kept(m) == IF short THEN Wrapped(m) ELSE m
      value[q \in p - 1 .. e - 1] ==
        IF q < p THEN n ELSE Kept(Kept(value[q - 1] * 10) + DigitAt(s, q))
  IN value[e - 1]

Is(s, p, chars) == p <= Len(s) /\ s[p] \in chars
AfterSign(s, p) == IF Is(s, p, {"+", "-"}) THEN p + 1 ELSE p
Signed(s, p, n) == IF Is(s, p, {"-"}) THEN -n ELSE n

\* tAftRdx: the exponent, if one begins at position p.
tAftRdx_Unsigned(s, p) ==  \* mutant: isExpNeg is not looked at
  LET digits == AfterSign(s, p + 1)
  IN IF Is(s, p, {"e", "E"})
       THEN Continued(s, digits, AfterDigits(s, digits), 0, TRUE)
       ELSE 0

tAftRdx(s, p) ==
  LET digits == AfterSign(s, p + 1)
  IN IF Is(s, p, {"e", "E"})
       THEN Wrapped(Signed(s, p + 1,
              Continued(s, digits, AfterDigits(s, digits), 0, TRUE)))
       ELSE 0

str2real(s) ==
  LET start == FirstOf({p \in DOMAIN s : s[p] \notin {" ", "\t"}}, Len(s) + 1)
      base  == AfterSign(s, start)
      radix == AfterDigits(s, base)
      frac  == IF Is(s, radix, {".", ","}) THEN radix + 1 ELSE radix
      mark  == IF frac = radix THEN radix ELSE AfterDigits(s, frac)
      whole == Continued(s, base, radix, 0, FALSE)
  IN [mant |-> Signed(s, start, Continued(s, frac, mark, whole, FALSE)),
      exp  |-> tAftRdx(s, mark) - Wrapped(mark - frac)]

-----------------------------------------------------------------------------
\* b2str: each byte is two digits; a terminator follows them.
b2str_OneTooMany(bufLen, strLen) ==  \* mutant: index < strLen - 1
  2 * Cardinality({i \in 0 .. bufLen - 1 : 2 * i < strLen - 1})

\* What it returns: the digits written before the terminator.
b2str(bufLen, strLen) ==
  2 * Cardinality({i \in 0 .. bufLen - 1 : 2 * i < strLen - 2})

-----------------------------------------------------------------------------
\* A reader takes the fields of a text one after the other, at level 0 and
\* with `off`, until nothing is left.
TextInit ==
  /\ text \in Texts /\ way \in Ways
  /\ off = 0 /\ fields = <<>>

ReadField ==
  LET f == Field(way, text, 0, off)
  IN
  /\ off < Len(text)
  /\ fields' = Append(fields, f.val)
  /\ off' = f.off
  /\ UNCHANGED <<text, way>>

TextSpec == TextInit /\ [][ReadField]_textVars

-----------------------------------------------------------------------------
\* The separator a reader expects between two fields; every end of line is
\* one separator.
Between == IF way.call = "strLine" THEN <<"\n">> ELSE way.sep

\* The text with every end of line written as LF.
Normal(s) ==
  IF way.call # "strLine" THEN s
  ELSE FlattenSeq([p \in DOMAIN s |->
         IF s[p] = "\n" /\ p > 1 /\ s[p - 1] = "\r" THEN <<>>
         ELSE IF s[p] = "\r" THEN <<"\n">> ELSE <<s[p]>>])

Glued(list, between) ==
  FlattenSeq([k \in DOMAIN list |-> IF k = 1 THEN list[k] ELSE between \o list[k]])

Holds(s, part) == \E p \in DOMAIN s : Begins(s, p, part)

\* Reading field by field loses nothing and invents nothing: the fields, with
\* a separator between each two, are the part of the text that has been read,
\* no field holds a separator, and a field that is there is not passed over.
FieldsReadBack ==
  fields # <<>> =>
    /\ Normal(SubSeq(text, 1, off)) \in
         {Glued(fields, Between), Glued(fields, Between) \o Between}
    /\ \A k \in DOMAIN fields : ~Holds(fields[k], Between)

\* The text with each run of a separator reduced to one.
Squeezed(s, c) ==
  FlattenSeq([p \in DOMAIN s |->
    IF p > 1 /\ s[p] = c /\ s[p - 1] = c THEN <<>> ELSE <<s[p]>>])

\* "11.22.33.44 --> 11:0 22:1 33:2 44:3": the field at level k is the k-th that
\* is read with `off`; when separators are merged, of the text in which each
\* run of them is one.
LevelIsNthRead ==
  \A k \in DOMAIN fields :
    Field(way, text, k - 1, 0).val =
      IF way.call = "strParse" /\ way.merge /\ Len(way.sep) = 1
        THEN Field(way, Squeezed(text, way.sep[1]), k - 1, 0).val
        ELSE fields[k]

\* The words of a text with one blank between each two.
Words(s) ==
  FlattenSeq([p \in DOMAIN s |->
    IF Blank(s[p]) THEN <<>>
    ELSE IF p > 1 /\ Blank(s[p - 1]) /\ \E q \in 1 .. p - 1 : ~Blank(s[q])
      THEN <<" ", s[p]>>
      ELSE <<s[p]>>])

\* What strSimplified returns are the words of the text with one blank between
\* each two, and trimming the text before makes no difference: of every text
\* that has a word and whose first part does not overrun the copy.  Of the others
\* it is not so, although "remove the blanks before and after, of those in
\* between keep one" (t_stropt.h:116) excepts none.
WordsKept ==
  Ink(text) # {} =>
    \A s \in {text, strTrim(text, Blanks)} :
      ~Overruns(s) => strSimplified(s) = Words(text)

\* How a number is written: `places` digits follow the radix point.
Written(n) ==
  LET digits[k \in Nat] == IF k < 10 THEN <<Numeral[k + 1]>>
                           ELSE Append(digits[k \div 10], Numeral[(k % 10) + 1])
      zeros == [k \in 1 .. n.places |-> "0"]
      all   == IF Len(digits[n.mant]) <= n.places THEN zeros \o digits[n.mant]
                                                  ELSE digits[n.mant]
      point == Len(all) - n.places
  IN (IF n.neg THEN <<" ", "-">> ELSE <<>>)
       \o SubSeq(all, 1, point)
       \o (IF n.places = 0 THEN <<>> ELSE <<".">> \o From(all, point + 1))
       \o (IF n.exp = 0 THEN <<>>
           ELSE <<"e">> \o (IF n.exp < 0 THEN <<"-">> \o digits[-n.exp]
                                         ELSE digits[n.exp]))

NumberTexts == {Written(n) : n \in Numbers}

\* A number that is written and read again is the same number, as long as its
\* exponent fits the 16 bits the code keeps it in.
RealAsWritten ==
  text \in NumberTexts =>
    \A n \in Numbers : text = Written(n) =>
      str2real(text) = [mant |-> IF n.neg THEN -n.mant ELSE n.mant,
                        exp  |-> n.exp - n.places]

\* The digits and the terminator fit the buffer, and no byte is left out that
\* has room.
HexFits ==
  \A strLen \in 1 .. 2 * Len(text) + 3 :
    LET written == b2str(Len(text), strLen)
    IN /\ written + 1 <= strLen
       /\ written < 2 * Len(text) => written + 3 > strLen
=============================================================================
