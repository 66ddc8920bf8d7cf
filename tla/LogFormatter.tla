---------------------------- MODULE LogFormatter ----------------------------
(***************************************************************************)
(* LogFormatter::init() (wille/log.cpp): how a pattern is cut into text    *)
(* and items, and which patterns are refused.  A pattern is a sequence of  *)
(* characters, of which the parser tells apart '%', the braces, letters,   *)
(* and everything else.  One Step is one turn of the loop over i; what a   *)
(* step skips in its inner loop is found as a first position.              *)
(***************************************************************************)
EXTENDS Naturals, Sequences, SequencesExt

CONSTANTS
  Letters,     \* the letters
  FormatItems, \* those that s_format_items has
  Others       \* characters that are neither letters, '%' nor braces

(* The braces around the format of an item *)
Open == "{"
Close == "}"

ASSUME LogFormatterAssumption ==
  FormatItems \subseteq Letters /\ (Letters \cup Others) \cap {"%", Open, Close} = {}
    /\ Letters \cap Others = {}

(* The first position after i whose character is in set, or the end *)
Find(pattern, i, set) ==
  LET n == SelectInSubSeq(pattern, i + 1, Len(pattern), LAMBDA c : c \in set)
  IN  IF n = 0 THEN Len(pattern) + 1 ELSE n

Text(str) == [str |-> str, fmt |-> << >>, type |-> 0]

Flush(nstr, vec) == IF nstr = << >> THEN vec ELSE Append(vec, Text(nstr))

(* Where the name of the item at i ends: braces that close belong to it. *)
NameEnd_AnyBrace(pattern, i) == Find(pattern, i, Others \cup {"%", Open, Close})

NameEnd(pattern, i) == Find(pattern, i, Others \cup {"%", Open})

(* The item at i; a format that is not closed is an error, the text before *)
(* it stays in nstr, and the loop goes on behind the '%'.                  *)
Item(pattern, st) ==
  LET i == st.i
      n == NameEnd(pattern, i)
      close == Find(pattern, n, {Close})
      str == SubSeq(pattern, i + 1, n - 1)
      hasFmt == n <= Len(pattern) /\ pattern[n] = Open
      Push(fmt, next) ==
        [i |-> next, nstr |-> << >>, m_error |-> st.m_error,
         vec |-> Append(Flush(st.nstr, st.vec), [str |-> str, fmt |-> fmt, type |-> 1])]
  IN  IF ~hasFmt THEN Push(<< >>, n)
      ELSE IF close <= Len(pattern) THEN Push(SubSeq(pattern, n + 1, close - 1), close + 1)
      ELSE [i |-> i + 1, nstr |-> st.nstr, m_error |-> TRUE,
            vec |-> Append(st.vec, Text(<<"<<pattern_error>>">>))]

(* A '%' before a '%' is text, and so is what does not start with one. *)
Step(pattern, st) ==
  LET i == st.i
  IN  IF pattern[i] # "%" \/ (i < Len(pattern) /\ pattern[i + 1] = "%")
      THEN [st EXCEPT !.i = i + 1, !.nstr = Append(@, pattern[i])]
      ELSE Item(pattern, st)

UnknownItem(item) == item.type = 1 /\ item.str \notin {<<c>> : c \in FormatItems}

init(pattern) ==
  LET turn[k \in 0 .. Len(pattern)] ==
        IF k = 0 THEN [i |-> 1, nstr |-> << >>, vec |-> << >>, m_error |-> FALSE]
        ELSE IF turn[k - 1].i > Len(pattern) THEN turn[k - 1]
        ELSE Step(pattern, turn[k - 1])
      end == turn[Len(pattern)]
      vec == Flush(end.nstr, end.vec)
  IN  [vec |-> vec,
       m_error |-> end.m_error \/ \E item \in ToSet(vec) : UnknownItem(item)]

isError(pattern) == init(pattern).m_error

-----------------------------------------------------------------------------
(* The patterns, without a parser *)

(* The characters from i to before j are one character of text, or one     *)
(* known item with or without a format, as init() reads them: a '%' before *)
(* another '%' is text, and the other one is read on its own.              *)
IsWord(p, i, j) ==
  \/ j = i + 1 /\ (p[i] = "%" => j <= Len(p) /\ p[j] = "%")
  \/ /\ p[i] = "%" /\ i + 1 < j /\ p[i + 1] \in FormatItems
     /\ \/ j = i + 2 /\ (j <= Len(p) => p[j] \in Others \cup {"%"})
        \/ /\ i + 3 < j /\ p[i + 2] = Open /\ p[j - 1] = Close
           /\ \A k \in i + 3 .. j - 2 : p[k] # Close

(* The characters are one of the forms that the comment over init() lists, *)
(* "%xxx %xxx{xxx} %%", or one character of text.                          *)
IsForm(p, i, j) ==
  IF p[i] = "%" /\ i < Len(p) /\ p[i + 1] = "%" THEN j = i + 2 ELSE IsWord(p, i, j)

(* The pattern is a row of words: cut has the places where they begin. *)
Row(p, Word(_, _, _)) ==
  \E cut \in SUBSET (1 .. Len(p)) :
    /\ p # << >> => 1 \in cut
    /\ \A i \in cut : \E j \in cut \cup {Len(p) + 1} :
         i < j /\ (\A k \in i + 1 .. j - 1 : k \notin cut) /\ Word(p, i, j)

WellFormed(p) == Row(p, IsWord)
Documented(p) == Row(p, IsForm)

(* Where the two differ *)
HasDoublePercent(p) == \E i \in 1 .. Len(p) : p[i] = "%" /\ i < Len(p) /\ p[i + 1] = "%"

(* What the items stand for in the pattern *)
Written(item) ==
  IF item.type = 0 THEN item.str
  ELSE <<"%">> \o item.str
         \o IF item.fmt = << >> THEN << >> ELSE <<Open>> \o item.fmt \o <<Close>>

=============================================================================
