------------------------- MODULE LogFormatterProofs -------------------------
(***************************************************************************)
(* LogFormatter::init() against the grammar, for every pattern: it refuses *)
(* exactly the patterns that are not rows of text and known items, and the *)
(* items of one that it accepts are the pattern again.                     *)
(*                                                                         *)
(* The loop is followed turn by turn: where a turn ends is where the word  *)
(* at its beginning ends, if there is one, and an error if there is none.  *)
(***************************************************************************)
EXTENDS LogFormatter, TLAPS, WellFoundedInduction, SequenceTheorems

Chars == Letters \cup Others \cup {"%", Open, Close}

(* What the items are spelled with: the loop adds the text of an error. *)
Symbols == Chars \cup {"<<pattern_error>>"}

Items == [str : Seq(Symbols), fmt : Seq(Symbols), type : {0, 1}]

(* What the loop works on *)
ParserStates == [i : Nat, nstr : Seq(Symbols), vec : Seq(Items), m_error : BOOLEAN]

Start == [i |-> 1, nstr |-> << >>, vec |-> << >>, m_error |-> FALSE]

Turn(p, st) == IF st.i > Len(p) THEN st ELSE Step(p, st)

(* run has the states after 0 .. n turns. *)
Turns(p, run, n) ==
  run = [k \in 0 .. n |-> IF k = 0 THEN Start ELSE Turn(p, run[k - 1])]

HasUnknown(vec) == \E item \in ToSet(vec) : UnknownItem(item)

(* The pattern is refused, whatever follows. *)
Bad(st) == st.m_error \/ HasUnknown(st.vec)

(* n is the first position after i whose character is in set, or the end.  *)
First(p, i, set, n) ==
  /\ n \in i + 1 .. Len(p) + 1
  /\ \A k \in i + 1 .. n - 1 : p[k] \notin set
  /\ n <= Len(p) => p[n] \in set

-----------------------------------------------------------------------------
(* A set of numbers has a least one. *)
LEMMA LeastNumber ==
  ASSUME NEW T, T \subseteq Nat, T # {}
  PROVE  \E x \in T : \A y \in T : x <= y
<1>. DEFINE R == OpToRel(<, Nat)
<1>1. R = {ss \in Nat \X Nat : ss[1] < ss[2]}
  BY DEF OpToRel
<1>2. IsWellFoundedOn(R, Nat)
  BY NatLessThanWellFounded
<1>. HIDE DEF R
<1>3. PICK x \in T : \A y \in T : ~ (<<y, x>> \in R)
  BY <1>2, WFMin
<1>4. ASSUME NEW y \in T PROVE x <= y
  <2>1. x \in Nat /\ y \in Nat /\ ~ (y < x)
    BY <1>1, <1>3
  <2>. QED BY <2>1
<1>. QED BY <1>4

(* Induction up to n, for a set of numbers *)
LEMMA UpTo ==
  ASSUME NEW n \in Nat, NEW S, 0 \in S, \A k \in 0 .. n - 1 : k \in S => k + 1 \in S
  PROVE  0 .. n \subseteq S
<1>. SUFFICES ASSUME ~ (0 .. n \subseteq S) PROVE FALSE
  OBVIOUS
<1>1. PICK x \in (0 .. n) \ S : \A y \in (0 .. n) \ S : x <= y
  <2>. (0 .. n) \ S \subseteq Nat /\ (0 .. n) \ S # {}
    OBVIOUS
  <2>. QED BY LeastNumber
<1>2. x \in Nat /\ x # 0 /\ x <= n /\ x \notin S
  BY <1>1
<1>3. x - 1 \in 0 .. n - 1 /\ (x - 1) + 1 = x
  BY <1>2
<1>4. x - 1 \in S
  BY <1>1, <1>2, <1>3
<1>. QED BY <1>2, <1>3, <1>4

(* Find() returns the first position, or the end. *)
LEMMA FindFacts ==
  ASSUME NEW p \in Seq(Chars), NEW i \in Nat, i <= Len(p), NEW set
  PROVE  First(p, i, set, Find(p, i, set))
<1>. DEFINE I == {k \in i + 1 .. Len(p) : p[k] \in set}
<1>1. Find(p, i, set) = LET n == IF I # {} THEN Min(I) ELSE 0
                        IN  IF n = 0 THEN Len(p) + 1 ELSE n
  BY DEF Find, SelectInSubSeq
<1>2. I \subseteq Nat /\ I \subseteq i + 1 .. Len(p)
  OBVIOUS
<1>3. CASE I = {}
  <2>1. Find(p, i, set) = Len(p) + 1
    BY <1>1, <1>3
  <2>2. First(p, i, set, Len(p) + 1)
    BY <1>3 DEF First
  <2>. QED BY <2>1, <2>2
<1>4. CASE I # {}
  <2>1. Min(I) \in I /\ \A y \in I : Min(I) <= y
    <3>1. \E x \in I : \A y \in I : x <= y
      BY <1>2, <1>4, LeastNumber
    <3>. HIDE DEF I
    <3>. QED BY <3>1 DEF Min
  <2>2. Find(p, i, set) = Min(I)
    BY <1>1, <1>4, <2>1
  <2>3. ASSUME NEW k \in i + 1 .. Min(I) - 1 PROVE p[k] \notin set
    <3>1. k \in i + 1 .. Len(p) /\ Min(I) \in Nat /\ ~ (Min(I) <= k)
      BY <2>1, <1>2
    <3>. QED BY <3>1, <2>1
  <2>4. First(p, i, set, Min(I))
    BY <2>1, <2>3 DEF First
  <2>. QED BY <2>2, <2>4
<1>. QED BY <1>3, <1>4

(* The characters that the parser tells apart are different. *)
LEMMA CharFacts ==
  /\ "%" \in Chars /\ Open \in Chars /\ Close \in Chars /\ Chars \subseteq Symbols
  /\ \A c \in Letters : c \notin Others \cup {"%", Open, Close}
  /\ \A c \in Others : c \notin Letters \cup {"%", Open, Close}
  /\ FormatItems \subseteq Letters
  /\ Open # "%" /\ Close # "%" /\ Open # Close
<1>1. Open # "%" /\ Close # "%" /\ Open # Close
  BY Zenon DEF Open, Close
<1>. QED BY <1>1, LogFormatterAssumption DEF Chars, Symbols

-----------------------------------------------------------------------------
(* The elements of a sequence with one more element *)
LEMMA ToSetAppend ==
  ASSUME NEW S, NEW s \in Seq(S), NEW x \in S
  PROVE  ToSet(Append(s, x)) = ToSet(s) \cup {x}
<1>1. DOMAIN s = 1 .. Len(s) /\ DOMAIN Append(s, x) = 1 .. Len(s) + 1 /\ Len(s) \in Nat
  BY AppendProperties, LenProperties
<1>2. (\A i \in 1 .. Len(s) : Append(s, x)[i] = s[i]) /\ Append(s, x)[Len(s) + 1] = x
  BY AppendProperties
<1>. QED BY <1>1, <1>2 DEF ToSet

(* An item that is added is the only new one that may be unknown. *)
LEMMA UnknownAppend ==
  ASSUME NEW vec \in Seq(Items), NEW item \in Items
  PROVE  HasUnknown(Append(vec, item)) <=> HasUnknown(vec) \/ UnknownItem(item)
BY ToSetAppend DEF HasUnknown

(* Text is no unknown item. *)
LEMMA TextFacts ==
  ASSUME NEW str \in Seq(Symbols)
  PROVE  Text(str) \in Items /\ ~UnknownItem(Text(str))
<1>1. << >> \in Seq(Symbols)
  BY EmptySeq
<1>. QED BY <1>1 DEF Text, Items, UnknownItem

(* Flush() makes an item of the text, if there is any. *)
LEMMA FlushFacts ==
  ASSUME NEW nstr \in Seq(Symbols), NEW vec \in Seq(Items)
  PROVE  Flush(nstr, vec) \in Seq(Items) /\ (HasUnknown(Flush(nstr, vec)) <=> HasUnknown(vec))
<1>1. CASE nstr = << >>
  BY <1>1 DEF Flush
<1>2. CASE nstr # << >>
  BY <1>2, TextFacts, UnknownAppend, AppendProperties DEF Flush
<1>. QED BY <1>1, <1>2

-----------------------------------------------------------------------------
(* The characters of a pattern *)
LEMMA CharAt ==
  ASSUME NEW p \in Seq(Chars), NEW k \in 1 .. Len(p)
  PROVE  p[k] \in Chars /\ p[k] \in Symbols
BY ElementOfSeq, CharFacts

(* A known item has one character between its '%' and where its name ends. *)
LEMMA KnownItem ==
  ASSUME NEW p \in Seq(Chars), NEW i \in 1 .. Len(p), NEW n \in i + 1 .. Len(p) + 1, NEW fmt
  PROVE  /\ SubSeq(p, i + 1, n - 1) \in Seq(Symbols)
         /\ UnknownItem([str |-> SubSeq(p, i + 1, n - 1), fmt |-> fmt, type |-> 1])
              <=> ~ (n = i + 2 /\ p[i + 1] \in FormatItems)
<1>. DEFINE str == SubSeq(p, i + 1, n - 1)
<1>1. /\ str \in Seq(Symbols)
      /\ Len(str) = IF i + 1 <= n - 1 THEN n - 1 - (i + 1) + 1 ELSE 0
      /\ \A k \in 1 .. n - 1 - (i + 1) + 1 : str[k] = p[i + 1 + k - 1]
  <2>1. \A k \in i + 1 .. n - 1 : p[k] \in Symbols
    <3>1. \A k \in i + 1 .. n - 1 : k \in 1 .. Len(p)
      <4>. HIDE DEF str
      <4>1. Len(p) \in Nat /\ i \in Nat /\ n \in Nat /\ i <= Len(p) /\ n <= Len(p) + 1
        OBVIOUS
      <4>. QED BY <4>1
    <3>. QED BY <3>1, CharAt
  <2>. QED BY <2>1, SubSeqProperties
<1>2. Len(str) = n - i - 1
  BY <1>1
<1>3. UnknownItem([str |-> str, fmt |-> fmt, type |-> 1]) <=> str \notin {<<c>> : c \in FormatItems}
  BY DEF UnknownItem
<1>4. n = i + 2 => str[1] = p[i + 1]
  <2>1. ASSUME n = i + 2 PROVE 1 \in 1 .. n - 1 - (i + 1) + 1 /\ i + 1 + 1 - 1 = i + 1
    BY <2>1
  <2>. HIDE DEF str
  <2>. QED BY <1>1, <2>1
<1>. HIDE DEF str
<1>5. ASSUME NEW c \in FormatItems, str = <<c>> PROVE n = i + 2 /\ p[i + 1] \in FormatItems
  <2>1. Len(str) = 1 /\ str[1] = c
    BY <1>5
  <2>2. n = i + 2
    <3>1. n \in Int /\ i \in Int
      OBVIOUS
    <3>2. n - i - 1 = 1
      BY <2>1, <1>2
    <3>. QED BY <3>1, <3>2
  <2>3. str[1] = p[i + 1]
    BY <2>2, <1>4
  <2>4. p[i + 1] = c
    BY <2>1, <2>3
  <2>. QED BY <2>2, <2>4
<1>6. ASSUME n = i + 2, p[i + 1] \in FormatItems PROVE str \in {<<c>> : c \in FormatItems}
  <2>1. Len(str) = 1 /\ str[1] = p[i + 1]
    BY <1>2, <1>4, <1>6
  <2>2. str = << p[i + 1] >>
    BY <2>1, <1>1
  <2>. QED BY <2>2, <1>6
<1>. QED BY <1>1, <1>3, <1>5, <1>6 DEF str

(* A turn at text moves one character into nstr. *)
LEMMA TextStep ==
  ASSUME NEW p \in Seq(Chars), NEW st \in ParserStates, st.i \in 1 .. Len(p),
         p[st.i] # "%" \/ (st.i < Len(p) /\ p[st.i + 1] = "%")
  PROVE  /\ Step(p, st) \in ParserStates
         /\ Step(p, st) = [i |-> st.i + 1, nstr |-> Append(st.nstr, p[st.i]), vec |-> st.vec,
                           m_error |-> st.m_error]
<1>1. p[st.i] \in Symbols
  BY CharAt
<1>2. Append(st.nstr, p[st.i]) \in Seq(Symbols)
  BY <1>1, AppendProperties DEF ParserStates
<1>3. Step(p, st) = [i |-> st.i + 1, nstr |-> Append(st.nstr, p[st.i]), vec |-> st.vec,
                     m_error |-> st.m_error]
  BY DEF Step, ParserStates
<1>. QED BY <1>2, <1>3 DEF ParserStates

(* What a turn at an item does: pushed is the state with the item that was *)
(* read, and a format that is not closed is an error.                      *)
Pushed(p, st, n, fmt, next) ==
  [i |-> next, nstr |-> << >>, m_error |-> st.m_error,
   vec |-> Append(Flush(st.nstr, st.vec),
                  [str |-> SubSeq(p, st.i + 1, n - 1), fmt |-> fmt, type |-> 1])]

(* An item that was read is unknown, or it leaves the pattern as it was.   *)
LEMMA PushedFacts ==
  ASSUME NEW p \in Seq(Chars), NEW st \in ParserStates, st.i \in 1 .. Len(p),
         NEW n \in st.i + 1 .. Len(p) + 1, NEW fmt \in Seq(Symbols), NEW next \in Nat
  PROVE  /\ Pushed(p, st, n, fmt, next) \in ParserStates
         /\ Bad(Pushed(p, st, n, fmt, next))
              <=> Bad(st) \/ ~ (n = st.i + 2 /\ p[st.i + 1] \in FormatItems)
<1>. DEFINE item == [str |-> SubSeq(p, st.i + 1, n - 1), fmt |-> fmt, type |-> 1]
            vec == Flush(st.nstr, st.vec)
<1>1. item \in Items
  BY KnownItem DEF Items
<1>2. st.nstr \in Seq(Symbols) /\ st.vec \in Seq(Items) /\ st.m_error \in BOOLEAN
  BY DEF ParserStates
<1>3. vec \in Seq(Items) /\ (HasUnknown(vec) <=> HasUnknown(st.vec))
  BY <1>2, FlushFacts
<1>4. Append(vec, item) \in Seq(Items)
  BY <1>1, <1>3, AppendProperties
<1>5. << >> \in Seq(Symbols)
  BY EmptySeq
<1>6. Pushed(p, st, n, fmt, next)
        = [i |-> next, nstr |-> << >>, m_error |-> st.m_error, vec |-> Append(vec, item)]
  BY DEF Pushed
<1>7. UnknownItem(item) <=> ~ (n = st.i + 2 /\ p[st.i + 1] \in FormatItems)
  BY KnownItem
<1>. HIDE DEF vec, item
<1>8. HasUnknown(Append(vec, item)) <=> HasUnknown(vec) \/ UnknownItem(item)
  BY <1>1, <1>3, UnknownAppend
<1>9. Pushed(p, st, n, fmt, next) \in ParserStates
  BY <1>2, <1>4, <1>5, <1>6 DEF ParserStates
<1>10. Bad(Pushed(p, st, n, fmt, next)) <=> st.m_error \/ HasUnknown(Append(vec, item))
  BY <1>6 DEF Bad
<1>. QED BY <1>3, <1>7, <1>8, <1>9, <1>10 DEF Bad

(* A format that is not closed *)
Unclosed(st) ==
  [i |-> st.i + 1, nstr |-> st.nstr, m_error |-> TRUE,
   vec |-> Append(st.vec, Text(<<"<<pattern_error>>">>))]

(* An error that was found stays, and the loop goes on behind the '%'.     *)
LEMMA ErrorFacts ==
  ASSUME NEW st \in ParserStates
  PROVE  Unclosed(st) \in ParserStates /\ Bad(Unclosed(st))
<1>1. <<"<<pattern_error>>">> \in Seq(Symbols)
  BY DEF Symbols
<1>2. Append(st.vec, Text(<<"<<pattern_error>>">>)) \in Seq(Items)
  BY <1>1, TextFacts, AppendProperties DEF ParserStates
<1>. QED BY <1>2 DEF Unclosed, ParserStates, Bad

(* Where Item() looks for the end of a format *)
Closing(p, n) == Find(p, n, {Close})

(* The three ways in which a turn at an item ends *)
LEMMA ItemIs ==
  ASSUME NEW p, NEW st, NEW n, n = NameEnd(p, st.i), NEW close, close = Closing(p, n)
  PROVE  /\ ~ (n <= Len(p) /\ p[n] = Open) => Item(p, st) = Pushed(p, st, n, << >>, n)
         /\ n <= Len(p) /\ p[n] = Open /\ close <= Len(p)
              => Item(p, st) = Pushed(p, st, n, SubSeq(p, n + 1, close - 1), close + 1)
         /\ n <= Len(p) /\ p[n] = Open /\ ~ (close <= Len(p)) => Item(p, st) = Unclosed(st)
<1>1. ASSUME ~ (n <= Len(p) /\ p[n] = Open) PROVE Item(p, st) = Pushed(p, st, n, << >>, n)
  BY <1>1 DEF Item, Pushed, Closing
<1>2. ASSUME n <= Len(p), p[n] = Open, close <= Len(p)
      PROVE  Item(p, st) = Pushed(p, st, n, SubSeq(p, n + 1, close - 1), close + 1)
  BY <1>2 DEF Item, Pushed, Closing
<1>3. ASSUME n <= Len(p), p[n] = Open, ~ (close <= Len(p)) PROVE Item(p, st) = Unclosed(st)
  BY <1>3 DEF Item, Unclosed, Closing
<1>. QED BY <1>1, <1>2, <1>3

-----------------------------------------------------------------------------
(* Text is a word of one character, and no other word begins there. *)
LEMMA WordOfText ==
  ASSUME NEW p \in Seq(Chars), NEW i \in 1 .. Len(p),
         p[i] # "%" \/ (i < Len(p) /\ p[i + 1] = "%"), NEW j \in i + 1 .. Len(p) + 1
  PROVE  IsWord(p, i, j) <=> j = i + 1
<1>1. i \in Int /\ j \in Int /\ Len(p) \in Int
  OBVIOUS
<1>2. ASSUME j = i + 1 PROVE IsWord(p, i, j)
  <2>1. p[i] = "%" => j <= Len(p) /\ p[j] = "%"
    BY <1>1, <1>2
  <2>. QED BY <2>1, <1>2 DEF IsWord
<1>3. ASSUME IsWord(p, i, j), j # i + 1 PROVE FALSE
  <2>1. p[i] = "%" /\ p[i + 1] \in FormatItems
    BY <1>3 DEF IsWord
  <2>. QED BY <2>1, CharFacts
<1>. QED BY <1>2, <1>3

(* Where the name of an item ends, and where its format is closed *)
NameEnds(p, i, n) == First(p, i, Others \cup {"%", Open}, n)

Closes(p, n, close) == First(p, n, {Close}, close)

(* A word that begins with the '%' of an item is a known item: its name is *)
(* one character, and it ends there or where its format is closed.         *)
ItemWord(p, i, j, n, close) ==
  /\ n = i + 2 /\ p[i + 1] \in FormatItems
  /\ \/ j = n /\ ~ (n <= Len(p) /\ p[n] = Open)
     \/ n <= Len(p) /\ p[n] = Open /\ close <= Len(p) /\ j = close + 1

(* What the parser reads there is a word of the grammar. *)
LEMMA ItemIsWord ==
  ASSUME NEW p \in Seq(Chars), NEW i \in 1 .. Len(p), p[i] = "%", NEW j \in i + 1 .. Len(p) + 1,
         NEW n \in Nat, NEW close \in Nat, NameEnds(p, i, n),
         n <= Len(p) => Closes(p, n, close), ItemWord(p, i, j, n, close)
  PROVE  IsWord(p, i, j)
<1>1. n \in i + 1 .. Len(p) + 1 /\ (n <= Len(p) => p[n] \in Others \cup {"%", Open})
  BY DEF NameEnds, Closes, First
<1>2. n = i + 2 /\ p[i + 1] \in FormatItems
  BY DEF ItemWord
<1>3. i \in Int /\ j \in Int /\ Len(p) \in Int
  OBVIOUS
<1>4. CASE j = n /\ ~ (n <= Len(p) /\ p[n] = Open)
  <2>1. j = i + 2 /\ i + 1 < j /\ (j <= Len(p) => p[j] \in Others \cup {"%"})
    BY <1>1, <1>2, <1>3, <1>4
  <2>. QED BY <1>2, <2>1 DEF IsWord
<1>5. CASE n <= Len(p) /\ p[n] = Open /\ close <= Len(p) /\ j = close + 1
  <2>1. /\ close \in n + 1 .. Len(p) + 1
        /\ \A k \in n + 1 .. close - 1 : p[k] # Close
        /\ p[close] = Close
    BY <1>5 DEF NameEnds, Closes, First
  <2>2. p[j - 1] = Close /\ \A k \in i + 3 .. j - 2 : p[k] # Close
    BY <1>2, <1>3, <1>5, <2>1
  <2>3. i + 3 < j /\ i + 1 < j /\ p[i + 2] = Open
    BY <1>2, <1>3, <1>5, <2>1
  <2>. QED BY <1>2, <2>2, <2>3 DEF IsWord
<1>. QED BY <1>4, <1>5 DEF ItemWord

(* The parser reads a word of the grammar to its end. *)
LEMMA WordIsItem ==
  ASSUME NEW p \in Seq(Chars), NEW i \in 1 .. Len(p), p[i] = "%",
         ~ (i < Len(p) /\ p[i + 1] = "%"), NEW j \in i + 1 .. Len(p) + 1, IsWord(p, i, j),
         NEW n \in Nat, NEW close \in Nat, NameEnds(p, i, n),
         n <= Len(p) => Closes(p, n, close)
  PROVE  ItemWord(p, i, j, n, close)
<1>1. i \in Int /\ j \in Int /\ Len(p) \in Nat /\ i >= 1 /\ i <= Len(p) /\ j <= Len(p) + 1
  OBVIOUS
<1>2. ~ (j = i + 1 /\ (p[i] = "%" => j <= Len(p) /\ p[j] = "%"))
  BY <1>1
<1>3. /\ i + 1 < j /\ p[i + 1] \in FormatItems
      /\ \/ j = i + 2 /\ (j <= Len(p) => p[j] \in Others \cup {"%"})
         \/ /\ i + 3 < j /\ p[i + 2] = Open /\ p[j - 1] = Close
            /\ \A k \in i + 3 .. j - 2 : p[k] # Close
  BY <1>2 DEF IsWord
<1>4. p[i + 1] \notin Others \cup {"%", Open}
  BY <1>3, CharFacts
<1>5. i + 2 <= Len(p) => p[i + 2] \in Others \cup {"%", Open}
  BY <1>1, <1>3
<1>6. n = i + 2
  <2>1. n \in i + 1 .. Len(p) + 1 /\ \A k \in i + 1 .. n - 1 : p[k] \notin Others \cup {"%", Open}
    BY DEF NameEnds, Closes, First
  <2>2. n # i + 1
    <3>1. ASSUME n = i + 1 PROVE FALSE
      <4>1. n <= Len(p)
        BY <1>1, <1>3, <3>1
      <4>2. p[n] \in Others \cup {"%", Open}
        BY <4>1 DEF NameEnds, Closes, First
      <4>. QED BY <1>4, <3>1, <4>2
    <3>. QED BY <3>1
  <2>3. ASSUME n > i + 2 PROVE FALSE
    <3>1. i + 2 \in i + 1 .. n - 1 /\ i + 2 <= Len(p)
      BY <1>1, <2>1, <2>3
    <3>. QED BY <1>5, <2>1, <3>1
  <2>. QED BY <1>1, <2>1, <2>2, <2>3
<1>7. CASE j = i + 2 /\ (j <= Len(p) => p[j] \in Others \cup {"%"})
  <2>1. ~ (n <= Len(p) /\ p[n] = Open)
    BY <1>6, <1>7, CharFacts
  <2>. QED BY <1>3, <1>6, <1>7, <2>1 DEF ItemWord
<1>8. CASE /\ i + 3 < j /\ p[i + 2] = Open /\ p[j - 1] = Close
           /\ \A k \in i + 3 .. j - 2 : p[k] # Close
  <2>1. p[j - 1] = Close /\ \A k \in i + 3 .. j - 2 : p[k] # Close
    BY <1>8
  <2>2. n <= Len(p)
    BY <1>1, <1>6, <1>8
  <2>3. /\ close \in n + 1 .. Len(p) + 1
        /\ \A k \in n + 1 .. close - 1 : p[k] # Close
        /\ close <= Len(p) => p[close] = Close
    BY <2>2 DEF NameEnds, Closes, First
  <2>4. ~ (close < j - 1)
    BY <1>1, <1>6, <2>1, <2>3
  <2>5. ~ (close > j - 1)
    BY <1>1, <1>6, <1>8, <2>1, <2>3
  <2>6. close = j - 1
    BY <1>1, <2>3, <2>4, <2>5
  <2>7. n <= Len(p) /\ p[n] = Open /\ close <= Len(p) /\ j = close + 1
    BY <1>1, <1>6, <1>8, <2>2, <2>6
  <2>. QED BY <1>3, <1>6, <2>7 DEF ItemWord
<1>. QED BY <1>3, <1>7, <1>8

-----------------------------------------------------------------------------
(* One turn: it moves on, to the end of the word that begins there if      *)
(* there is one, and the pattern is refused from then on if there is none. *)
TurnFacts(p, st, st2) ==
  /\ st2 \in ParserStates
  /\ st2.i \in st.i + 1 .. Len(p) + 1
  /\ Bad(st2) <=> Bad(st) \/ ~IsWord(p, st.i, st2.i)
  /\ \A j \in st.i + 1 .. Len(p) + 1 : IsWord(p, st.i, j) => j = st2.i

(* A turn at text *)
LEMMA TextTurn ==
  ASSUME NEW p \in Seq(Chars), NEW st \in ParserStates, st.i \in 1 .. Len(p),
         p[st.i] # "%" \/ (st.i < Len(p) /\ p[st.i + 1] = "%")
  PROVE  TurnFacts(p, st, Step(p, st))
<1>1. PICK st2 : st2 = Step(p, st)
  OBVIOUS
<1>2. st2 \in ParserStates /\ st2.i = st.i + 1 /\ st2.vec = st.vec /\ st2.m_error = st.m_error
  BY <1>1, TextStep
<1>3. Bad(st2) <=> Bad(st)
  BY <1>2 DEF Bad
<1>4. \A j \in st.i + 1 .. Len(p) + 1 : IsWord(p, st.i, j) <=> j = st.i + 1
  BY WordOfText
<1>5. st2.i \in st.i + 1 .. Len(p) + 1
  BY <1>2
<1>6. IsWord(p, st.i, st2.i)
  BY <1>2, <1>4, <1>5
<1>. QED BY <1>1, <1>2, <1>3, <1>4, <1>5, <1>6 DEF TurnFacts

(* What a turn at an item finds *)
LEMMA ItemTurnIs ==
  ASSUME NEW p \in Seq(Chars), NEW st \in ParserStates, st.i \in 1 .. Len(p),
         p[st.i] = "%", ~ (st.i < Len(p) /\ p[st.i + 1] = "%")
  PROVE  \E n \in Nat, close \in Nat :
           /\ NameEnds(p, st.i, n) /\ (n <= Len(p) => Closes(p, n, close))
           /\ ~ (n <= Len(p) /\ p[n] = Open) => Step(p, st) = Pushed(p, st, n, << >>, n)
           /\ n <= Len(p) /\ p[n] = Open /\ close <= Len(p)
                => Step(p, st) = Pushed(p, st, n, SubSeq(p, n + 1, close - 1), close + 1)
           /\ n <= Len(p) /\ p[n] = Open /\ ~ (close <= Len(p)) => Step(p, st) = Unclosed(st)
<1>1. Step(p, st) = Item(p, st)
  BY DEF Step
<1>2. PICK n : n = NameEnd(p, st.i)
  OBVIOUS
<1>3. NameEnds(p, st.i, n)
  <2>1. st.i \in Nat /\ st.i <= Len(p)
    OBVIOUS
  <2>. QED BY <1>2, <2>1, FindFacts DEF NameEnds, NameEnd
<1>4. n \in Nat
  BY <1>3 DEF NameEnds, First
<1>5. CASE n <= Len(p)
  <2>1. PICK close : close = Closing(p, n)
    OBVIOUS
  <2>2. Closes(p, n, close)
    BY <1>4, <1>5, <2>1, FindFacts DEF Closes, Closing
  <2>3. close \in Nat
    BY <1>4, <2>2 DEF Closes, First
  <2>4. /\ ~ (n <= Len(p) /\ p[n] = Open) => Item(p, st) = Pushed(p, st, n, << >>, n)
        /\ n <= Len(p) /\ p[n] = Open /\ close <= Len(p)
             => Item(p, st) = Pushed(p, st, n, SubSeq(p, n + 1, close - 1), close + 1)
        /\ n <= Len(p) /\ p[n] = Open /\ ~ (close <= Len(p)) => Item(p, st) = Unclosed(st)
    BY <1>2, <2>1, ItemIs
  <2>. QED BY <1>1, <1>3, <1>4, <2>2, <2>3, <2>4
<1>6. CASE ~ (n <= Len(p))
  <2>1. Item(p, st) = Pushed(p, st, n, << >>, n)
    BY <1>2, <1>6, ItemIs
  <2>2. 0 \in Nat
    OBVIOUS
  <2>. QED BY <1>1, <1>3, <1>4, <1>6, <2>1, <2>2
<1>. QED BY <1>5, <1>6

(* A turn at an item *)
LEMMA ItemTurn ==
  ASSUME NEW p \in Seq(Chars), NEW st \in ParserStates, st.i \in 1 .. Len(p),
         p[st.i] = "%", ~ (st.i < Len(p) /\ p[st.i + 1] = "%")
  PROVE  TurnFacts(p, st, Step(p, st))
<1>. DEFINE i == st.i
<1>1. PICK n \in Nat, close \in Nat :
        /\ NameEnds(p, i, n) /\ (n <= Len(p) => Closes(p, n, close))
        /\ ~ (n <= Len(p) /\ p[n] = Open) => Step(p, st) = Pushed(p, st, n, << >>, n)
        /\ n <= Len(p) /\ p[n] = Open /\ close <= Len(p)
             => Step(p, st) = Pushed(p, st, n, SubSeq(p, n + 1, close - 1), close + 1)
        /\ n <= Len(p) /\ p[n] = Open /\ ~ (close <= Len(p)) => Step(p, st) = Unclosed(st)
  BY ItemTurnIs
<1>2. n \in i + 1 .. Len(p) + 1
  BY <1>1 DEF NameEnds, First
<1>3. i \in 1 .. Len(p) /\ p[i] = "%" /\ ~ (i < Len(p) /\ p[i + 1] = "%")
  OBVIOUS
<1>. HIDE DEF i
<1>4. \A j \in i + 1 .. Len(p) + 1 : IsWord(p, i, j) <=> ItemWord(p, i, j, n, close)
  BY <1>1, <1>3, ItemIsWord, WordIsItem
<1>5. CASE ~ (n <= Len(p) /\ p[n] = Open)
  <2>1. PICK st2 : st2 = Step(p, st)
    OBVIOUS
  <2>2. << >> \in Seq(Symbols)
    BY EmptySeq
  <2>3. st2 = Pushed(p, st, n, << >>, n)
    BY <1>1, <1>5, <2>1
  <2>4. st2 \in ParserStates /\ (Bad(st2) <=> Bad(st) \/ ~ (n = i + 2 /\ p[i + 1] \in FormatItems))
    BY <1>2, <2>2, <2>3, PushedFacts DEF i
  <2>5. st2.i = n
    BY <2>3 DEF Pushed
  <2>6. \A j : ItemWord(p, i, j, n, close) <=> n = i + 2 /\ p[i + 1] \in FormatItems /\ j = n
    BY <1>5 DEF ItemWord
  <2>. QED BY <1>2, <1>4, <2>1, <2>4, <2>5, <2>6 DEF TurnFacts, i
<1>6. CASE n <= Len(p) /\ p[n] = Open /\ close <= Len(p)
  <2>1. PICK st2 : st2 = Step(p, st)
    OBVIOUS
  <2>2. PICK fmt : fmt = SubSeq(p, n + 1, close - 1)
    OBVIOUS
  <2>3. close \in n + 1 .. Len(p)
    BY <1>1, <1>6 DEF Closes, First
  <2>4. fmt \in Seq(Symbols)
    <3>1. \A k \in n + 1 .. close - 1 : k \in 1 .. Len(p)
      BY <1>2, <2>3
    <3>2. \A k \in n + 1 .. close - 1 : p[k] \in Symbols
      BY <3>1, CharAt
    <3>. QED BY <2>2, <2>3, <3>2, SubSeqProperties
  <2>5. st2 = Pushed(p, st, n, fmt, close + 1)
    BY <1>1, <1>6, <2>1, <2>2
  <2>6. st2 \in ParserStates /\ (Bad(st2) <=> Bad(st) \/ ~ (n = i + 2 /\ p[i + 1] \in FormatItems))
    BY <1>2, <2>4, <2>5, PushedFacts DEF i
  <2>7. st2.i = close + 1
    BY <2>5 DEF Pushed
  <2>8. st2.i \in i + 1 .. Len(p) + 1
    BY <1>2, <1>3, <2>3, <2>7
  <2>9. \A j : ItemWord(p, i, j, n, close)
                <=> n = i + 2 /\ p[i + 1] \in FormatItems /\ j = close + 1
    BY <1>6 DEF ItemWord
  <2>. QED BY <1>4, <2>1, <2>6, <2>7, <2>8, <2>9 DEF TurnFacts, i
<1>7. CASE n <= Len(p) /\ p[n] = Open /\ ~ (close <= Len(p))
  <2>1. PICK st2 : st2 = Step(p, st)
    OBVIOUS
  <2>2. st2 = Unclosed(st)
    BY <1>1, <1>7, <2>1
  <2>3. st2 \in ParserStates /\ Bad(st2)
    BY <2>2, ErrorFacts
  <2>4. st2.i = i + 1
    BY <2>2 DEF Unclosed, i
  <2>5. st2.i \in i + 1 .. Len(p) + 1
    BY <1>3, <2>4
  <2>6. \A j : ~ItemWord(p, i, j, n, close)
    BY <1>7 DEF ItemWord
  <2>. QED BY <1>4, <2>1, <2>3, <2>5, <2>6 DEF TurnFacts, i
<1>. QED BY <1>5, <1>6, <1>7

(* Every turn *)
LEMMA StepFacts ==
  ASSUME NEW p \in Seq(Chars), NEW st \in ParserStates, st.i \in 1 .. Len(p)
  PROVE  TurnFacts(p, st, Step(p, st))
BY TextTurn, ItemTurn

-----------------------------------------------------------------------------
(* There is a run of any number of turns, *)
LEMMA TurnsExist ==
  ASSUME NEW p, NEW n \in Nat
  PROVE  \E run : Turns(p, run, n)
<1>. DEFINE S == {k \in Nat : \E run : Turns(p, run, k)}
<1>1. 0 \in S
  <2>1. Turns(p, [k \in 0 .. 0 |-> Start], 0)
    BY DEF Turns
  <2>. QED BY <2>1
<1>2. ASSUME NEW k \in 0 .. n - 1, k \in S PROVE k + 1 \in S
  <2>1. PICK run : Turns(p, run, k)
    BY <1>2
  <2>. DEFINE next == [j \in 0 .. k + 1 |-> IF j <= k THEN run[j] ELSE Turn(p, run[k])]
  <2>2. Turns(p, next, k + 1)
    <3>1. ASSUME NEW j \in 0 .. k + 1
          PROVE  next[j] = IF j = 0 THEN Start ELSE Turn(p, next[j - 1])
      BY <2>1 DEF Turns
    <3>. QED BY <3>1 DEF Turns
  <2>. QED BY <2>2
<1>. HIDE DEF S
<1>3. 0 .. n \subseteq S
  BY <1>1, <1>2, UpTo
<1>. QED BY <1>3 DEF S

(* and init() returns what the run of Len(p) turns ends with. *)
LEMMA InitIs ==
  ASSUME NEW p \in Seq(Chars)
  PROVE  \E run : /\ Turns(p, run, Len(p))
                  /\ init(p).vec = Flush(run[Len(p)].nstr, run[Len(p)].vec)
                  /\ init(p).m_error <=> run[Len(p)].m_error \/ HasUnknown(init(p).vec)
<1>. DEFINE turn[k \in 0 .. Len(p)] ==
              IF k = 0 THEN [i |-> 1, nstr |-> << >>, vec |-> << >>, m_error |-> FALSE]
              ELSE IF turn[k - 1].i > Len(p) THEN turn[k - 1] ELSE Step(p, turn[k - 1])
<1>1. \E f : f = [k \in 0 .. Len(p) |->
               IF k = 0 THEN [i |-> 1, nstr |-> << >>, vec |-> << >>, m_error |-> FALSE]
               ELSE IF f[k - 1].i > Len(p) THEN f[k - 1] ELSE Step(p, f[k - 1])]
  BY TurnsExist DEF Turns, Turn, Start
<1>2. Turns(p, turn, Len(p))
  <2>1. turn = [k \in 0 .. Len(p) |->
                 IF k = 0 THEN [i |-> 1, nstr |-> << >>, vec |-> << >>, m_error |-> FALSE]
                 ELSE IF turn[k - 1].i > Len(p) THEN turn[k - 1] ELSE Step(p, turn[k - 1])]
    BY <1>1
  <2>. QED BY <2>1 DEF Turns, Turn, Start
<1>3. init(p) = LET end == turn[Len(p)]
                    vec == Flush(end.nstr, end.vec)
                IN  [vec |-> vec,
                     m_error |-> end.m_error \/ \E item \in ToSet(vec) : UnknownItem(item)]
  BY DEF init
<1>. HIDE DEF turn
<1>4. init(p).vec = Flush(turn[Len(p)].nstr, turn[Len(p)].vec)
  BY <1>3
<1>5. init(p).m_error <=> turn[Len(p)].m_error \/ HasUnknown(init(p).vec)
  <2>1. init(p).m_error
          = (turn[Len(p)].m_error \/ \E item \in ToSet(init(p).vec) : UnknownItem(item))
    BY <1>3, <1>4
  <2>. QED BY <2>1, Zenon DEF HasUnknown
<1>. QED BY <1>2, <1>4, <1>5

(* What is known of every state of a run *)
RunFacts(p, run, k) ==
  /\ run[k] \in ParserStates /\ run[k].i \in 1 .. Len(p) + 1
  /\ run[k].i > k \/ run[k].i = Len(p) + 1

(* The turns of a run *)
LEMMA RunTurn ==
  ASSUME NEW p, NEW n \in Nat, NEW run, Turns(p, run, n), NEW k \in 0 .. n - 1
  PROVE  run[0] = Start /\ run[k + 1] = Turn(p, run[k])
<1>1. 0 \in 0 .. n /\ k + 1 \in 0 .. n /\ k + 1 # 0 /\ (k + 1) - 1 = k
  OBVIOUS
<1>2. run[k + 1] = IF k + 1 = 0 THEN Start ELSE Turn(p, run[(k + 1) - 1])
  BY <1>1 DEF Turns
<1>. QED BY <1>1, <1>2 DEF Turns

(* The first state of a run *)
LEMMA StartFacts ==
  ASSUME NEW p \in Seq(Chars)
  PROVE  Start \in ParserStates /\ Start.i = 1 /\ ~Bad(Start)
<1>1. << >> \in Seq(Symbols) /\ << >> \in Seq(Items)
  BY EmptySeq
<1>2. ToSet(<< >>) = {}
  BY DEF ToSet
<1>. QED BY <1>1, <1>2 DEF Start, ParserStates, Bad, HasUnknown

(* Each turn advances, so Len(p) turns reach the end. *)
LEMMA RunTypes ==
  ASSUME NEW p \in Seq(Chars), NEW run, Turns(p, run, Len(p))
  PROVE  \A k \in 0 .. Len(p) : RunFacts(p, run, k)
<1>. DEFINE S == {k \in 0 .. Len(p) : RunFacts(p, run, k)}
<1>0. Len(p) \in Nat
  OBVIOUS
<1>1. 0 \in S
  <2>1. run[0] = Start
    BY <1>0 DEF Turns
  <2>. QED BY <1>0, <2>1, StartFacts DEF RunFacts
<1>2. ASSUME NEW k \in 0 .. Len(p) - 1, k \in S PROVE k + 1 \in S
  <2>1. RunFacts(p, run, k)
    BY <1>2
  <2>2. run[k + 1] = Turn(p, run[k])
    BY <1>0, RunTurn
  <2>3. CASE run[k].i > Len(p)
    <3>1. run[k + 1] = run[k]
      BY <2>2, <2>3 DEF Turn
    <3>. QED BY <1>0, <2>1, <2>3, <3>1 DEF RunFacts
  <2>4. CASE ~ (run[k].i > Len(p))
    <3>1. run[k].i \in 1 .. Len(p) /\ run[k] \in ParserStates
      BY <1>0, <2>1, <2>4 DEF RunFacts
    <3>2. run[k + 1] = Step(p, run[k])
      BY <2>2, <2>4 DEF Turn
    <3>3. run[k + 1] \in ParserStates /\ run[k + 1].i \in run[k].i + 1 .. Len(p) + 1
      BY <3>1, <3>2, StepFacts DEF TurnFacts
    <3>. QED BY <1>0, <2>1, <3>1, <3>3 DEF RunFacts
  <2>. QED BY <2>3, <2>4
<1>. HIDE DEF S
<1>3. 0 .. Len(p) \subseteq S
  BY <1>0, <1>1, <1>2, UpTo
<1>. QED BY <1>3 DEF S

(* A run never goes back, and what was bad stays bad. *)
LEMMA RunMonotonic ==
  ASSUME NEW p \in Seq(Chars), NEW run, Turns(p, run, Len(p)), NEW k \in 0 .. Len(p)
  PROVE  \A l \in k .. Len(p) : run[k].i <= run[l].i /\ (Bad(run[k]) => Bad(run[l]))
<1>. DEFINE S == {l \in 0 .. Len(p) :
                   l >= k => run[k].i <= run[l].i /\ (Bad(run[k]) => Bad(run[l]))}
<1>0. Len(p) \in Nat /\ \A l \in 0 .. Len(p) : run[l] \in ParserStates /\ run[l].i \in Nat
  BY RunTypes DEF RunFacts
<1>1. 0 \in S
  BY <1>0
<1>2. ASSUME NEW l \in 0 .. Len(p) - 1, l \in S PROVE l + 1 \in S
  <2>1. run[l + 1] = Turn(p, run[l]) /\ l \in 0 .. Len(p) /\ l + 1 \in 0 .. Len(p)
    BY <1>0, RunTurn
  <2>2. run[l].i <= run[l + 1].i /\ (Bad(run[l]) => Bad(run[l + 1]))
    <3>1. CASE run[l].i > Len(p)
      BY <1>0, <2>1, <3>1 DEF Turn
    <3>2. CASE ~ (run[l].i > Len(p))
      <4>1. run[l].i \in 1 .. Len(p) /\ run[l] \in ParserStates
        BY <1>0, <2>1, <3>2, RunTypes DEF RunFacts
      <4>2. run[l + 1] = Step(p, run[l])
        BY <2>1, <3>2 DEF Turn
      <4>3. run[l + 1].i \in run[l].i + 1 .. Len(p) + 1 /\ (Bad(run[l]) => Bad(run[l + 1]))
        BY <4>1, <4>2, StepFacts DEF TurnFacts
      <4>. QED BY <4>1, <4>3
    <3>. QED BY <3>1, <3>2
  <2>3. CASE l >= k
    <3>1. run[k].i <= run[l].i /\ (Bad(run[k]) => Bad(run[l]))
      BY <1>2, <2>3
    <3>. QED BY <1>0, <2>1, <2>2, <3>1
  <2>4. CASE ~ (l >= k)
    <3>1. l + 1 >= k => k = l + 1
      BY <2>4
    <3>. QED BY <1>0, <2>1, <3>1
  <2>. QED BY <2>3, <2>4
<1>. HIDE DEF S
<1>3. 0 .. Len(p) \subseteq S
  BY <1>0, <1>1, <1>2, UpTo
<1>. QED BY <1>0, <1>3 DEF S

-----------------------------------------------------------------------------
(* A pattern that is accepted is cut into words where the turns begin. *)
LEMMA AcceptedIsWellFormed ==
  ASSUME NEW p \in Seq(Chars), NEW run, Turns(p, run, Len(p)), ~Bad(run[Len(p)])
  PROVE  WellFormed(p)
<1>. DEFINE cut == {i \in 1 .. Len(p) : \E k \in 0 .. Len(p) : run[k].i = i}
<1>0. Len(p) \in Nat /\ \A k \in 0 .. Len(p) : RunFacts(p, run, k)
  BY RunTypes
<1>1. cut \in SUBSET (1 .. Len(p))
  OBVIOUS
<1>2. ASSUME p # << >> PROVE 1 \in cut
  <2>1. Len(p) > 0
    BY <1>2, EmptySeq
  <2>2. run[0].i = 1
    BY <1>0, StartFacts DEF Turns
  <2>. QED BY <1>0, <2>1, <2>2
<1>3. ASSUME NEW i \in cut
      PROVE  \E j \in cut \cup {Len(p) + 1} :
               i < j /\ (\A l \in i + 1 .. j - 1 : l \notin cut) /\ IsWord(p, i, j)
  <2>1. PICK k \in 0 .. Len(p) : run[k].i = i
    BY <1>3
  <2>2. i \in 1 .. Len(p)
    BY <1>3
  <2>3. run[Len(p)].i = Len(p) + 1
    <3>1. Len(p) \in 0 .. Len(p)
      BY <1>0
    <3>2. RunFacts(p, run, Len(p))
      BY <1>0, <3>1
    <3>. HIDE DEF cut
    <3>3. /\ run[Len(p)].i \in 1 .. Len(p) + 1
          /\ run[Len(p)].i > Len(p) \/ run[Len(p)].i = Len(p) + 1
      BY <3>2, Zenon DEF RunFacts
    <3>. QED BY <1>0, <3>3
  <2>4. k \in 0 .. Len(p) - 1 /\ k + 1 \in 0 .. Len(p)
    BY <1>0, <2>1, <2>2, <2>3
  <2>5. run[k] \in ParserStates /\ run[k + 1] = Step(p, run[k])
    BY <1>0, <2>1, <2>2, <2>4, RunTurn DEF RunFacts, Turn
  <2>6. TurnFacts(p, run[k], run[k + 1])
    BY <2>1, <2>2, <2>5, StepFacts
  <2>7. PICK j : j = run[k + 1].i
    OBVIOUS
  <2>8. j \in i + 1 .. Len(p) + 1
    BY <2>1, <2>6, <2>7 DEF TurnFacts
  <2>9. j \in cut \cup {Len(p) + 1}
    BY <1>0, <2>2, <2>4, <2>7, <2>8
  <2>10. IsWord(p, i, j)
    <3>1. ~Bad(run[k + 1])
      BY <1>0, <2>4, RunMonotonic
    <3>. QED BY <2>1, <2>6, <2>7, <3>1 DEF TurnFacts
  <2>11. ASSUME NEW l \in i + 1 .. j - 1, l \in cut PROVE FALSE
    <3>1. PICK m \in 0 .. Len(p) : run[m].i = l
      BY <2>11
    <3>2. CASE m <= k
      <4>1. run[m].i <= run[k].i
        BY <1>0, <2>4, <3>2, RunMonotonic
      <4>. QED BY <2>1, <2>2, <2>8, <3>1, <4>1
    <3>3. CASE ~ (m <= k)
      <4>1. m \in k + 1 .. Len(p)
        BY <1>0, <2>4, <3>3
      <4>2. run[k + 1].i <= run[m].i
        BY <2>4, <4>1, RunMonotonic
      <4>. QED BY <2>2, <2>7, <2>8, <3>1, <4>2
    <3>. QED BY <3>2, <3>3
  <2>12. i < j
    BY <2>2, <2>8
  <2>. HIDE DEF cut
  <2>13. \A l \in i + 1 .. j - 1 : l \notin cut
    BY <2>11
  <2>. QED BY <2>9, <2>10, <2>12, <2>13
<1>. HIDE DEF cut
<1>. QED BY <1>1, <1>2, <1>3 DEF WellFormed, Row

(* A pattern that is cut into words is read word by word. *)
LEMMA WellFormedIsAccepted ==
  ASSUME NEW p \in Seq(Chars), NEW run, Turns(p, run, Len(p)), WellFormed(p)
  PROVE  ~Bad(run[Len(p)])
<1>0. Len(p) \in Nat /\ \A k \in 0 .. Len(p) : RunFacts(p, run, k)
  BY RunTypes
<1>1. PICK cut \in SUBSET (1 .. Len(p)) :
        /\ p # << >> => 1 \in cut
        /\ \A i \in cut : \E j \in cut \cup {Len(p) + 1} :
             i < j /\ (\A k \in i + 1 .. j - 1 : k \notin cut) /\ IsWord(p, i, j)
  BY DEF WellFormed, Row
<1>. DEFINE S == {k \in 0 .. Len(p) : run[k].i \in cut \cup {Len(p) + 1} /\ ~Bad(run[k])}
<1>2. 0 \in S
  <2>1. run[0].i = 1 /\ ~Bad(run[0])
    BY <1>0, StartFacts DEF Turns
  <2>2. p = << >> => Len(p) + 1 = 1
    OBVIOUS
  <2>. QED BY <1>0, <1>1, <2>1, <2>2
<1>3. ASSUME NEW k \in 0 .. Len(p) - 1, k \in S PROVE k + 1 \in S
  <2>1. run[k + 1] = Turn(p, run[k]) /\ k \in 0 .. Len(p) /\ k + 1 \in 0 .. Len(p)
    BY <1>0, RunTurn
  <2>2. CASE run[k].i = Len(p) + 1
    <3>1. run[k + 1] = run[k]
      BY <1>0, <2>1, <2>2 DEF Turn
    <3>. QED BY <1>3, <2>1, <3>1
  <2>3. CASE run[k].i # Len(p) + 1
    <3>1. PICK i \in cut : i = run[k].i
      BY <1>3, <2>3
    <3>2. PICK j \in cut \cup {Len(p) + 1} : i < j /\ IsWord(p, i, j)
      BY <1>1
    <3>3. i \in 1 .. Len(p) /\ j \in i + 1 .. Len(p) + 1
      BY <1>0, <1>1, <3>1, <3>2
    <3>4. run[k + 1] = Step(p, run[k]) /\ run[k] \in ParserStates
      BY <1>0, <2>1, <3>1, <3>3 DEF Turn, RunFacts
    <3>5. TurnFacts(p, run[k], run[k + 1])
      BY <3>1, <3>3, <3>4, StepFacts
    <3>6. j = run[k + 1].i
      BY <3>1, <3>2, <3>3, <3>5 DEF TurnFacts
    <3>7. ~Bad(run[k + 1])
      BY <1>3, <3>1, <3>2, <3>5, <3>6 DEF TurnFacts
    <3>. QED BY <2>1, <3>2, <3>6, <3>7
  <2>. QED BY <2>2, <2>3
<1>. HIDE DEF S
<1>4. 0 .. Len(p) \subseteq S
  BY <1>0, <1>2, <1>3, UpTo
<1>5. Len(p) \in 0 .. Len(p)
  BY <1>0
<1>. QED BY <1>4, <1>5 DEF S

(* The comment over init() and its code differ about "%%" only. *)
LEMMA DocumentedIsWellFormed ==
  ASSUME NEW p, ~HasDoublePercent(p)
  PROVE  Documented(p) <=> WellFormed(p)
<1>1. \A i \in 1 .. Len(p) : \A j : IsForm(p, i, j) <=> IsWord(p, i, j)
  BY DEF HasDoublePercent, IsForm
<1>2. \A cut \in SUBSET (1 .. Len(p)) :
        (\A i \in cut : \E j \in cut \cup {Len(p) + 1} :
           i < j /\ (\A k \in i + 1 .. j - 1 : k \notin cut) /\ IsForm(p, i, j))
        <=> (\A i \in cut : \E j \in cut \cup {Len(p) + 1} :
               i < j /\ (\A k \in i + 1 .. j - 1 : k \notin cut) /\ IsWord(p, i, j))
  BY <1>1, Zenon
<1>. QED BY <1>2, Zenon DEF Documented, WellFormed, Row

(* init() refuses exactly the patterns that are not rows of text and known *)
(* items, however long they are.                                           *)
THEOREM ParserRefuses == \A p \in Seq(Chars) : isError(p) <=> ~WellFormed(p)
<1>1. SUFFICES ASSUME NEW p \in Seq(Chars) PROVE isError(p) <=> ~WellFormed(p)
  OBVIOUS
<1>2. PICK run : /\ Turns(p, run, Len(p))
                 /\ init(p).vec = Flush(run[Len(p)].nstr, run[Len(p)].vec)
                 /\ init(p).m_error <=> run[Len(p)].m_error \/ HasUnknown(init(p).vec)
  BY InitIs
<1>3. run[Len(p)].nstr \in Seq(Symbols) /\ run[Len(p)].vec \in Seq(Items)
  <2>1. Len(p) \in 0 .. Len(p)
    OBVIOUS
  <2>. QED BY <1>2, <2>1, RunTypes DEF RunFacts, ParserStates
<1>4. HasUnknown(init(p).vec) <=> HasUnknown(run[Len(p)].vec)
  BY <1>2, <1>3, FlushFacts
<1>5. isError(p) <=> Bad(run[Len(p)])
  BY <1>2, <1>4 DEF isError, Bad
<1>. QED BY <1>2, <1>5, AcceptedIsWellFormed, WellFormedIsAccepted

-----------------------------------------------------------------------------
(* flat has what FlattenSeq() makes of the first 1, 2, .. n of seqs. *)
Flattens(seqs, flat, n) ==
  flat = [k \in 1 .. n |-> IF k = 1 THEN seqs[k] ELSE flat[k - 1] \o seqs[k]]

(* Any number of sequences can be joined, *)
LEMMA FlattensExist ==
  ASSUME NEW seqs, NEW n \in Nat
  PROVE  \E flat : Flattens(seqs, flat, n)
<1>. DEFINE S == {k \in Nat : \E flat : Flattens(seqs, flat, k)}
<1>1. 0 \in S
  <2>1. Flattens(seqs, [k \in 1 .. 0 |-> << >>], 0)
    BY DEF Flattens
  <2>. QED BY <2>1
<1>2. ASSUME NEW k \in 0 .. n - 1, k \in S PROVE k + 1 \in S
  <2>1. PICK flat : Flattens(seqs, flat, k)
    BY <1>2
  <2>. DEFINE next == [j \in 1 .. k + 1 |-> IF j <= k THEN flat[j]
                                            ELSE IF j = 1 THEN seqs[j] ELSE flat[k] \o seqs[j]]
  <2>2. Flattens(seqs, next, k + 1)
    <3>1. ASSUME NEW j \in 1 .. k + 1
          PROVE  next[j] = IF j = 1 THEN seqs[j] ELSE next[j - 1] \o seqs[j]
      <4>1. CASE j <= k
        <5>1. j \in 1 .. k /\ next[j] = flat[j]
          BY <4>1
        <5>2. flat[j] = IF j = 1 THEN seqs[j] ELSE flat[j - 1] \o seqs[j]
          BY <2>1, <5>1 DEF Flattens
        <5>3. j # 1 => next[j - 1] = flat[j - 1]
          BY <5>1
        <5>. HIDE DEF next
        <5>. QED BY <5>1, <5>2, <5>3
      <4>2. CASE ~ (j <= k)
        <5>1. j = k + 1 /\ (j # 1 => j - 1 \in 1 .. k + 1 /\ j - 1 <= k /\ j - 1 = k)
          BY <4>2
        <5>. QED BY <4>2, <5>1
      <4>. QED BY <4>1, <4>2
    <3>. QED BY <3>1 DEF Flattens
  <2>. QED BY <2>2
<1>. HIDE DEF S
<1>3. 0 .. n \subseteq S
  BY <1>1, <1>2, UpTo
<1>. QED BY <1>3 DEF S

(* and FlattenSeq() returns the last of these. *)
LEMMA FlattenSeqIs ==
  ASSUME NEW C, NEW seqs \in Seq(Seq(C)), Len(seqs) # 0
  PROVE  \E flat : Flattens(seqs, flat, Len(seqs)) /\ FlattenSeq(seqs) = flat[Len(seqs)]
<1>. DEFINE flatten[i \in 1 .. Len(seqs)] ==
              IF i = 1 THEN seqs[i] ELSE flatten[i - 1] \o seqs[i]
<1>1. \E f : f = [i \in 1 .. Len(seqs) |-> IF i = 1 THEN seqs[i] ELSE f[i - 1] \o seqs[i]]
  <2>1. Len(seqs) \in Nat
    OBVIOUS
  <2>. QED BY <2>1, FlattensExist DEF Flattens
<1>2. flatten = [i \in 1 .. Len(seqs) |-> IF i = 1 THEN seqs[i] ELSE flatten[i - 1] \o seqs[i]]
  BY <1>1
<1>3. FlattenSeq(seqs) = flatten[Len(seqs)]
  BY DEF FlattenSeq
<1>. QED BY <1>2, <1>3 DEF Flattens

(* What is joined of the first k sequences, for two rows that begin alike  *)
LEMMA FlattensAgree ==
  ASSUME NEW C, NEW seqs \in Seq(Seq(C)), NEW n \in Nat, n <= Len(seqs), NEW other,
         \A k \in 1 .. n : other[k] = seqs[k], NEW m \in Nat, n <= m,
         NEW flat, Flattens(seqs, flat, n), NEW flat2, Flattens(other, flat2, m)
  PROVE  \A k \in 1 .. n : flat2[k] = flat[k] /\ flat[k] \in Seq(C)
<1>. DEFINE S == {k \in 0 .. n : k = 0 \/ (flat2[k] = flat[k] /\ flat[k] \in Seq(C))}
<1>1. 0 \in S
  OBVIOUS
<1>2. ASSUME NEW k \in 0 .. n - 1, k \in S PROVE k + 1 \in S
  <2>1. k + 1 \in 1 .. n /\ k + 1 \in 1 .. m /\ k + 1 \in 1 .. Len(seqs) /\ (k + 1) - 1 = k
    OBVIOUS
  <2>2. flat[k + 1] = IF k + 1 = 1 THEN seqs[k + 1] ELSE flat[(k + 1) - 1] \o seqs[k + 1]
    BY <2>1 DEF Flattens
  <2>3. flat2[k + 1] = IF k + 1 = 1 THEN other[k + 1] ELSE flat2[(k + 1) - 1] \o other[k + 1]
    BY <2>1 DEF Flattens
  <2>4. seqs[k + 1] \in Seq(C) /\ other[k + 1] = seqs[k + 1]
    BY <2>1, ElementOfSeq
  <2>5. CASE k = 0
    <3>1. flat[k + 1] = seqs[k + 1] /\ flat2[k + 1] = seqs[k + 1]
      BY <2>2, <2>3, <2>4, <2>5
    <3>. QED BY <2>1, <2>4, <3>1
  <2>6. CASE k # 0
    <3>1. flat2[k] = flat[k] /\ flat[k] \in Seq(C)
      BY <1>2, <2>6
    <3>2. flat[k + 1] = flat[k] \o seqs[k + 1]
      <4>1. k + 1 # 1
        BY <2>6
      <4>. QED BY <2>1, <2>2, <4>1
    <3>3. flat2[k + 1] = flat[k] \o seqs[k + 1]
      <4>1. k + 1 # 1
        BY <2>6
      <4>2. flat2[k + 1] = flat2[k] \o other[k + 1]
        BY <2>1, <2>3, <4>1
      <4>. QED BY <2>4, <3>1, <4>2
    <3>4. flat[k] \o seqs[k + 1] \in Seq(C)
      BY <2>4, <3>1, ConcatProperties
    <3>5. flat2[k + 1] = flat[k + 1] /\ flat[k + 1] \in Seq(C)
      BY <3>2, <3>3, <3>4
    <3>6. k + 1 \in 0 .. n
      BY <2>1
    <3>. QED BY <3>5, <3>6
  <2>. QED BY <2>5, <2>6
<1>. HIDE DEF S
<1>3. 0 .. n \subseteq S
  BY <1>1, <1>2, UpTo
<1>. QED BY <1>3 DEF S

(* One more sequence is joined at the end. *)
LEMMA FlattenAppend ==
  ASSUME NEW C, NEW seqs \in Seq(Seq(C)), NEW x \in Seq(C)
  PROVE  FlattenSeq(seqs) \in Seq(C) /\ FlattenSeq(Append(seqs, x)) = FlattenSeq(seqs) \o x
<1>1. PICK more : more = Append(seqs, x)
  OBVIOUS
<1>2. /\ more \in Seq(Seq(C)) /\ Len(more) = Len(seqs) + 1 /\ more[Len(seqs) + 1] = x
      /\ \A i \in 1 .. Len(seqs) : more[i] = seqs[i]
  BY <1>1, AppendProperties
<1>3. Len(seqs) \in Nat /\ Len(more) # 0
  BY <1>2
<1>4. PICK flat2 : Flattens(more, flat2, Len(more)) /\ FlattenSeq(more) = flat2[Len(more)]
  BY <1>2, <1>3, FlattenSeqIs
<1>5. flat2[Len(more)] = IF Len(more) = 1 THEN more[Len(more)]
                         ELSE flat2[Len(more) - 1] \o more[Len(more)]
  <2>1. Len(more) \in 1 .. Len(more)
    BY <1>2, <1>3
  <2>. QED BY <1>4, <2>1 DEF Flattens
<1>6. CASE Len(seqs) = 0
  <2>1. seqs = << >>
    BY <1>6, EmptySeq
  <2>2. FlattenSeq(seqs) = << >>
    BY <1>6, <2>1 DEF FlattenSeq
  <2>3. FlattenSeq(more) = x
    BY <1>2, <1>4, <1>5, <1>6
  <2>4. << >> \in Seq(C) /\ << >> \o x = x
    BY EmptySeq, ConcatEmptySeq
  <2>. QED BY <1>1, <2>2, <2>3, <2>4
<1>7. CASE Len(seqs) # 0
  <2>1. PICK flat : Flattens(seqs, flat, Len(seqs)) /\ FlattenSeq(seqs) = flat[Len(seqs)]
    BY <1>7, FlattenSeqIs
  <2>2. Len(seqs) <= Len(seqs) /\ Len(seqs) <= Len(more) /\ Len(more) \in Nat
    BY <1>2, <1>3
  <2>3. \A k \in 1 .. Len(seqs) : flat2[k] = flat[k] /\ flat[k] \in Seq(C)
    <3>1. PICK n \in Nat, m \in Nat : n = Len(seqs) /\ m = Len(more)
      BY <1>3, <2>2
    <3>2. n <= Len(seqs) /\ n <= m /\ Flattens(seqs, flat, n) /\ Flattens(more, flat2, m)
      BY <1>4, <2>1, <2>2, <3>1
    <3>3. \A k \in 1 .. n : more[k] = seqs[k]
      BY <1>2, <3>1
    <3>4. \A k \in 1 .. n : flat2[k] = flat[k] /\ flat[k] \in Seq(C)
      BY <3>2, <3>3, FlattensAgree
    <3>. QED BY <3>1, <3>4
  <2>4. Len(seqs) \in 1 .. Len(seqs) /\ Len(more) - 1 = Len(seqs) /\ Len(more) # 1
    BY <1>2, <1>3, <1>7
  <2>5. FlattenSeq(seqs) \in Seq(C)
    BY <2>1, <2>3, <2>4
  <2>6. FlattenSeq(more) = flat[Len(seqs)] \o x
    BY <1>2, <1>4, <1>5, <2>3, <2>4
  <2>. QED BY <1>1, <2>1, <2>5, <2>6
<1>. QED BY <1>6, <1>7

-----------------------------------------------------------------------------
(* What a row of items stands for *)
Flat(vec) == FlattenSeq([k \in DOMAIN vec |-> Written(vec[k])])

(* The pattern has no "{}", which init() reads as no format at all. *)
NoEmptyFormat(p) == \A i \in 1 .. Len(p) - 1 : <<p[i], p[i + 1]>> # <<Open, Close>>

(* The items and the text that is not in one yet are what was read so far. *)
Consumed(p, st) == Flat(st.vec) \o st.nstr = SubSeq(p, 1, st.i - 1)

(* What an item stands for is text. *)
LEMMA WrittenType ==
  ASSUME NEW item \in Items
  PROVE  Written(item) \in Seq(Symbols)
<1>1. << >> \in Seq(Symbols) /\ <<"%">> \in Seq(Symbols) /\ <<Open>> \in Seq(Symbols)
        /\ <<Close>> \in Seq(Symbols)
  <2>1. "%" \in Symbols /\ Open \in Symbols /\ Close \in Symbols
    BY CharFacts
  <2>. QED BY <2>1, EmptySeq
<1>2. item.str \in Seq(Symbols) /\ item.fmt \in Seq(Symbols)
  BY DEF Items
<1>3. PICK fmt : fmt = IF item.fmt = << >> THEN << >> ELSE <<Open>> \o item.fmt \o <<Close>>
  OBVIOUS
<1>4. fmt \in Seq(Symbols)
  BY <1>1, <1>2, <1>3, ConcatProperties
<1>5. <<"%">> \o item.str \o fmt \in Seq(Symbols)
  BY <1>1, <1>2, <1>4, ConcatProperties
<1>. QED BY <1>2, <1>3, <1>5 DEF Written

(* One more item *)
LEMMA FlatAppend ==
  ASSUME NEW vec \in Seq(Items), NEW item \in Items
  PROVE  Flat(vec) \in Seq(Symbols) /\ Flat(Append(vec, item)) = Flat(vec) \o Written(item)
<1>1. PICK seqs : seqs = [k \in DOMAIN vec |-> Written(vec[k])]
  OBVIOUS
<1>2. DOMAIN vec = 1 .. Len(vec) /\ Len(vec) \in Nat /\ \A k \in 1 .. Len(vec) : vec[k] \in Items
  BY LenProperties, ElementOfSeq
<1>3. \A k \in 1 .. Len(vec) : Written(vec[k]) \in Seq(Symbols)
  BY <1>2, WrittenType
<1>4. seqs \in Seq(Seq(Symbols)) /\ Len(seqs) = Len(vec)
  BY <1>1, <1>2, <1>3
<1>5. PICK x : x = Written(item)
  OBVIOUS
<1>6. x \in Seq(Symbols)
  BY <1>5, WrittenType
<1>7. PICK more : more = Append(vec, item)
  OBVIOUS
<1>8. /\ more \in Seq(Items) /\ Len(more) = Len(vec) + 1 /\ DOMAIN more = 1 .. Len(vec) + 1
      /\ \A k \in 1 .. Len(vec) : more[k] = vec[k]
      /\ more[Len(vec) + 1] = item
  BY <1>7, AppendProperties, LenProperties
<1>9. [k \in DOMAIN more |-> Written(more[k])] = Append(seqs, x)
  <2>1. PICK all : all = Append(seqs, x)
    OBVIOUS
  <2>2. /\ all \in Seq(Seq(Symbols)) /\ Len(all) = Len(vec) + 1
        /\ \A k \in 1 .. Len(vec) : all[k] = seqs[k]
        /\ all[Len(vec) + 1] = x
    BY <1>4, <1>6, <2>1, AppendProperties
  <2>3. all \in [1 .. Len(vec) + 1 -> Seq(Symbols)]
    BY <2>2, LenProperties
  <2>4. ASSUME NEW k \in 1 .. Len(vec) + 1 PROVE all[k] = Written(more[k])
    <3>1. CASE k \in 1 .. Len(vec)
      <4>1. all[k] = seqs[k] /\ seqs[k] = Written(vec[k]) /\ more[k] = vec[k]
        BY <1>1, <1>2, <1>8, <2>2, <3>1
      <4>. QED BY <4>1
    <3>2. CASE k = Len(vec) + 1
      BY <1>5, <1>8, <2>2, <3>2
    <3>. QED BY <1>2, <3>1, <3>2
  <2>5. all = [k \in 1 .. Len(vec) + 1 |-> Written(more[k])]
    BY <2>3, <2>4
  <2>. QED BY <1>8, <2>1, <2>5
<1>10. FlattenSeq(seqs) \in Seq(Symbols) /\ FlattenSeq(Append(seqs, x)) = FlattenSeq(seqs) \o x
  BY <1>4, <1>6, FlattenAppend
<1>. QED BY <1>1, <1>5, <1>7, <1>9, <1>10 DEF Flat

(* The text that Flush() makes an item of *)
LEMMA FlatFlush ==
  ASSUME NEW nstr \in Seq(Symbols), NEW vec \in Seq(Items)
  PROVE  Flat(vec) \in Seq(Symbols) /\ Flat(Flush(nstr, vec)) = Flat(vec) \o nstr
<1>1. Text(nstr) \in Items /\ Written(Text(nstr)) = nstr
  BY TextFacts DEF Text, Written
<1>2. Flat(vec) \in Seq(Symbols) /\ Flat(Append(vec, Text(nstr))) = Flat(vec) \o nstr
  BY <1>1, FlatAppend
<1>3. CASE nstr = << >>
  BY <1>2, <1>3, ConcatEmptySeq DEF Flush
<1>4. CASE nstr # << >>
  BY <1>2, <1>4 DEF Flush
<1>. QED BY <1>3, <1>4

-----------------------------------------------------------------------------
(* What an item without a format stands for is what was read. *)
LEMMA WrittenName ==
  ASSUME NEW p \in Seq(Symbols), NEW i \in 1 .. Len(p), p[i] = "%",
         NEW n \in i + 1 .. Len(p) + 1, NEW item,
         item = [str |-> SubSeq(p, i + 1, n - 1), fmt |-> << >>, type |-> 1]
  PROVE  Written(item) = SubSeq(p, i, n - 1)
<1>1. PICK str : str = SubSeq(p, i + 1, n - 1)
  OBVIOUS
<1>2. n - 1 \in i .. Len(p)
  OBVIOUS
<1>3. SubSeq(p, i, n - 1) = <<"%">> \o str
  BY <1>1, <1>2, SubSeqRecursiveFirst
<1>4. Written(item) = <<"%">> \o str \o << >>
  BY <1>1 DEF Written
<1>5. SubSeq(p, i, n - 1) \in Seq(Symbols)
  OBVIOUS
<1>. QED BY <1>3, <1>4, <1>5, ConcatEmptySeq

(* So is one with a format that is not empty. *)
LEMMA WrittenFormat ==
  ASSUME NEW p \in Seq(Symbols), NEW i \in 1 .. Len(p), p[i] = "%",
         NEW n \in i + 1 .. Len(p), p[n] = Open,
         NEW close \in n + 2 .. Len(p), p[close] = Close, NEW item,
         item = [str |-> SubSeq(p, i + 1, n - 1), fmt |-> SubSeq(p, n + 1, close - 1), type |-> 1]
  PROVE  Written(item) = SubSeq(p, i, close)
<1>1. PICK str, fmt : str = SubSeq(p, i + 1, n - 1) /\ fmt = SubSeq(p, n + 1, close - 1)
  OBVIOUS
<1>2. /\ n - 1 \in i .. Len(p) /\ n \in 1 .. Len(p) /\ close - 1 \in n .. Len(p)
      /\ close \in n .. Len(p) /\ n - 1 \in i - 1 .. Len(p) /\ close \in n - 1 .. Len(p)
      /\ i \in 1 .. Len(p) + 1 /\ (n - 1) + 1 = n
  OBVIOUS
<1>3. SubSeq(p, i, n - 1) = <<"%">> \o str
  BY <1>1, <1>2, SubSeqRecursiveFirst
<1>4. SubSeq(p, n, close - 1) = <<Open>> \o fmt
  BY <1>1, <1>2, SubSeqRecursiveFirst
<1>5. SubSeq(p, n, close) = (<<Open>> \o fmt) \o <<Close>>
  BY <1>2, <1>4, SubSeqRecursiveSecond
<1>6. SubSeq(p, i, close) = SubSeq(p, i, n - 1) \o SubSeq(p, n, close)
  <2>1. SubSeq(p, i, n - 1) \o SubSeq(p, (n - 1) + 1, close) = SubSeq(p, i, close)
    BY <1>2, ConcatAdjacentSubSeq
  <2>. QED BY <1>2, <2>1
<1>7. fmt # << >>
  <2>1. Len(fmt) = (close - 1) - (n + 1) + 1
    <3>1. \A k \in n + 1 .. close - 1 : p[k] \in Symbols
      <4>1. \A k \in n + 1 .. close - 1 : k \in 1 .. Len(p)
        OBVIOUS
      <4>. QED BY <4>1, ElementOfSeq
    <3>. QED BY <1>1, <3>1, SubSeqProperties
  <2>. QED BY <1>2, <2>1
<1>8. Written(item) = <<"%">> \o str \o (<<Open>> \o fmt \o <<Close>>)
  BY <1>1, <1>7 DEF Written
<1>. QED BY <1>3, <1>5, <1>6, <1>8

(* What is appended to the second of two sequences *)
LEMMA ConcatAppend ==
  ASSUME NEW S, NEW s \in Seq(S), NEW t \in Seq(S), NEW c \in S
  PROVE  s \o Append(t, c) = (s \o t) \o <<c>>
<1>1. PICK u : u = <<c>>
  OBVIOUS
<1>2. u \in Seq(S)
  BY <1>1
<1>3. Append(t, c) = t \o u
  BY <1>1, AppendIsConcat
<1>4. (s \o t) \o u = s \o (t \o u)
  BY <1>2, ConcatAssociative
<1>. QED BY <1>1, <1>3, <1>4

(* Text is read as it is. *)
LEMMA TextConsumes ==
  ASSUME NEW p \in Seq(Chars), NEW st \in ParserStates, st.i \in 1 .. Len(p),
         p[st.i] # "%" \/ (st.i < Len(p) /\ p[st.i + 1] = "%"), Consumed(p, st)
  PROVE  Consumed(p, Step(p, st))
<1>1. PICK st2, nstr : st2 = Step(p, st) /\ nstr = Append(st.nstr, p[st.i])
  OBVIOUS
<1>2. st2.vec = st.vec /\ st2.i = st.i + 1 /\ st2.nstr = nstr
  BY <1>1, TextStep
<1>3. p[st.i] \in Symbols /\ st.nstr \in Seq(Symbols) /\ st.vec \in Seq(Items)
  BY CharAt DEF ParserStates
<1>4. PICK old, c : old = st.nstr /\ c = p[st.i]
  OBVIOUS
<1>5. PICK flat : flat = Flat(st.vec)
  OBVIOUS
<1>6. flat \in Seq(Symbols) /\ old \in Seq(Symbols) /\ c \in Symbols
  BY <1>3, <1>4, <1>5, FlatFlush
<1>7. flat \o nstr = (flat \o st.nstr) \o << p[st.i] >>
  <2>1. flat \o Append(old, c) = (flat \o old) \o <<c>>
    BY <1>6, ConcatAppend
  <2>. QED BY <1>1, <1>4, <2>1
<1>8. SubSeq(p, 1, st.i) = SubSeq(p, 1, st.i - 1) \o << p[st.i] >>
  <2>1. 1 \in 1 .. Len(p) /\ st.i \in 1 .. Len(p)
    OBVIOUS
  <2>. QED BY <2>1, SubSeqRecursiveSecond
<1>9. (st.i + 1) - 1 = st.i
  OBVIOUS
<1>10. flat \o st.nstr = SubSeq(p, 1, st.i - 1)
  BY <1>5 DEF Consumed
<1>. QED BY <1>1, <1>2, <1>5, <1>7, <1>8, <1>9, <1>10 DEF Consumed

(* What an item stands for is added behind the text before it. *)
LEMMA PushedConsumes ==
  ASSUME NEW p \in Seq(Chars), NEW st \in ParserStates, st.i \in 1 .. Len(p), Consumed(p, st),
         NEW n, NEW fmt, NEW next \in st.i + 1 .. Len(p) + 1, NEW item \in Items,
         item = [str |-> SubSeq(p, st.i + 1, n - 1), fmt |-> fmt, type |-> 1],
         Written(item) = SubSeq(p, st.i, next - 1)
  PROVE  Consumed(p, Pushed(p, st, n, fmt, next))
<1>1. st.nstr \in Seq(Symbols) /\ st.vec \in Seq(Items)
  BY DEF ParserStates
<1>2. PICK vec : vec = Flush(st.nstr, st.vec)
  OBVIOUS
<1>3. vec \in Seq(Items) /\ Flat(vec) = SubSeq(p, 1, st.i - 1)
  BY <1>1, <1>2, FlushFacts, FlatFlush DEF Consumed
<1>4. Flat(Append(vec, item)) = SubSeq(p, 1, st.i - 1) \o SubSeq(p, st.i, next - 1)
  BY <1>3, FlatAppend
<1>5. SubSeq(p, 1, st.i - 1) \o SubSeq(p, st.i, next - 1) = SubSeq(p, 1, next - 1)
  <2>1. /\ 1 \in 1 .. Len(p) + 1 /\ st.i - 1 \in 1 - 1 .. Len(p) /\ next - 1 \in st.i - 1 .. Len(p)
        /\ (st.i - 1) + 1 = st.i
    OBVIOUS
  <2>2. SubSeq(p, 1, st.i - 1) \o SubSeq(p, (st.i - 1) + 1, next - 1) = SubSeq(p, 1, next - 1)
    BY <2>1, ConcatAdjacentSubSeq
  <2>. QED BY <2>1, <2>2
<1>6. Append(vec, item) \in Seq(Items)
  BY <1>3, AppendProperties
<1>7. Flat(Append(vec, item)) \o << >> = Flat(Append(vec, item))
  BY <1>6, FlatFlush, ConcatEmptySeq
<1>8. PICK st2 : st2 = Pushed(p, st, n, fmt, next)
  OBVIOUS
<1>9. st2.vec = Append(vec, item) /\ st2.nstr = << >> /\ st2.i = next
  BY <1>2, <1>8 DEF Pushed
<1>. QED BY <1>4, <1>5, <1>7, <1>8, <1>9 DEF Consumed

(* An item that init() pushes is an item, and stands for what was read. *)
LEMMA ItemConsumes ==
  ASSUME NEW p \in Seq(Chars), NEW st \in ParserStates, st.i \in 1 .. Len(p),
         p[st.i] = "%", ~ (st.i < Len(p) /\ p[st.i + 1] = "%"), NoEmptyFormat(p),
         Consumed(p, st), ~Bad(Step(p, st))
  PROVE  Consumed(p, Step(p, st))
<1>1. PICK i : i = st.i
  OBVIOUS
<1>2. PICK n \in Nat, close \in Nat :
        /\ NameEnds(p, st.i, n) /\ (n <= Len(p) => Closes(p, n, close))
        /\ ~ (n <= Len(p) /\ p[n] = Open) => Step(p, st) = Pushed(p, st, n, << >>, n)
        /\ n <= Len(p) /\ p[n] = Open /\ close <= Len(p)
             => Step(p, st) = Pushed(p, st, n, SubSeq(p, n + 1, close - 1), close + 1)
        /\ n <= Len(p) /\ p[n] = Open /\ ~ (close <= Len(p)) => Step(p, st) = Unclosed(st)
  BY ItemTurnIs
<1>3. n \in i + 1 .. Len(p) + 1
  BY <1>1, <1>2 DEF NameEnds, First
<1>4. i \in 1 .. Len(p) /\ p[i] = "%"
  BY <1>1
<1>5. p \in Seq(Symbols)
  BY CharFacts, SeqMonotonic
<1>6. PICK str : str = SubSeq(p, i + 1, n - 1)
  OBVIOUS
<1>7. str \in Seq(Symbols)
  BY <1>3, <1>4, <1>6, KnownItem
<1>8. CASE ~ (n <= Len(p) /\ p[n] = Open)
  <2>1. PICK item : item = [str |-> str, fmt |-> << >>, type |-> 1]
    OBVIOUS
  <2>2. item \in Items
    BY <1>7, <2>1, EmptySeq DEF Items
  <2>3. Written(item) = SubSeq(p, i, n - 1)
    BY <1>3, <1>4, <1>5, <1>6, <2>1, WrittenName
  <2>4. Consumed(p, Pushed(p, st, n, << >>, n))
    BY <1>1, <1>3, <1>6, <2>1, <2>2, <2>3, PushedConsumes
  <2>. QED BY <1>2, <1>8, <2>4
<1>9. CASE n <= Len(p) /\ p[n] = Open /\ close <= Len(p)
  <2>1. PICK fmt : fmt = SubSeq(p, n + 1, close - 1)
    OBVIOUS
  <2>2. close \in n + 1 .. Len(p) /\ p[close] = Close
    BY <1>2, <1>9 DEF Closes, First
  <2>3. close # n + 1
    <3>1. ASSUME close = n + 1 PROVE FALSE
      <4>1. n \in 1 .. Len(p) - 1 /\ <<p[n], p[n + 1]>> = <<Open, Close>>
        BY <1>3, <1>4, <1>9, <2>2, <3>1
      <4>. QED BY <4>1 DEF NoEmptyFormat
    <3>. QED BY <3>1
  <2>4. close \in n + 2 .. Len(p) /\ n \in i + 1 .. Len(p)
    BY <1>3, <1>9, <2>2, <2>3
  <2>5. fmt \in Seq(Symbols)
    <3>1. \A k \in n + 1 .. close - 1 : k \in 1 .. Len(p)
      BY <1>3, <1>4, <2>2
    <3>2. \A k \in n + 1 .. close - 1 : p[k] \in Symbols
      BY <3>1, CharAt
    <3>. QED BY <2>1, <2>2, <3>2, SubSeqProperties
  <2>6. PICK item : item = [str |-> str, fmt |-> fmt, type |-> 1]
    OBVIOUS
  <2>7. item \in Items
    BY <1>7, <2>5, <2>6 DEF Items
  <2>8. Written(item) = SubSeq(p, i, close)
    BY <1>4, <1>5, <1>6, <1>9, <2>1, <2>2, <2>4, <2>6, WrittenFormat
  <2>9. PICK next : next = close + 1
    OBVIOUS
  <2>10. next \in i + 1 .. Len(p) + 1 /\ next - 1 = close
    BY <1>3, <1>4, <2>2, <2>9
  <2>11. Consumed(p, Pushed(p, st, n, fmt, next))
    BY <1>1, <1>6, <2>6, <2>7, <2>8, <2>10, PushedConsumes
  <2>. QED BY <1>2, <1>9, <2>1, <2>9, <2>11
<1>10. CASE n <= Len(p) /\ p[n] = Open /\ ~ (close <= Len(p))
  <2>1. Bad(Step(p, st))
    BY <1>2, <1>10, ErrorFacts
  <2>. QED BY <2>1
<1>. QED BY <1>8, <1>9, <1>10

(* So what was read is kept over all the turns of a pattern that is not    *)
(* refused.                                                                *)
LEMMA RunConsumes ==
  ASSUME NEW p \in Seq(Chars), NEW run, Turns(p, run, Len(p)), ~Bad(run[Len(p)]),
         NoEmptyFormat(p)
  PROVE  \A k \in 0 .. Len(p) : Consumed(p, run[k])
<1>. DEFINE S == {k \in 0 .. Len(p) : Consumed(p, run[k])}
<1>0. Len(p) \in Nat
  OBVIOUS
<1>1. \A k \in 0 .. Len(p) : ~Bad(run[k])
  BY <1>0, RunMonotonic
<1>2. 0 \in S
  <2>1. Flat(<< >>) = << >>
    <3>1. [k \in DOMAIN << >> |-> Written(<< >>[k])] = << >>
      OBVIOUS
    <3>. QED BY <3>1 DEF Flat, FlattenSeq
  <2>2. SubSeq(p, 1, 0) = << >>
    BY SubSeqEmpty
  <2>3. run[0] = Start
    BY <1>0 DEF Turns
  <2>4. << >> \o << >> = << >>
    BY EmptySeq, ConcatEmptySeq
  <2>5. Start.vec = << >> /\ Start.nstr = << >> /\ Start.i - 1 = 0
    BY DEF Start
  <2>6. Consumed(p, Start)
    BY <2>1, <2>2, <2>4, <2>5 DEF Consumed
  <2>. QED BY <1>0, <2>3, <2>6
<1>3. ASSUME NEW k \in 0 .. Len(p) - 1, k \in S PROVE k + 1 \in S
  <2>1. Consumed(p, run[k]) /\ k \in 0 .. Len(p) /\ k + 1 \in 0 .. Len(p)
    BY <1>0, <1>3
  <2>2. RunFacts(p, run, k)
    BY <2>1, RunTypes
  <2>3. run[k + 1] = Turn(p, run[k])
    BY <1>0, RunTurn
  <2>4. PICK st : st = run[k]
    OBVIOUS
  <2>5. CASE st.i > Len(p)
    BY <2>1, <2>3, <2>4, <2>5 DEF Turn
  <2>6. CASE ~ (st.i > Len(p))
    <3>1. st.i \in 1 .. Len(p) /\ st \in ParserStates /\ Consumed(p, st)
      BY <1>0, <2>1, <2>2, <2>4, <2>6 DEF RunFacts
    <3>2. run[k + 1] = Step(p, st)
      BY <2>3, <2>4, <2>6 DEF Turn
    <3>3. ~Bad(Step(p, st))
      BY <1>1, <2>1, <3>2
    <3>4. Consumed(p, Step(p, st))
      BY <3>1, <3>3, TextConsumes, ItemConsumes
    <3>. QED BY <2>1, <3>2, <3>4
  <2>. QED BY <2>5, <2>6
<1>. HIDE DEF S
<1>4. 0 .. Len(p) \subseteq S
  BY <1>0, <1>2, <1>3, UpTo
<1>. QED BY <1>4 DEF S

(* What init() makes of a pattern that it accepts is the whole pattern in  *)
(* order, however long it is, where a format "{}" counts as none.          *)
THEOREM ParserWritesBack ==
  \A p \in Seq(Chars) :
    ~isError(p) /\ NoEmptyFormat(p)
      => FlattenSeq([i \in DOMAIN init(p).vec |-> Written(init(p).vec[i])]) = p
<1>1. SUFFICES ASSUME NEW p \in Seq(Chars), ~isError(p), NoEmptyFormat(p)
               PROVE  Flat(init(p).vec) = p
  BY DEF Flat
<1>2. PICK run : /\ Turns(p, run, Len(p))
                 /\ init(p).vec = Flush(run[Len(p)].nstr, run[Len(p)].vec)
                 /\ init(p).m_error <=> run[Len(p)].m_error \/ HasUnknown(init(p).vec)
  BY InitIs
<1>3. PICK st : st = run[Len(p)]
  OBVIOUS
<1>4. Len(p) \in Nat /\ Len(p) \in 0 .. Len(p)
  OBVIOUS
<1>5. RunFacts(p, run, Len(p))
  BY <1>2, <1>4, RunTypes
<1>6. st.nstr \in Seq(Symbols) /\ st.vec \in Seq(Items)
  BY <1>3, <1>5 DEF RunFacts, ParserStates
<1>7. ~Bad(st)
  <2>1. HasUnknown(init(p).vec) <=> HasUnknown(st.vec)
    BY <1>2, <1>3, <1>6, FlushFacts
  <2>. QED BY <1>1, <1>2, <1>3, <2>1 DEF Bad, isError
<1>8. st.i = Len(p) + 1
  <2>1. st.i \in 1 .. Len(p) + 1 /\ (st.i > Len(p) \/ st.i = Len(p) + 1)
    BY <1>3, <1>5 DEF RunFacts
  <2>. QED BY <1>4, <2>1
<1>9. Consumed(p, st)
  BY <1>1, <1>2, <1>3, <1>4, <1>7, RunConsumes
<1>10. Flat(init(p).vec) = Flat(st.vec) \o st.nstr
  BY <1>2, <1>3, <1>6, FlatFlush
<1>11. (Len(p) + 1) - 1 = Len(p)
  BY <1>4
<1>12. SubSeq(p, 1, Len(p)) = p
  BY SubSeqFull
<1>. QED BY <1>8, <1>9, <1>10, <1>11, <1>12 DEF Consumed

(* The patterns that TLC tries are some of these. *)
LEMMA BoundedIsSeq ==
  ASSUME NEW S, NEW n \in Nat, NEW p \in BoundedSeq(S, n)
  PROVE  p \in Seq(S)
<1>1. PICK m \in 0 .. n : p \in [1 .. m -> S]
  BY DEF BoundedSeq, SeqOf
<1>. QED BY <1>1

=============================================================================
