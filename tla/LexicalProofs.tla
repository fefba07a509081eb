---------------------------- MODULE LexicalProofs ----------------------------
(***************************************************************************)
(* What the proofs about Scanner and CodeSpans keep needing: induction     *)
(* over numbers without an operator as parameter, the existence of the     *)
(* functions that the modules define by recursion, the runs of Lexical,    *)
(* and what a unit may contain.                                            *)
(***************************************************************************)
EXTENDS Lexical, Integers, NaturalsInduction, WellFoundedInduction, SequenceTheorems, TLAPS

-----------------------------------------------------------------------------
(* Induction.  The library's theorems take the formula as an operator; a   *)
(* set of numbers serves as well.                                          *)

\* A set of natural numbers that is not empty has a least element.
LEMMA Least ==
  ASSUME NEW T \in SUBSET Nat, T # {}
  PROVE  \E x \in T : \A y \in T : x <= y
<1>1. IsWellFoundedOn(OpToRel(<, Nat), Nat)
  BY NatLessThanWellFounded
<1>2. PICK x \in T : \A y \in T : ~ (<<y, x>> \in OpToRel(<, Nat))
  BY <1>1, WFMin
<1>3. \A y \in T : ~(y < x)
  BY <1>2 DEF OpToRel
<1> QED
  BY <1>3

\* A set of numbers up to n that is not empty has a greatest element.
LEMMA Greatest ==
  ASSUME NEW n \in Nat, NEW T \in SUBSET (0..n), T # {}
  PROVE  \E x \in T : \A y \in T : y <= x
<1> DEFINE D == {d \in 0..n : n - d \in T}
<1>1. D \in SUBSET Nat /\ D # {}
  <2>1. PICK t \in T : TRUE
    OBVIOUS
  <2>2. n - t \in D
    BY <2>1
  <2> QED
    BY <2>2
<1>2. PICK d \in D : \A e \in D : d <= e
  BY <1>1, Least
<1>3. ASSUME NEW y \in T PROVE y <= n - d
  <2>1. n - y \in D
    OBVIOUS
  <2>2. d \in 0..n /\ d <= n - y /\ y \in 0..n
    BY <1>2, <2>1
  <2> QED
    BY <2>2
<1> QED
  BY <1>2, <1>3

\* What holds of 0 and passes on from each number to the next holds of all.
LEMMA Induct ==
  ASSUME NEW S, 0 \in S, \A n \in Nat : n \in S => n + 1 \in S
  PROVE  Nat \subseteq S
<1> SUFFICES ASSUME NEW m \in Nat, m \notin S PROVE FALSE
  OBVIOUS
<1>1. PICK x \in {n \in Nat : n \notin S} : \A y \in {n \in Nat : n \notin S} : x <= y
  BY Least
<1> QED
  BY <1>1

\* A function may be defined by what it does at 0 and, from there, step by
\* step.
Iterates(n, S, a, g) == n \in Nat /\ a \in S /\ g \in [(1..n) \X S -> S]

LEMMA Iteration ==
  ASSUME NEW n, NEW S, NEW a, NEW g, Iterates(n, S, a, g)
  PROVE  \E f \in [0..n -> S] : f[0] = a /\ \A k \in 1..n : f[k] = g[<<k, f[k - 1]>>]
<1> USE DEF Iterates
<1> DEFINE Exists(m) == \E f \in [0..m -> S] : f[0] = a /\ \A k \in 1..m : f[k] = g[<<k, f[k - 1]>>]
           T == {m \in Nat : m <= n => Exists(m)}
<1>1. 0 \in T
  <2> DEFINE f == [k \in 0..0 |-> a]
  <2>1. f \in [0..0 -> S] /\ f[0] = a /\ \A k \in 1..0 : f[k] = g[<<k, f[k - 1]>>]
    OBVIOUS
  <2>2. Exists(0)
    BY <2>1
  <2> QED
    BY <2>2
<1>2. ASSUME NEW m \in Nat, m \in T PROVE m + 1 \in T
  <2> SUFFICES ASSUME m + 1 <= n PROVE Exists(m + 1)
    OBVIOUS
  <2>1. PICK f \in [0..m -> S] : f[0] = a /\ \A k \in 1..m : f[k] = g[<<k, f[k - 1]>>]
    BY <1>2
  <2> DEFINE h == [k \in 0..(m + 1) |-> IF k <= m THEN f[k] ELSE g[<<k, f[m]>>]]
  <2>2. h \in [0..(m + 1) -> S]
    OBVIOUS
  <2>3. h[0] = a
    BY <2>1
  <2>4. ASSUME NEW k \in 1..(m + 1) PROVE h[k] = g[<<k, h[k - 1]>>]
    <3>1. h[k - 1] = f[k - 1]
      OBVIOUS
    <3>2. CASE k <= m
      BY <2>1, <3>1, <3>2
    <3>3. CASE k = m + 1
      BY <3>1, <3>3
    <3> QED
      BY <3>2, <3>3
  <2> QED
    BY <2>2, <2>3, <2>4
<1> HIDE DEF T
<1>3. Nat \subseteq T
  BY <1>1, <1>2, Induct
<1> QED
  BY <1>3 DEF T

\* What holds of the last position, and of every position of that it holds
\* of all later ones, holds of all positions.
LEMMA Downward ==
  ASSUME NEW n \in Nat, NEW T, n + 1 \in T,
         \A j \in 1..n : (\A k \in (j + 1)..(n + 1) : k \in T) => j \in T
  PROVE  1..(n + 1) \subseteq T
<1> DEFINE U == {j \in 1..(n + 1) : j \notin T}
<1> SUFFICES ASSUME U # {} PROVE FALSE
  OBVIOUS
<1>1. n + 1 \in Nat /\ U \in SUBSET (0..(n + 1))
  OBVIOUS
<1> HIDE DEF U
<1>2. PICK x \in U : \A y \in U : y <= x
  BY <1>1, Greatest
<1>3. x \in 1..n
  BY <1>2 DEF U
<1>4. ASSUME NEW k \in (x + 1)..(n + 1) PROVE k \in T
  <2>1. k \notin U
    BY <1>2, <1>3
  <2> QED
    BY <1>3, <2>1 DEF U
<1>5. x \in T
  BY <1>3, <1>4
<1> QED
  BY <1>2, <1>5 DEF U

-----------------------------------------------------------------------------
(* Scalars and operators.                                                  *)

Leads == {"C3", "CC", "D9", "E2", "C2", "F0"}
Tails == {"BC", "87", "A3", "AB", "80", "99", "90", "8D", "A8", "A0", "9F", "98"}

\* What an operator or a line break may hold behind its first byte.
Inner == {"=", "<", ">", "*", "/", "?", "-", ":", "&", "|", "+", ".", "\n"}

\* What an operator begins with.
OperatorStarts == {"=", "!", "<", ">", "*", "/", "?", "+", "-", "%", "&", "|", "^", ":"}

LEMMA BytesApart ==
  /\ Leads \cap Tails = {} /\ Leads \cap Ascii = {} /\ Tails \cap Ascii = {}
  /\ Inner \subseteq Ascii /\ OperatorStarts \subseteq Ascii
  /\ "backtick" \in AsciiPunctuation /\ AsciiPunctuation \subseteq Ascii
  /\ "backtick" \notin Inner /\ "backtick" \notin OperatorStarts
BY DEF Leads, Tails, Inner, OperatorStarts, Ascii, Letters, LowerLetters, UpperLetters, Digits, Blanks, Controls,
       AsciiPunctuation, AsciiSymbols

\* A scalar is a lead byte and its tails.
Encoded(b) ==
  /\ b \in Seq(Leads \cup Tails) /\ Len(b) \in 2..4
  /\ b[1] \in Leads /\ \A k \in 2..Len(b) : b[k] \in Tails

LEMMA EncodedTuples ==
  ASSUME NEW l \in Leads, NEW a \in Tails, NEW b \in Tails, NEW c \in Tails
  PROVE  Encoded(<<l, a>>) /\ Encoded(<<l, a, b>>) /\ Encoded(<<l, a, b, c>>)
<1>1. Encoded(<<l, a>>)
  BY DEF Encoded
<1>2. Encoded(<<l, a, b>>)
  BY DEF Encoded
<1>3. Encoded(<<l, a, b, c>>)
  BY DEF Encoded
<1> QED
  BY <1>1, <1>2, <1>3

LEMMA ScalarShape ==
  ASSUME NEW s \in Scalars
  PROVE  Encoded(s.bytes) /\ s.kind \in Kinds \ {"Opaque"}
<1>a. /\ {"C3", "CC", "D9", "E2", "C2", "F0"} = Leads
      /\ {"BC", "87", "A3", "AB", "80", "99", "90", "8D", "A8", "A0", "9F", "98"} = Tails
  BY DEF Leads, Tails
<1>k. {"Word", "Number", "Symbol", "Punctuation", "LineBreak", "Whitespace", "Control"}
        \subseteq Kinds \ {"Opaque"}
  BY DEF Kinds
<1>1. CASE s = [bytes |-> <<"C3", "BC">>, kind |-> "Word", name |-> "u umlaut"]
  BY <1>1, <1>a, <1>k, EncodedTuples, ZenonT(30)
<1>2. CASE s = [bytes |-> <<"CC", "87">>, kind |-> "Word", name |-> "combining dot"]
  BY <1>2, <1>a, <1>k, EncodedTuples, ZenonT(30)
<1>3. CASE s = [bytes |-> <<"D9", "A3">>, kind |-> "Number", name |-> "arabic three"]
  BY <1>3, <1>a, <1>k, EncodedTuples
<1>4. CASE s = [bytes |-> <<"D9", "AB">>, kind |-> "Symbol", name |-> "decimal separator"]
  BY <1>4, <1>a, <1>k, EncodedTuples
<1>5. CASE s = [bytes |-> <<"E2", "80", "99">>, kind |-> "Punctuation", name |-> "quote"]
  BY <1>5, <1>a, <1>k, EncodedTuples
<1>6. CASE s = [bytes |-> <<"E2", "80", "90">>, kind |-> "Punctuation", name |-> "hyphen"]
  BY <1>6, <1>a, <1>k, EncodedTuples
<1>7. CASE s = [bytes |-> <<"E2", "80", "8D">>, kind |-> "Punctuation", name |-> "joiner"]
  BY <1>7, <1>a, <1>k, EncodedTuples
<1>8. CASE s = [bytes |-> <<"E2", "80", "A8">>, kind |-> "LineBreak", name |-> "line separator"]
  BY <1>8, <1>a, <1>k, EncodedTuples
<1>9. CASE s = [bytes |-> <<"C2", "A0">>, kind |-> "Whitespace", name |-> "no-break space"]
  BY <1>9, <1>a, <1>k, EncodedTuples
<1>10. CASE s = [bytes |-> <<"C2", "80">>, kind |-> "Control", name |-> "control"]
  BY <1>10, <1>a, <1>k, EncodedTuples
<1>11. CASE s = [bytes |-> <<"F0", "9F", "98", "80">>, kind |-> "Symbol", name |-> "smiley"]
  BY <1>11, <1>a, <1>k, EncodedTuples
<1> QED
  BY <1>1, <1>2, <1>3, <1>4, <1>5, <1>6, <1>7, <1>8, <1>9, <1>10, <1>11 DEF Scalars

\* A prefix of the bytes from i on, byte by byte.
LEMMA PrefixAt ==
  ASSUME NEW S, NEW raw \in Seq(S), NEW i \in 1..Len(raw), NEW T, NEW s \in Seq(T)
  PROVE  IsPrefix(s, SubSeq(raw, i, Len(raw)))
           <=> i + Len(s) - 1 <= Len(raw) /\ \A k \in 1..Len(s) : raw[i + k - 1] = s[k]
<1> DEFINE rest == SubSeq(raw, i, Len(raw))
<1>1. /\ rest \in Seq(S) /\ Len(rest) = Len(raw) - i + 1
      /\ \A k \in 1..Len(rest) : rest[k] = raw[i + k - 1]
  BY SubSeqProperties
<1>2. Len(s) \in Nat /\ Len(raw) \in Nat /\ SubSeq(s, 1, Len(s)) = s
  BY SubSeqFull
<1> HIDE DEF rest
<1>3. CASE Len(s) <= Len(rest)
  <2> DEFINE head == SubSeq(rest, 1, Len(s))
  <2>1. \A k \in 1..Len(s) : rest[k] \in S
    BY <1>1, <1>2, <1>3
  <2>2. /\ Len(head) = Len(s) /\ head \in Seq(S)
        /\ \A k \in 1..Len(s) : head[k] = rest[k]
    BY <1>2, <2>1, SubSeqProperties
  <2>3. head \in Seq(S \cup T) /\ s \in Seq(S \cup T)
    BY <2>2, SeqMonotonic
  <2> HIDE DEF head
  <2>4. (\A k \in 1..Len(s) : s[k] = head[k]) => s = head
    BY <2>2, <2>3, SeqEqual
  <2>5. s = head <=> \A k \in 1..Len(s) : s[k] = rest[k]
    BY <2>2, <2>4
  <2>6. \A k \in 1..Len(s) : rest[k] = raw[i + k - 1]
    BY <1>1, <1>2, <1>3
  <2>7. IsPrefix(s, rest) <=> s = head
    BY <1>2, <1>3 DEF IsPrefix, head
  <2> QED
    BY <1>1, <1>2, <1>3, <2>5, <2>6, <2>7 DEF rest
<1>4. CASE ~(Len(s) <= Len(rest))
  BY <1>1, <1>2, <1>4 DEF IsPrefix, rest
<1> QED
  BY <1>3, <1>4

\* The scalar that starts at i, if there is one, is there byte by byte.
IsScalarAt(raw, i, s) ==
  i + Len(s.bytes) - 1 <= Len(raw) /\ \A k \in 1..Len(s.bytes) : raw[i + k - 1] = s.bytes[k]

LEMMA Decoding ==
  ASSUME NEW S, NEW raw \in Seq(S), NEW i \in 1..Len(raw)
  PROVE  \/ /\ DecodeUtf8(raw, i) = NoScalar
            /\ \A s \in Scalars : ~IsScalarAt(raw, i, s)
         \/ /\ DecodeUtf8(raw, i) \in Scalars
            /\ IsScalarAt(raw, i, DecodeUtf8(raw, i))
<1> DEFINE found == {s \in Scalars : IsPrefix(s.bytes, SubSeq(raw, i, Len(raw)))}
<1>1. found = {s \in Scalars : IsScalarAt(raw, i, s)}
  BY ScalarShape, PrefixAt DEF Encoded, IsScalarAt
<1>2. DecodeUtf8(raw, i) = IF found = {} THEN NoScalar ELSE CHOOSE s \in found : TRUE
  BY DEF DecodeUtf8
<1> HIDE DEF found
<1> QED
  BY <1>1, <1>2

LEMMA OperatorShape ==
  ASSUME NEW pair \in LongOperators \cup ShortOperators
  PROVE  Len(pair) = 2 /\ pair[1] \in OperatorStarts /\ pair[2] \in Inner
<1>1. CASE pair \in LongOperators
  BY <1>1 DEF LongOperators, OperatorStarts, Inner
<1>2. CASE \E c \in {"<", ">", "+", "-", "*", "/", "%", "&", "|", "^"} : pair = <<c, "=">>
  BY <1>2 DEF OperatorStarts, Inner
<1>3. CASE pair \in {<<"-", ">">>, <<"=", ">">>, <<":", ":">>, <<"&", "&">>, <<"|", "|">>, <<"+", "+">>,
                     <<"-", "-">>, <<"/", "*">>, <<"*", "/">>, <<"?", ".">>}
  BY <1>3 DEF OperatorStarts, Inner
<1> QED
  BY <1>1, <1>2, <1>3 DEF ShortOperators

\* An operator ends within the document, and begins and goes on as operators do.
LEMMA Operator ==
  ASSUME NEW S, NEW raw \in Seq(S), NEW i \in 1..Len(raw)
  PROVE  /\ OperatorWidth(raw, i) \in {0, 2, 3}
         /\ OperatorWidth(raw, i) > 0 =>
              /\ i + OperatorWidth(raw, i) - 1 <= Len(raw)
              /\ raw[i] \in OperatorStarts
              /\ \A p \in (i + 1)..(i + OperatorWidth(raw, i) - 1) : raw[p] \in Inner
<1> DEFINE pair == IF i < Len(raw) THEN <<raw[i], raw[i + 1]>> ELSE <<raw[i]>>
           w == OperatorWidth(raw, i)
<1>1. w = IF pair \in LongOperators
          THEN IF i + 2 <= Len(raw) /\ raw[i + 2] = "=" THEN 3 ELSE 2
          ELSE IF pair \in ShortOperators THEN 2 ELSE 0
  BY DEF OperatorWidth
<1>2. Len(raw) \in Nat
  OBVIOUS
<1>3. pair \in LongOperators \cup ShortOperators =>
        i < Len(raw) /\ raw[i] \in OperatorStarts /\ raw[i + 1] \in Inner
  <2> SUFFICES ASSUME pair \in LongOperators \cup ShortOperators
               PROVE  i < Len(raw) /\ raw[i] \in OperatorStarts /\ raw[i + 1] \in Inner
    OBVIOUS
  <2>1. Len(pair) = 2 /\ pair[1] \in OperatorStarts /\ pair[2] \in Inner
    BY OperatorShape
  <2>2. CASE i < Len(raw)
    BY <2>1, <2>2
  <2>3. CASE ~(i < Len(raw))
    <3>1. Len(pair) = 1
      BY <2>3
    <3> QED
      BY <2>1, <3>1
  <2> QED
    BY <2>2, <2>3
<1>4. "=" \in Inner
  BY DEF Inner
<1> HIDE DEF pair, w
<1>5. w \in {0, 2, 3}
  BY <1>1
<1>6. ASSUME w > 0, NEW p \in (i + 1)..(i + w - 1) PROVE raw[p] \in Inner
  <2>1. p = i + 1 \/ (p = i + 2 /\ w = 3)
    BY <1>5, <1>6
  <2> QED
    BY <1>1, <1>3, <1>4, <1>6, <2>1
<1>7. w > 0 => i + w - 1 <= Len(raw) /\ raw[i] \in OperatorStarts
  BY <1>1, <1>2, <1>3
<1> QED
  BY <1>5, <1>6, <1>7 DEF w

-----------------------------------------------------------------------------
(* What starts at a byte.                                                  *)

\* It is of one of the kinds, it is not empty, it ends within the document,
\* and behind its first byte are only the tails of a scalar or the rest of an
\* operator or of a line break.
LEMMA Classified ==
  ASSUME NEW S, NEW raw \in Seq(S), NEW i \in 1..Len(raw)
  PROVE  /\ Classify(raw, i).kind \in Kinds
         /\ Classify(raw, i).width \in 1..4
         /\ i + Classify(raw, i).width - 1 <= Len(raw)
         /\ \A p \in (i + 1)..(i + Classify(raw, i).width - 1) : raw[p] \in Inner \cup Tails
<1> DEFINE c == Classify(raw, i)
           scalar == DecodeUtf8(raw, i)
           Fits == /\ c.kind \in Kinds /\ c.width \in 1..4 /\ i + c.width - 1 <= Len(raw)
                   /\ \A p \in (i + 1)..(i + c.width - 1) : raw[p] \in Inner \cup Tails
<1>1. CASE raw[i] \in Ascii /\ OperatorWidth(raw, i) > 0
  <2>1. c = [kind |-> "Symbol", width |-> OperatorWidth(raw, i)]
    BY <1>1 DEF Classify
  <2>2. "Symbol" \in Kinds
    BY DEF Kinds
  <2> QED
    BY <1>1, <2>1, <2>2, Operator
<1>2. CASE raw[i] \in Ascii /\ ~(OperatorWidth(raw, i) > 0)
  <2>1. c = ClassifyAscii(raw, i)
    BY <1>2 DEF Classify
  <2>2. c.kind \in Kinds
    BY <2>1 DEF ClassifyAscii, Kinds
  <2>3. c.width = IF raw[i] = "\r" /\ i < Len(raw) /\ raw[i + 1] = "\n" THEN 2 ELSE 1
    <3>1. "\r" \notin Blanks \cup Controls \cup Letters \cup Digits \cup AsciiPunctuation \cup {"\n"}
      BY DEF Blanks, Controls, Letters, LowerLetters, UpperLetters, Digits, AsciiPunctuation
    <3> QED
      BY <2>1, <3>1 DEF ClassifyAscii
  <2>4. "\n" \in Inner
    BY DEF Inner
  <2> DEFINE width == c.width
  <2>5. width \in {1, 2} /\ (width = 2 => i + 1 <= Len(raw) /\ raw[i + 1] \in Inner)
    BY <2>3, <2>4
  <2> HIDE DEF width
  <2>6. width \in 1..4 /\ i + width - 1 <= Len(raw)
    BY <2>5
  <2>7. ASSUME NEW p \in (i + 1)..(i + width - 1) PROVE raw[p] \in Inner
    <3>1. p = i + 1 /\ width = 2
      BY <2>5
    <3> QED
      BY <2>5, <3>1
  <2> QED
    BY <2>2, <2>6, <2>7 DEF width
<1>3. CASE raw[i] \notin Ascii /\ scalar = NoScalar
  <2>1. c = [kind |-> "Opaque", width |-> 1]
    BY <1>3 DEF Classify
  <2>2. "Opaque" \in Kinds
    BY DEF Kinds
  <2> QED
    BY <2>1, <2>2
<1>4. CASE raw[i] \notin Ascii /\ scalar # NoScalar
  <2>1. c.kind = scalar.kind /\ c.width = Len(scalar.bytes)
    BY <1>4 DEF Classify
  <2>2. scalar \in Scalars /\ IsScalarAt(raw, i, scalar)
    BY <1>4, Decoding
  <2>3. Encoded(scalar.bytes) /\ scalar.kind \in Kinds
    BY <2>2, ScalarShape
  <2> HIDE DEF scalar, c
  <2>4. c.kind \in Kinds /\ c.width \in 1..4 /\ i + c.width - 1 <= Len(raw)
    BY <2>1, <2>2, <2>3 DEF IsScalarAt, Encoded
  <2>5. ASSUME NEW p \in (i + 1)..(i + c.width - 1) PROVE raw[p] \in Tails
    <3> DEFINE k == p - i + 1
    <3>1. k \in 2..Len(scalar.bytes) /\ i + k - 1 = p
      BY <2>1, <2>4
    <3> HIDE DEF k
    <3>2. k \in 1..Len(scalar.bytes) /\ scalar.bytes[k] \in Tails
      BY <2>3, <3>1 DEF Encoded
    <3> QED
      BY <2>2, <3>1, <3>2 DEF IsScalarAt
  <2>6. \A p \in (i + 1)..(i + c.width - 1) : raw[p] \in Inner \cup Tails
    BY <2>5
  <2> QED
    BY <2>4, <2>6 DEF c
<1> QED
  BY <1>1, <1>2, <1>3, <1>4

-----------------------------------------------------------------------------
(* Runs.                                                                   *)

\* The widths of a run keep it within the document.
Fits(raw, width) ==
  /\ width \in [1..Len(raw) -> Nat]
  /\ \A j \in 1..Len(raw) : j + width[j] <= Len(raw) + 1

LEMMA RunsExist ==
  ASSUME NEW n \in Nat, NEW width,
         \A j \in 1..n : width[j] \in Nat /\ j + width[j] <= n + 1
  PROVE  \E f \in [1..(n + 1) -> Nat] :
           /\ f[n + 1] = n + 1
           /\ \A j \in 1..n : f[j] = IF width[j] = 0 THEN j ELSE f[j + width[j]]
<1> DEFINE Exists(m) == \E f \in [(n + 1 - m)..(n + 1) -> Nat] :
             /\ f[n + 1] = n + 1
             /\ \A j \in (n + 1 - m)..n : f[j] = IF width[j] = 0 THEN j ELSE f[j + width[j]]
           T == {m \in Nat : m <= n => Exists(m)}
<1>1. 0 \in T
  <2> DEFINE f == [k \in (n + 1)..(n + 1) |-> n + 1]
  <2>1. f \in [(n + 1)..(n + 1) -> Nat] /\ f[n + 1] = n + 1
    OBVIOUS
  <2>2. n + 1 - 0 = n + 1 /\ \A j \in (n + 1)..n : FALSE
    OBVIOUS
  <2> HIDE DEF f
  <2>3. Exists(0)
    BY <2>1, <2>2
  <2> QED
    BY <2>3
<1>2. ASSUME NEW m \in Nat, m \in T PROVE m + 1 \in T
  <2> SUFFICES ASSUME m + 1 <= n PROVE Exists(m + 1)
    OBVIOUS
  <2> DEFINE l == n + 1 - m
  <2>1. PICK f \in [l..(n + 1) -> Nat] :
          /\ f[n + 1] = n + 1
          /\ \A j \in l..n : f[j] = IF width[j] = 0 THEN j ELSE f[j + width[j]]
    BY <1>2
  <2>2. l \in Int /\ l > 1 /\ l - 1 \in 1..n /\ l - 1 = n + 1 - (m + 1) /\ l <= n + 1
    OBVIOUS
  <2> HIDE DEF l
  <2> DEFINE h == [j \in (l - 1)..(n + 1) |->
                    IF j >= l THEN f[j] ELSE IF width[j] = 0 THEN j ELSE f[j + width[j]]]
  <2>3. \A j \in (l - 1)..n : width[j] \in Nat /\ (width[j] # 0 => j + width[j] \in l..(n + 1))
    BY <2>2
  <2>4. h \in [(l - 1)..(n + 1) -> Nat]
    BY <2>2, <2>3
  <2>5. h[n + 1] = n + 1
    BY <2>1, <2>2
  <2>6. ASSUME NEW j \in (l - 1)..n PROVE h[j] = IF width[j] = 0 THEN j ELSE h[j + width[j]]
    <3>1. width[j] # 0 => h[j + width[j]] = f[j + width[j]]
      BY <2>2, <2>3
    <3>2. h[j] = IF width[j] = 0 THEN j ELSE f[j + width[j]]
      <4>1. CASE j >= l
        <5>1. h[j] = f[j] /\ j \in l..n
          BY <2>2, <4>1
        <5> QED
          BY <2>1, <5>1
      <4>2. CASE ~(j >= l)
        BY <2>2, <4>2
      <4> QED
        BY <4>1, <4>2
    <3> QED
      BY <3>1, <3>2
  <2> HIDE DEF h
  <2>7. \E x \in [(l - 1)..(n + 1) -> Nat] :
          /\ x[n + 1] = n + 1
          /\ \A j \in (l - 1)..n : x[j] = IF width[j] = 0 THEN j ELSE x[j + width[j]]
    BY <2>4, <2>5, <2>6
  <2> QED
    BY <2>2, <2>7
<1> HIDE DEF T
<1>3. Nat \subseteq T
  BY <1>1, <1>2, Induct
<1>4. Exists(n)
  BY <1>3 DEF T
<1>5. n + 1 - n = 1
  OBVIOUS
<1> QED
  BY <1>4, <1>5

\* The ends of runs are defined, and each is that of the run behind the first
\* step.
LEMMA RunSteps ==
  ASSUME NEW S, NEW raw \in Seq(S), NEW width, Fits(raw, width)
  PROVE  /\ RunEnds(raw, width) \in [1..(Len(raw) + 1) -> Nat]
         /\ RunEnds(raw, width)[Len(raw) + 1] = Len(raw) + 1
         /\ \A j \in 1..Len(raw) : RunEnds(raw, width)[j] =
              IF width[j] = 0 THEN j ELSE RunEnds(raw, width)[j + width[j]]
<1> DEFINE Ends(end) == end = [j \in 1..(Len(raw) + 1) |->
              IF j > Len(raw) THEN j ELSE IF width[j] = 0 THEN j ELSE end[j + width[j]]]
<1>1. PICK n \in Nat : n = Len(raw)
  OBVIOUS
<1>2. \A j \in 1..n : width[j] \in Nat /\ j + width[j] <= n + 1
  BY <1>1 DEF Fits
<1>3. PICK f \in [1..(n + 1) -> Nat] :
        /\ f[n + 1] = n + 1
        /\ \A j \in 1..n : f[j] = IF width[j] = 0 THEN j ELSE f[j + width[j]]
  BY <1>2, RunsExist, ZenonT(30)
<1>8. Ends(RunEnds(raw, width))
  <2>1. \A j \in 1..(n + 1) : j > n => j = n + 1
    OBVIOUS
  <2>2. Ends(f)
    BY <1>1, <1>3, <2>1
  <2> QED
    BY <2>2 DEF RunEnds
<1> DEFINE e == RunEnds(raw, width)
<1> HIDE DEF e
<1>9. Ends(e)
  BY <1>8 DEF e
<1>10. /\ e[n + 1] = n + 1
       /\ \A j \in 1..n : e[j] = IF width[j] = 0 THEN j ELSE e[j + width[j]]
  <2>1. n + 1 \in 1..(n + 1) /\ n + 1 > n
    BY <1>1
  <2>2. e[n + 1] = n + 1
    BY <1>1, <1>9, <2>1
  <2>3. ASSUME NEW j \in 1..n PROVE e[j] = IF width[j] = 0 THEN j ELSE e[j + width[j]]
    <3>1. j \in 1..(n + 1) /\ ~(j > n)
      OBVIOUS
    <3> QED
      BY <1>1, <1>9, <3>1
  <2> QED
    BY <2>2, <2>3
<1> DEFINE T == {j \in 1..(n + 1) : e[j] \in Nat}
<1>11. n + 1 \in T
  BY <1>1, <1>10
<1>12. ASSUME NEW j \in 1..n, \A k \in (j + 1)..(n + 1) : k \in T PROVE j \in T
  <2>1. CASE width[j] = 0
    BY <1>1, <1>10, <2>1
  <2>2. CASE width[j] # 0
    <3>1. j + width[j] \in (j + 1)..(n + 1)
      BY <1>2, <2>2
    <3> QED
      BY <1>10, <1>12, <2>2, <3>1
  <2> QED
    BY <2>1, <2>2
<1> HIDE DEF T
<1>13. 1..(n + 1) \subseteq T
  BY <1>1, <1>11, <1>12, Downward
<1>14. e \in [1..(n + 1) -> Nat]
  BY <1>1, <1>9, <1>13 DEF T
<1> QED
  BY <1>1, <1>10, <1>14 DEF e

\* A run ends where it can go no further; it leads from boundaries (B) to
\* boundaries where each of its steps does, and holds what they hold (Good).
LEMMA RunContent ==
  ASSUME NEW S, NEW raw \in Seq(S), NEW width, Fits(raw, width), NEW B, NEW Good,
         \A j \in 1..Len(raw) : j \in B /\ width[j] # 0 =>
           j + width[j] \in B /\ \A p \in j..(j + width[j] - 1) : p \in Good
  PROVE  \A i \in 1..(Len(raw) + 1) :
           /\ Extend(raw, i, width) \in i..(Len(raw) + 1)
           /\ Extend(raw, i, width) <= Len(raw) => width[Extend(raw, i, width)] = 0
           /\ i \in B => /\ Extend(raw, i, width) \in B
                        /\ \A p \in i..(Extend(raw, i, width) - 1) : p \in Good
<1> DEFINE n == Len(raw)
           e == RunEnds(raw, width)
           Fine(i) == /\ e[i] \in i..(n + 1)
                      /\ e[i] <= n => width[e[i]] = 0
                      /\ i \in B => e[i] \in B /\ \A p \in i..(e[i] - 1) : p \in Good
           T == {i \in 1..(n + 1) : Fine(i)}
<1>1. n \in Nat /\ \A j \in 1..n : width[j] \in Nat /\ j + width[j] <= n + 1
  BY DEF Fits
<1>2. /\ e[n + 1] = n + 1
      /\ \A j \in 1..n : e[j] = IF width[j] = 0 THEN j ELSE e[j + width[j]]
  BY RunSteps
<1>3. \A j \in 1..n : j \in B /\ width[j] # 0 =>
        j + width[j] \in B /\ \A p \in j..(j + width[j] - 1) : p \in Good
  OBVIOUS
<1> HIDE DEF n, e
<1>4. n + 1 \in T
  BY <1>1, <1>2
<1>5. ASSUME NEW j \in 1..n, \A k \in (j + 1)..(n + 1) : k \in T PROVE j \in T
  <2>1. CASE width[j] = 0
    <3>1. e[j] = j
      BY <1>2, <2>1
    <3> QED
      BY <1>1, <2>1, <3>1
  <2>2. CASE width[j] # 0
    <3> DEFINE k == j + width[j]
    <3>1. k \in (j + 1)..(n + 1) /\ e[j] = e[k]
      BY <1>1, <1>2, <2>2
    <3>2. j \in B => k \in B /\ \A p \in j..(k - 1) : p \in Good
      <4>1. j \in B => j + width[j] \in B /\ \A p \in j..(j + width[j] - 1) : p \in Good
        BY <1>3, <2>2
      <4> QED
        BY <1>1, <4>1
    <3> HIDE DEF k
    <3>3. Fine(k)
      BY <1>5, <3>1
    <3>4. ASSUME j \in B, NEW p \in j..(e[k] - 1) PROVE p \in Good
      <4>1. CASE p < k
        BY <3>1, <3>2, <3>4, <4>1
      <4>2. CASE ~(p < k)
        BY <3>1, <3>2, <3>3, <3>4, <4>2
      <4> QED
        BY <4>1, <4>2
    <3>5. /\ e[j] \in j..(n + 1)
          /\ e[j] <= n => width[e[j]] = 0
      BY <3>1, <3>3
    <3>6. j \in B => e[j] \in B /\ \A p \in j..(e[j] - 1) : p \in Good
      BY <3>1, <3>2, <3>3, <3>4
    <3> QED
      BY <1>1, <3>5, <3>6
  <2> QED
    BY <2>1, <2>2
<1> HIDE DEF T
<1>6. 1..(n + 1) \subseteq T
  BY <1>1, <1>4, <1>5, Downward
<1> QED
  BY <1>6 DEF T, n, e, Extend

-----------------------------------------------------------------------------
(* Boundaries between scalars, and text.                                   *)

\* The bytes of the scalar that starts at i; none where none does.
ScalarBytes(raw, i) == i..(i + Len(DecodeUtf8(raw, i).bytes) - 1)

\* Where no scalar has begun that has not ended.
Whole(raw) == {p \in 1..(Len(raw) + 1) :
                 \A i \in 1..Len(raw) : ~(i < p /\ p \in ScalarBytes(raw, i))}

IsText(raw, p) == raw[p] \in Ascii \/ \E i \in 1..Len(raw) : p \in ScalarBytes(raw, i)

\* What a unit of a kind may hold.
Content(raw, kind) ==
  {p \in 1..Len(raw) :
     /\ kind = "Opaque" <=> ~IsText(raw, p)
     /\ kind = "Punctuation" => OperatorWidth(raw, p) = 0
     /\ raw[p] = "backtick" => kind = "Punctuation"}

\* A scalar is a lead byte followed by tails.
LEMMA ScalarAt ==
  ASSUME NEW S, NEW raw \in Seq(S), NEW i \in 1..Len(raw)
  PROVE  \/ DecodeUtf8(raw, i) = NoScalar /\ ScalarBytes(raw, i) = {}
         \/ /\ DecodeUtf8(raw, i) \in Scalars
            /\ Len(DecodeUtf8(raw, i).bytes) \in 2..4
            /\ i + Len(DecodeUtf8(raw, i).bytes) - 1 <= Len(raw)
            /\ raw[i] \in Leads
            /\ \A p \in ScalarBytes(raw, i) : p # i => raw[p] \in Tails
<1> DEFINE scalar == DecodeUtf8(raw, i)
           n == Len(raw)
<1>1. CASE scalar = NoScalar
  BY <1>1 DEF NoScalar, ScalarBytes
<1>2. CASE scalar # NoScalar
  <2>1. scalar \in Scalars /\ IsScalarAt(raw, i, scalar)
    BY <1>2, Decoding
  <2>2. Encoded(scalar.bytes)
    BY <2>1, ScalarShape
  <2>3. n \in Nat
    OBVIOUS
  <2>4. ScalarBytes(raw, i) = i..(i + Len(scalar.bytes) - 1)
    BY DEF ScalarBytes
  <2>5. i + Len(scalar.bytes) - 1 <= n /\ \A k \in 1..Len(scalar.bytes) : raw[i + k - 1] = scalar.bytes[k]
    BY <2>1 DEF IsScalarAt
  <2> HIDE DEF scalar, n
  <2>6. raw[i] \in Leads
    <3>1. 1 \in 1..Len(scalar.bytes) /\ scalar.bytes[1] \in Leads
      BY <2>2 DEF Encoded
    <3>2. i + 1 - 1 = i
      OBVIOUS
    <3> QED
      BY <2>5, <3>1, <3>2
  <2>7. ASSUME NEW p \in ScalarBytes(raw, i), p # i PROVE raw[p] \in Tails
    <3> DEFINE k == p - i + 1
    <3>1. k \in 2..Len(scalar.bytes) /\ i + k - 1 = p
      BY <2>2, <2>4, <2>7 DEF Encoded
    <3> HIDE DEF k
    <3>2. k \in 1..Len(scalar.bytes) /\ scalar.bytes[k] \in Tails
      BY <2>2, <3>1 DEF Encoded
    <3> QED
      BY <2>5, <3>1, <3>2
  <2> QED
    BY <2>1, <2>2, <2>5, <2>6, <2>7 DEF scalar, n, Encoded
<1> QED
  BY <1>1, <1>2

\* A boundary leads to the next.
LEMMA Advance ==
  ASSUME NEW S, NEW raw \in Seq(S), NEW j \in Whole(raw), NEW w \in Nat, w > 0,
         j + w <= Len(raw) + 1,
         \A q \in j..(j + w - 1) : j + w \notin ScalarBytes(raw, q)
  PROVE  j + w \in Whole(raw)
<1> DEFINE n == Len(raw)
<1>1. n \in Nat /\ j \in 1..(n + 1)
  BY DEF Whole
<1>2. ASSUME NEW i \in 1..n, i < j + w PROVE j + w \notin ScalarBytes(raw, i)
  <2>1. CASE i < j
    <3>1. j \notin ScalarBytes(raw, i)
      BY <1>2, <2>1 DEF Whole
    <3> QED
      BY <1>1, <2>1, <3>1 DEF ScalarBytes
  <2>2. CASE ~(i < j)
    BY <1>1, <1>2, <2>2
  <2> QED
    BY <2>1, <2>2
<1>3. j + w \in 1..(n + 1)
  BY <1>1
<1> QED
  BY <1>2, <1>3 DEF Whole

\* No operator starts at a byte that is not ASCII, and no scalar at one that is.
LEMMA StartsApart ==
  ASSUME NEW S, NEW raw \in Seq(S), NEW p \in 1..Len(raw)
  PROVE  /\ raw[p] \notin Ascii => OperatorWidth(raw, p) = 0
         /\ raw[p] \notin Leads => ScalarBytes(raw, p) = {}
<1>1. OperatorWidth(raw, p) \in {0, 2, 3} /\ (OperatorWidth(raw, p) > 0 => raw[p] \in OperatorStarts)
  BY Operator
<1> QED
  BY <1>1, ScalarAt, BytesApart

\* How ASCII characters are classed.
LEMMA AsciiClass ==
  ASSUME NEW raw, NEW j
  PROVE  /\ ClassifyAscii(raw, j).kind \in Kinds \ {"Opaque"}
         /\ ClassifyAscii(raw, j).width =
              IF raw[j] = "\r" /\ j < Len(raw) /\ raw[j + 1] = "\n" THEN 2 ELSE 1
         /\ ClassifyAscii(raw, j).kind # "LineBreak" => raw[j] # "\r"
         /\ raw[j] = "backtick" => ClassifyAscii(raw, j).kind = "Punctuation"
<1> DEFINE c == ClassifyAscii(raw, j)
<1>1. c.kind \in Kinds \ {"Opaque"}
  BY DEF ClassifyAscii, Kinds
<1>2. "\r" \notin Blanks \cup Controls \cup Letters \cup Digits \cup AsciiPunctuation \cup {"\n"}
  BY DEF Blanks, Controls, Letters, LowerLetters, UpperLetters, Digits, AsciiPunctuation
<1>3. c.width = IF raw[j] = "\r" /\ j < Len(raw) /\ raw[j + 1] = "\n" THEN 2 ELSE 1
  BY <1>2 DEF ClassifyAscii
<1>4. c.kind # "LineBreak" => raw[j] # "\r"
  BY <1>2 DEF ClassifyAscii
<1>5. /\ "backtick" \notin Blanks \cup Controls \cup Letters \cup Digits \cup {"\r", "\n"}
      /\ "backtick" \in AsciiPunctuation
  BY DEF Blanks, Controls, Letters, LowerLetters, UpperLetters, Digits, AsciiPunctuation
<1>6. raw[j] = "backtick" => c.kind = "Punctuation"
  BY <1>5 DEF ClassifyAscii
<1> QED
  BY <1>1, <1>3, <1>4, <1>6

\* What starts at a boundary ends at one, and holds what its kind may hold.
LEMMA ClassStep ==
  ASSUME NEW S, NEW raw \in Seq(S), NEW j \in 1..Len(raw), j \in Whole(raw)
  PROVE  /\ j + Classify(raw, j).width \in Whole(raw)
         /\ \A p \in j..(j + Classify(raw, j).width - 1) : p \in Content(raw, Classify(raw, j).kind)
<1> DEFINE c == Classify(raw, j)
           scalar == DecodeUtf8(raw, j)
           n == Len(raw)
<1>0. /\ n \in Nat
      /\ c.kind \in Kinds /\ c.width \in 1..4 /\ j + c.width - 1 <= n
      /\ \A p \in (j + 1)..(j + c.width - 1) : raw[p] \in Inner \cup Tails
  BY Classified
<1>1. CASE raw[j] \in Ascii
  <2>1. /\ \A p \in j..(j + c.width - 1) : p \in 1..n /\ raw[p] \in Ascii
        /\ \A p \in j..(j + c.width - 1) : raw[p] = "backtick" => c.kind = "Punctuation"
        /\ c.kind # "Opaque"
        /\ c.kind = "Punctuation" => c.width = 1 /\ OperatorWidth(raw, j) = 0
    <3>1. CASE OperatorWidth(raw, j) > 0
      <4>1. c.kind = "Symbol" /\ c.width = OperatorWidth(raw, j)
        BY <1>1, <3>1 DEF Classify
      <4>2. /\ raw[j] \in OperatorStarts
            /\ \A p \in (j + 1)..(j + OperatorWidth(raw, j) - 1) : raw[p] \in Inner
        BY <3>1, Operator
      <4> HIDE DEF c, n
      <4>3. ASSUME NEW p \in j..(j + c.width - 1)
            PROVE  p \in 1..n /\ raw[p] \in Ascii /\ raw[p] # "backtick"
        <5>1. p = j \/ p \in (j + 1)..(j + c.width - 1)
          BY <1>0
        <5> QED
          BY <1>0, <4>1, <4>2, <5>1, BytesApart
      <4> QED
        BY <4>1, <4>3
    <3>2. CASE ~(OperatorWidth(raw, j) > 0)
      <4>1. c = ClassifyAscii(raw, j)
        BY <1>1, <3>2 DEF Classify
      <4>2. /\ c.kind # "Opaque"
            /\ c.width = IF raw[j] = "\r" /\ j < n /\ raw[j + 1] = "\n" THEN 2 ELSE 1
            /\ c.kind = "Punctuation" => raw[j] # "\r"
            /\ raw[j] = "backtick" => c.kind = "Punctuation"
        BY <4>1, AsciiClass
      <4>3. OperatorWidth(raw, j) = 0
        BY <3>2, Operator
      <4>4. "\n" \in Ascii /\ "\n" # "backtick"
        BY DEF Ascii
      <4> HIDE DEF c, n
      <4>5. ASSUME NEW p \in j..(j + c.width - 1)
            PROVE  /\ p \in 1..n /\ raw[p] \in Ascii
                   /\ raw[p] = "backtick" => c.kind = "Punctuation"
        <5>1. p = j \/ (p = j + 1 /\ c.width = 2)
          BY <1>0, <4>2
        <5> QED
          BY <1>0, <1>1, <4>2, <4>4, <5>1
      <4> QED
        BY <4>2, <4>3, <4>5
    <3> QED
      BY <3>1, <3>2
  <2> HIDE DEF c, n
  <2>2. ASSUME NEW q \in j..(j + c.width - 1) PROVE j + c.width \notin ScalarBytes(raw, q)
    <3>1. q \in 1..n /\ raw[q] \notin Leads
      BY <2>1, BytesApart
    <3> QED
      BY <3>1, StartsApart DEF n
  <2>3. j + c.width \in Whole(raw)
    BY <1>0, <2>2, Advance, SMTT(30) DEF n
  <2>4. ASSUME NEW p \in j..(j + c.width - 1) PROVE p \in Content(raw, c.kind)
    <3>1. p \in 1..Len(raw) /\ IsText(raw, p)
      BY <2>1 DEF IsText, n
    <3>2. c.kind = "Punctuation" => OperatorWidth(raw, p) = 0
      <4>1. c.kind = "Punctuation" => p = j
        BY <2>1
      <4> QED
        BY <2>1, <4>1
    <3> QED
      BY <2>1, <3>1, <3>2 DEF Content
  <2> QED
    BY <2>3, <2>4 DEF c
<1>2. CASE raw[j] \notin Ascii /\ scalar = NoScalar
  <2>1. c.kind = "Opaque" /\ c.width = 1
    BY <1>2 DEF Classify
  <2>2. ScalarBytes(raw, j) = {}
    BY <1>2 DEF NoScalar, ScalarBytes
  <2>3. ASSUME NEW i \in 1..n, j \in ScalarBytes(raw, i) PROVE FALSE
    <3>1. i <= j
      BY <2>3 DEF ScalarBytes
    <3>2. ~(i < j)
      BY <2>3 DEF Whole
    <3> QED
      BY <2>2, <2>3, <3>1, <3>2
  <2>4. ~IsText(raw, j)
    BY <1>2, <2>3 DEF IsText
  <2>5. raw[j] # "backtick"
    BY <1>2, BytesApart
  <2>6. j \in Content(raw, "Opaque")
    BY <2>4, <2>5 DEF Content
  <2>7. \A q \in j..(j + 1 - 1) : j + 1 \notin ScalarBytes(raw, q)
    BY <2>2
  <2>8. j + 1 \in Whole(raw)
    BY <1>0, <2>7, Advance
  <2> QED
    BY <2>1, <2>6, <2>8
<1>3. CASE raw[j] \notin Ascii /\ scalar # NoScalar
  <2>1. c.kind = scalar.kind /\ c.width = Len(scalar.bytes)
    BY <1>3 DEF Classify
  <2>2. /\ scalar \in Scalars /\ scalar.kind # "Opaque"
        /\ \A p \in ScalarBytes(raw, j) : p # j => raw[p] \in Tails
    BY <1>3, ScalarAt, ScalarShape
  <2>3. ScalarBytes(raw, j) = j..(j + c.width - 1)
    BY <2>1 DEF ScalarBytes
  <2> HIDE DEF c, n, scalar
  <2>4. ASSUME NEW q \in j..(j + c.width - 1) PROVE j + c.width \notin ScalarBytes(raw, q)
    <3>1. CASE q = j
      BY <1>0, <2>3, <3>1
    <3>2. CASE q # j
      <4>1. q \in 1..n /\ raw[q] \notin Leads
        BY <1>0, <2>2, <2>3, <3>2, BytesApart
      <4> QED
        BY <4>1, StartsApart DEF n
    <3> QED
      BY <3>1, <3>2
  <2>5. j + c.width \in Whole(raw)
    BY <1>0, <2>4, Advance, SMTT(30) DEF n
  <2>6. ASSUME NEW p \in j..(j + c.width - 1) PROVE p \in Content(raw, c.kind)
    <3>1. p \in 1..n /\ IsText(raw, p)
      BY <1>0, <2>3 DEF IsText, n
    <3>2. raw[p] \notin Ascii
      BY <1>3, <2>2, <2>3, BytesApart
    <3>3. OperatorWidth(raw, p) = 0 /\ raw[p] # "backtick"
      BY <3>1, <3>2, StartsApart, BytesApart DEF n
    <3> QED
      BY <2>1, <2>2, <3>1, <3>3 DEF Content, n
  <2> QED
    BY <2>5, <2>6 DEF c
<1> QED
  BY <1>1, <1>2, <1>3

\* A named character ends at a boundary too, and is text.
LEMMA NameStep ==
  ASSUME NEW S, NEW raw \in Seq(S), NEW j \in 1..Len(raw), NameAt(raw, j) # "none"
  PROVE  /\ WidthAt(raw, j) \in 1..4 /\ j + WidthAt(raw, j) - 1 <= Len(raw)
         /\ j \in Whole(raw) =>
              /\ j + WidthAt(raw, j) \in Whole(raw)
              /\ \A p \in j..(j + WidthAt(raw, j) - 1) :
                   /\ p \in 1..Len(raw) /\ IsText(raw, p)
                   /\ raw[p] = "backtick" => NameAt(raw, j) = "backtick"
<1> DEFINE scalar == DecodeUtf8(raw, j)
           w == WidthAt(raw, j)
           n == Len(raw)
<1>0. n \in Nat
  OBVIOUS
<1>1. CASE raw[j] \in Ascii
  <2>1. w = 1 /\ NameAt(raw, j) = raw[j]
    BY <1>1 DEF WidthAt, NameAt
  <2>2. ScalarBytes(raw, j) = {}
    BY <1>1, StartsApart, BytesApart
  <2>3. \A q \in j..(j + 1 - 1) : j + 1 \notin ScalarBytes(raw, q)
    BY <2>2
  <2>4. j \in Whole(raw) => j + 1 \in Whole(raw)
    BY <1>0, <2>3, Advance
  <2>5. IsText(raw, j)
    BY <1>1 DEF IsText
  <2> QED
    BY <1>0, <2>1, <2>4, <2>5
<1>2. CASE raw[j] \notin Ascii
  <2>1. w = Len(scalar.bytes) /\ NameAt(raw, j) = scalar.name
    BY <1>2 DEF WidthAt, NameAt
  <2>2. scalar # NoScalar
    BY <2>1 DEF NoScalar
  <2>3. /\ w \in 2..4 /\ j + w - 1 <= n
        /\ \A p \in ScalarBytes(raw, j) : p # j => raw[p] \in Tails
    BY <2>1, <2>2, ScalarAt
  <2>4. ScalarBytes(raw, j) = j..(j + w - 1)
    BY <2>1 DEF ScalarBytes
  <2>5. Classify(raw, j).width = w
    BY <1>2, <2>1, <2>2 DEF Classify
  <2>6. j \in Whole(raw) => j + w \in Whole(raw)
    BY <2>5, ClassStep
  <2> HIDE DEF w
  <2>7. ASSUME NEW p \in j..(j + w - 1)
        PROVE  p \in 1..n /\ IsText(raw, p) /\ raw[p] # "backtick"
    <3>1. p \in 1..n /\ IsText(raw, p)
      BY <2>3, <2>4 DEF IsText
    <3>2. raw[p] \notin Ascii
      BY <1>2, <2>3, <2>4, BytesApart
    <3> QED
      BY <3>1, <3>2, BytesApart
  <2> QED
    BY <2>3, <2>6, <2>7 DEF w
<1> QED
  BY <1>1, <1>2

\* Letters and digits are as wide as what starts there.
LEMMA WordWidth ==
  ASSUME NEW S, NEW raw \in Seq(S), NEW j \in 1..Len(raw), KindAt(raw, j) \in {"Word", "Number"}
  PROVE  WidthAt(raw, j) = Classify(raw, j).width
<1>1. CASE raw[j] \in Ascii
  <2>1. Classify(raw, j) = ClassifyAscii(raw, j)
    BY <1>1 DEF Classify, KindAt
  <2>2. Classify(raw, j).width = 1
    BY <2>1, AsciiClass DEF KindAt
  <2> QED
    BY <1>1, <2>2 DEF WidthAt
<1>2. CASE raw[j] \notin Ascii
  <2>1. DecodeUtf8(raw, j) # NoScalar
    BY <1>2 DEF Classify, KindAt
  <2> QED
    BY <1>2, <2>1 DEF Classify, WidthAt
<1> QED
  BY <1>1, <1>2

\* The steps of a run lead from boundary to boundary and hold what the kind may.
Within(raw, width, kind) ==
  /\ Fits(raw, width)
  /\ \A j \in 1..Len(raw) : j \in Whole(raw) /\ width[j] # 0 =>
       /\ j + width[j] \in Whole(raw)
       /\ \A p \in j..(j + width[j] - 1) : p \in Content(raw, kind)

LEMMA KindRun ==
  ASSUME NEW S, NEW raw \in Seq(S), NEW kind
  PROVE  Within(raw, KindWidths(raw, kind), kind)
<1> DEFINE width == KindWidths(raw, kind)
           n == Len(raw)
<1>1. n \in Nat /\ DOMAIN raw = 1..n
  OBVIOUS
<1>2. /\ width = [j \in 1..n |-> width[j]]
      /\ \A j \in 1..n : width[j] = IF Classify(raw, j).kind = kind THEN Classify(raw, j).width ELSE 0
  BY <1>1 DEF KindWidths
<1>3. \A j \in 1..n : Classify(raw, j).width \in 1..4 /\ j + Classify(raw, j).width - 1 <= n
  BY Classified
<1>4. \A j \in 1..n : j \in Whole(raw) =>
        /\ j + Classify(raw, j).width \in Whole(raw)
        /\ \A p \in j..(j + Classify(raw, j).width - 1) : p \in Content(raw, Classify(raw, j).kind)
  BY ClassStep
<1> HIDE DEF width, n
<1>5. \A j \in 1..n : width[j] \in Nat /\ j + width[j] <= n + 1
  BY <1>1, <1>2, <1>3
<1>6. width \in [1..n -> Nat]
  BY <1>2, <1>5
<1>7. ASSUME NEW j \in 1..n, j \in Whole(raw), width[j] # 0
      PROVE  /\ j + width[j] \in Whole(raw)
             /\ \A p \in j..(j + width[j] - 1) : p \in Content(raw, kind)
  BY <1>2, <1>4, <1>7
<1> QED
  BY <1>5, <1>6, <1>7 DEF Within, Fits, width, n

\* Words, numbers and symbols may hold the same.
LEMMA PlainContent ==
  ASSUME NEW raw
  PROVE  /\ Content(raw, "Word") = {p \in 1..Len(raw) : IsText(raw, p) /\ raw[p] # "backtick"}
         /\ Content(raw, "Number") = Content(raw, "Word")
         /\ Content(raw, "Symbol") = Content(raw, "Word")
BY DEF Content

LEMMA SymbolRun ==
  ASSUME NEW S, NEW raw \in Seq(S)
  PROVE  Within(raw, SymbolWidths(raw), "Symbol")
<1> DEFINE width == SymbolWidths(raw)
           n == Len(raw)
           Joins(j) == /\ NameAt(raw, j) = "joiner" /\ j + Classify(raw, j).width <= n
                       /\ KindAt(raw, j + Classify(raw, j).width) = "Symbol"
<1>1. n \in Nat /\ DOMAIN raw = 1..n
  OBVIOUS
<1>2. /\ width = [j \in 1..n |-> width[j]]
      /\ \A j \in 1..n : width[j] =
           IF Classify(raw, j).kind = "Symbol" THEN Classify(raw, j).width
           ELSE IF Joins(j) THEN Classify(raw, j).width + Classify(raw, j + Classify(raw, j).width).width
           ELSE 0
  BY <1>1 DEF SymbolWidths
<1>3. \A j \in 1..n : Classify(raw, j).width \in 1..4 /\ j + Classify(raw, j).width - 1 <= n
  BY Classified
<1>4. ASSUME NEW j \in 1..n, j \in Whole(raw), Classify(raw, j).kind = "Symbol"
      PROVE  /\ j + Classify(raw, j).width \in Whole(raw)
             /\ \A p \in j..(j + Classify(raw, j).width - 1) : p \in Content(raw, "Symbol")
  BY <1>4, ClassStep
<1>5. ASSUME NEW j \in 1..n, NameAt(raw, j) = "joiner"
      PROVE  /\ Classify(raw, j).width = WidthAt(raw, j)
             /\ j \in Whole(raw) =>
                  /\ j + Classify(raw, j).width \in Whole(raw)
                  /\ \A p \in j..(j + Classify(raw, j).width - 1) : p \in Content(raw, "Symbol")
  <2>1. "joiner" \notin Ascii
    BY DEF Ascii, Letters, LowerLetters, UpperLetters, Digits, Blanks, Controls,
           AsciiPunctuation, AsciiSymbols
  <2>2. raw[j] \notin Ascii
    BY <1>5, <2>1 DEF NameAt
  <2>3. DecodeUtf8(raw, j) # NoScalar
    BY <1>5, <2>2 DEF NameAt, NoScalar
  <2>4. Classify(raw, j).width = WidthAt(raw, j)
    BY <2>2, <2>3 DEF Classify, WidthAt
  <2> QED
    BY <1>5, <2>4, NameStep, PlainContent
<1> HIDE DEF width, n
<1>6. \A j \in 1..n : width[j] \in Nat /\ j + width[j] <= n + 1
  <2> TAKE j \in 1..n
  <2>1. CASE Classify(raw, j).kind = "Symbol"
    BY <1>1, <1>2, <1>3, <2>1
  <2>2. CASE Classify(raw, j).kind # "Symbol" /\ Joins(j)
    <3>1. PICK a \in 1..4 : a = Classify(raw, j).width
      BY <1>3
    <3>2. PICK k \in 1..n : k = j + a
      BY <1>1, <2>2, <3>1
    <3>3. PICK b \in 1..4 : b = Classify(raw, k).width /\ k + b - 1 <= n
      BY <1>3
    <3>4. width[j] = a + b
      BY <1>2, <2>2, <3>1, <3>2, <3>3
    <3> QED
      BY <1>1, <3>2, <3>3, <3>4, SMTT(30)
  <2>3. CASE Classify(raw, j).kind # "Symbol" /\ ~Joins(j)
    BY <1>1, <1>2, <2>3
  <2> QED
    BY <2>1, <2>2, <2>3
<1>7. width \in [1..n -> Nat]
  BY <1>2, <1>6
<1>8. ASSUME NEW j \in 1..n, j \in Whole(raw), width[j] # 0
      PROVE  /\ j + width[j] \in Whole(raw)
             /\ \A p \in j..(j + width[j] - 1) : p \in Content(raw, "Symbol")
  <2>1. CASE Classify(raw, j).kind = "Symbol"
    BY <1>2, <1>4, <1>8, <2>1
  <2>2. CASE Classify(raw, j).kind # "Symbol"
    <3>0. Joins(j)
      BY <1>2, <1>8, <2>2
    <3>1. PICK a \in 1..4 : a = Classify(raw, j).width
      BY <1>3
    <3>2. PICK k \in 1..n : k = j + a
      BY <1>1, <3>0, <3>1
    <3>3. PICK b \in 1..4 : b = Classify(raw, k).width /\ k + b - 1 <= n
      BY <1>3
    <3>4. width[j] = a + b /\ KindAt(raw, k) = "Symbol"
      BY <1>2, <2>2, <3>0, <3>1, <3>2, <3>3
    <3>5. k \in Whole(raw) /\ \A p \in j..(k - 1) : p \in Content(raw, "Symbol")
      <4>1. NameAt(raw, j) = "joiner"
        BY <3>0
      <4> QED
        BY <1>5, <1>8, <3>1, <3>2, <4>1
    <3>6. k + b \in Whole(raw) /\ \A p \in k..(k + b - 1) : p \in Content(raw, "Symbol")
      BY <1>4, <3>3, <3>4, <3>5 DEF KindAt
    <3>7. j + width[j] = k + b /\ j + width[j] - 1 = k + b - 1
      BY <3>2, <3>4
    <3>8. ASSUME NEW p \in j..(k + b - 1) PROVE p \in Content(raw, "Symbol")
      <4>1. p \in j..(k - 1) \/ p \in k..(k + b - 1)
        OBVIOUS
      <4> QED
        BY <3>5, <3>6, <4>1
    <3> QED
      BY <3>6, <3>7, <3>8
  <2> QED
    BY <2>1, <2>2
<1> QED
  BY <1>6, <1>7, <1>8 DEF Within, Fits, width, n

\* Words and numbers: every step is a letter, a digit or a named character.
LEMMA WordRuns ==
  ASSUME NEW S, NEW raw \in Seq(S)
  PROVE  Within(raw, WordWidths(raw), "Word") /\ Within(raw, NumberWidths(raw), "Word")
<1> DEFINE n == Len(raw)
<1>1. n \in Nat /\ DOMAIN raw = 1..n
  OBVIOUS
<1> HIDE DEF n
<1>2. ASSUME NEW j \in 1..n, KindAt(raw, j) \in {"Word", "Number"} \/
                NameAt(raw, j) \in WordConnectors \cup NumberSeparators
      PROVE  /\ WidthAt(raw, j) \in 1..4 /\ j + WidthAt(raw, j) - 1 <= n
             /\ j \in Whole(raw) =>
                  /\ j + WidthAt(raw, j) \in Whole(raw)
                  /\ \A p \in j..(j + WidthAt(raw, j) - 1) : p \in Content(raw, "Word")
  <2>1. CASE KindAt(raw, j) \in {"Word", "Number"}
    <3>1. WidthAt(raw, j) = Classify(raw, j).width
      BY <2>1, WordWidth DEF n
    <3>2. Content(raw, Classify(raw, j).kind) = Content(raw, "Word")
      BY <2>1, PlainContent DEF KindAt
    <3> QED
      BY <3>1, <3>2, Classified, ClassStep DEF n
  <2>2. CASE NameAt(raw, j) \in WordConnectors \cup NumberSeparators
    <3>1. NameAt(raw, j) \notin {"none", "backtick"}
      BY <2>2 DEF WordConnectors, NumberSeparators
    <3> QED
      BY <3>1, NameStep, PlainContent DEF n
  <2> QED
    BY <1>2, <2>1, <2>2
<1>3. ASSUME NEW width, DOMAIN width = 1..n, width = [j \in 1..n |-> width[j]],
             \A j \in 1..n : width[j] = 0 \/
               (/\ width[j] = WidthAt(raw, j)
                /\ KindAt(raw, j) \in {"Word", "Number"} \/
                     NameAt(raw, j) \in WordConnectors \cup NumberSeparators)
      PROVE  Within(raw, width, "Word")
  <2>1. \A j \in 1..n : width[j] \in Nat /\ j + width[j] <= n + 1
    BY <1>1, <1>2, <1>3
  <2>2. width \in [1..n -> Nat]
    BY <1>3, <2>1
  <2>3. ASSUME NEW j \in 1..n, j \in Whole(raw), width[j] # 0
        PROVE  /\ j + width[j] \in Whole(raw)
               /\ \A p \in j..(j + width[j] - 1) : p \in Content(raw, "Word")
    BY <1>2, <1>3, <2>3
  <2> QED
    BY <2>1, <2>2, <2>3 DEF Within, Fits, n
<1>4. Within(raw, WordWidths(raw), "Word")
  <2> DEFINE width == WordWidths(raw)
  <2>1. /\ DOMAIN width = 1..n /\ width = [j \in 1..n |-> width[j]]
        /\ \A j \in 1..n : width[j] =
             IF IsWordAt(raw, j) \/ IsNumberAt(raw, j) THEN WidthAt(raw, j)
             ELSE IF NameAt(raw, j) \in WordConnectors
                       /\ (IsWordAt(raw, j + WidthAt(raw, j)) \/ IsNumberAt(raw, j + WidthAt(raw, j)))
             THEN WidthAt(raw, j) ELSE 0
    BY <1>1 DEF WordWidths
  <2> HIDE DEF width
  <2>2. \A j \in 1..n : width[j] = 0 \/
               (/\ width[j] = WidthAt(raw, j)
                /\ KindAt(raw, j) \in {"Word", "Number"} \/
                     NameAt(raw, j) \in WordConnectors \cup NumberSeparators)
    BY <2>1 DEF IsWordAt, IsNumberAt
  <2> QED
    BY <1>3, <2>1, <2>2 DEF width
<1>5. Within(raw, NumberWidths(raw), "Word")
  <2> DEFINE width == NumberWidths(raw)
  <2>1. /\ DOMAIN width = 1..n /\ width = [j \in 1..n |-> width[j]]
        /\ \A j \in 1..n : width[j] =
             IF IsNumberAt(raw, j) THEN WidthAt(raw, j)
             ELSE IF NameAt(raw, j) \in NumberSeparators /\ IsNumberAt(raw, j + WidthAt(raw, j))
             THEN WidthAt(raw, j) ELSE 0
    BY <1>1 DEF NumberWidths
  <2> HIDE DEF width
  <2>2. \A j \in 1..n : width[j] = 0 \/
               (/\ width[j] = WidthAt(raw, j)
                /\ KindAt(raw, j) \in {"Word", "Number"} \/
                     NameAt(raw, j) \in WordConnectors \cup NumberSeparators)
    BY <2>1 DEF IsNumberAt
  <2> QED
    BY <1>3, <2>1, <2>2 DEF width
<1> QED
  BY <1>4, <1>5

LEMMA WithinRun ==
  ASSUME NEW S, NEW raw \in Seq(S), NEW width, NEW kind, Within(raw, width, kind),
         NEW i \in 1..(Len(raw) + 1)
  PROVE  /\ Extend(raw, i, width) \in i..(Len(raw) + 1)
         /\ Extend(raw, i, width) <= Len(raw) => width[Extend(raw, i, width)] = 0
         /\ i \in Whole(raw) =>
              /\ Extend(raw, i, width) \in Whole(raw)
              /\ \A p \in i..(Extend(raw, i, width) - 1) : p \in Content(raw, kind)
<1>1. Fits(raw, width)
  BY DEF Within
<1>2. \A j \in 1..Len(raw) : j \in Whole(raw) /\ width[j] # 0 =>
        /\ j + width[j] \in Whole(raw)
        /\ \A p \in j..(j + width[j] - 1) : p \in Content(raw, kind)
  BY DEF Within
<1> QED
  BY <1>1, <1>2, RunContent

\* Where ConsumeNumber goes on as a word, it goes on from within the document.
Turns(raw, end) ==
  /\ end <= Len(raw) /\ NameAt(raw, end) \in {"'", "quote"}
  /\ IsWordAt(raw, end + WidthAt(raw, end))

LEMMA NumberEnd ==
  ASSUME NEW S, NEW raw \in Seq(S), NEW i \in 1..(Len(raw) + 1)
  PROVE  /\ ConsumeNumber(raw, i) \in i..(Len(raw) + 1)
         /\ i \in Whole(raw) =>
              /\ ConsumeNumber(raw, i) \in Whole(raw)
              /\ \A p \in i..(ConsumeNumber(raw, i) - 1) : p \in Content(raw, "Word")
<1>0. Len(raw) \in Nat
  OBVIOUS
<1>1. Within(raw, WordWidths(raw), "Word") /\ Within(raw, NumberWidths(raw), "Word")
  BY WordRuns
<1>2. PICK e \in i..(Len(raw) + 1) : e = Extend(raw, i, NumberWidths(raw))
  BY <1>1, WithinRun
<1>3. i \in Whole(raw) => e \in Whole(raw) /\ \A p \in i..(e - 1) : p \in Content(raw, "Word")
  BY <1>1, <1>2, WithinRun
<1>4. CASE ~Turns(raw, e)
  <2>1. ConsumeNumber(raw, i) = e
    BY <1>2, <1>4 DEF ConsumeNumber, Turns
  <2> QED
    BY <1>3, <2>1
<1>5. CASE Turns(raw, e)
  <2>1. e \in 1..Len(raw) /\ NameAt(raw, e) \notin {"none", "backtick"}
    BY <1>5 DEF Turns
  <2>2. PICK w \in 1..4 : w = WidthAt(raw, e) /\ e + w - 1 <= Len(raw)
    BY <2>1, NameStep
  <2>3. e \in Whole(raw) =>
          e + w \in Whole(raw) /\ \A p \in e..(e + w - 1) : p \in Content(raw, "Word")
    BY <2>1, <2>2, NameStep, PlainContent
  <2>4. PICK k \in 1..(Len(raw) + 1) : k = e + w
    BY <1>0, <2>1, <2>2
  <2>5. PICK f \in k..(Len(raw) + 1) : f = Extend(raw, k, WordWidths(raw))
    BY <1>1, WithinRun
  <2>6. k \in Whole(raw) => f \in Whole(raw) /\ \A p \in k..(f - 1) : p \in Content(raw, "Word")
    BY <1>1, <2>5, WithinRun
  <2>7. ConsumeNumber(raw, i) = f
    BY <1>2, <1>5, <2>2, <2>4, <2>5 DEF ConsumeNumber, ConsumeWord, Turns
  <2>8. ASSUME i \in Whole(raw), NEW p \in i..(f - 1) PROVE p \in Content(raw, "Word")
    <3>1. p \in i..(e - 1) \/ p \in e..(e + w - 1) \/ p \in k..(f - 1)
      BY <2>4
    <3> QED
      BY <1>3, <2>3, <2>4, <2>6, <2>8, <3>1
  <2>9. i \in Whole(raw) => f \in Whole(raw)
    BY <1>3, <2>3, <2>4, <2>6
  <2>10. f \in i..(Len(raw) + 1)
    BY <2>4
  <2> QED
    BY <2>7, <2>8, <2>9, <2>10
<1> QED
  BY <1>4, <1>5

-----------------------------------------------------------------------------
(* Units.                                                                  *)

\* A unit begins where it is looked for, takes at least one byte, ends within
\* the document, and leads from boundary to boundary over what its kind may
\* hold.
LEMMA UnitShape ==
  ASSUME NEW S, NEW raw \in Seq(S), NEW i \in 1..Len(raw)
  PROVE  /\ UnitAt(raw, i) = [kind |-> KindAt(raw, i), start |-> i, end |-> UnitAt(raw, i).end]
         /\ KindAt(raw, i) \in Kinds
         /\ UnitAt(raw, i).end \in (i + 1)..(Len(raw) + 1)
         /\ i \in Whole(raw) =>
              /\ UnitAt(raw, i).end \in Whole(raw)
              /\ \A p \in i..(UnitAt(raw, i).end - 1) : p \in Content(raw, KindAt(raw, i))
<1> DEFINE kind == KindAt(raw, i)
           end == UnitAt(raw, i).end
<1>0. Len(raw) \in Nat
  OBVIOUS
<1>1. PICK w \in 1..4 : w = Classify(raw, i).width /\ i + w - 1 <= Len(raw) /\ kind \in Kinds
  BY Classified DEF KindAt
<1>2. PICK next \in 1..(Len(raw) + 1) : next = i + w
  BY <1>0, <1>1
<1>3. i \in Whole(raw) => next \in Whole(raw) /\ \A p \in i..(next - 1) : p \in Content(raw, kind)
  BY <1>1, <1>2, ClassStep DEF KindAt
<1>4. /\ UnitAt(raw, i) = [kind |-> kind, start |-> i, end |-> end]
      /\ kind = "Word" => end = ConsumeWord(raw, next)
      /\ kind = "Number" => end = ConsumeNumber(raw, next)
      /\ kind = "Symbol" => end = ConsumeSymbols(raw, next)
      /\ kind \notin {"Word", "Number", "Symbol"} => end = ConsumeKind(raw, next, kind)
  BY <1>1, <1>2 DEF UnitAt, KindAt
<1> HIDE DEF end
<1>5. /\ end \in next..(Len(raw) + 1)
      /\ next \in Whole(raw) =>
           end \in Whole(raw) /\ \A p \in next..(end - 1) : p \in Content(raw, kind)
  <2>1. CASE kind = "Word"
    BY <1>4, <2>1, WordRuns, WithinRun DEF ConsumeWord
  <2>2. CASE kind = "Number"
    BY <1>4, <2>2, NumberEnd, PlainContent
  <2>3. CASE kind = "Symbol"
    BY <1>4, <2>3, SymbolRun, WithinRun DEF ConsumeSymbols
  <2>4. CASE kind \notin {"Word", "Number", "Symbol"}
    <3>1. Within(raw, KindWidths(raw, kind), kind)
      BY KindRun
    <3> QED
      BY <1>4, <2>4, <3>1, WithinRun DEF ConsumeKind
  <2> QED
    BY <2>1, <2>2, <2>3, <2>4
<1>6. ASSUME i \in Whole(raw), NEW p \in i..(end - 1) PROVE p \in Content(raw, kind)
  <2>1. p \in i..(next - 1) \/ p \in next..(end - 1)
    BY <1>5
  <2> QED
    BY <1>3, <1>5, <1>6, <2>1
<1>7. end \in (i + 1)..(Len(raw) + 1)
  BY <1>1, <1>2, <1>5
<1>8. i \in Whole(raw) => end \in Whole(raw)
  BY <1>3, <1>5
<1> QED
  BY <1>1, <1>4, <1>6, <1>7, <1>8 DEF end

-----------------------------------------------------------------------------
(* The hint tracker.                                                       *)

HintRecords == [unmarked : BOOLEAN, artifact : BOOLEAN, backtick : BOOLEAN]
LineRecords ==
  [first : BOOLEAN, call : BOOLEAN, member : BOOLEAN, quote : 0..2, section : 0..2,
   escaped : 0..2, hash : BOOLEAN, number : BOOLEAN, zero : BOOLEAN]

LEMMA TrackerRecords ==
  /\ Trackers = [hints : HintRecords, line : LineRecords]
  /\ NewLine \in LineRecords /\ NoHints \in HintRecords /\ NewTracker \in Trackers
<1>1. Trackers = [hints : HintRecords, line : LineRecords]
  BY DEF Trackers, HintRecords, LineRecords
<1>2. NewLine \in LineRecords
  BY DEF NewLine, LineRecords
<1>3. NoHints \in HintRecords
  BY DEF NoHints, HintRecords
<1> QED
  BY <1>1, <1>2, <1>3 DEF NewTracker

\* What the tracker remembers of a line stays what it may be.
LEMMA RememberType ==
  ASSUME NEW t \in Trackers, NEW kind, NEW bytes
  PROVE  [t EXCEPT !.line = Remember(t.line, kind, bytes)] \in Trackers
<1> DEFINE line == t.line
           r == Remember(line, kind, bytes)
<1>1. \A x : KeyState(x) \in 0..2
  BY DEF KeyState
<1>2. /\ line.quote \in 0..2 /\ line.section \in 0..2 /\ line.hash \in BOOLEAN /\ line.call \in BOOLEAN
      /\ line.first \in BOOLEAN /\ line.member \in BOOLEAN
  BY DEF Trackers
<1> HIDE DEF line
<1>3. r = [first |-> r.first, call |-> r.call, member |-> r.member, quote |-> r.quote,
           section |-> r.section, escaped |-> r.escaped, hash |-> r.hash, number |-> r.number,
           zero |-> r.zero]
  BY DEF Remember
<1>4. r.first \in BOOLEAN /\ r.member \in BOOLEAN /\ r.number \in BOOLEAN /\ r.zero \in BOOLEAN
  BY DEF Remember
<1>5. r.call \in BOOLEAN
  BY <1>2 DEF Remember
<1>6. r.hash \in BOOLEAN
  BY <1>2 DEF Remember
<1>7. r.quote \in 0..2
  BY <1>1, <1>2 DEF Remember
<1>8. r.section \in 0..2
  BY <1>2 DEF Remember
<1>9. r.escaped \in 0..2
  BY DEF Remember
<1> HIDE DEF r
<1>10. r \in [first : BOOLEAN, call : BOOLEAN, member : BOOLEAN, quote : 0..2, section : 0..2,
              escaped : 0..2, hash : BOOLEAN, number : BOOLEAN, zero : BOOLEAN]
  BY <1>3, <1>4, <1>5, <1>6, <1>7, <1>8, <1>9
<1> QED
  BY <1>10 DEF Trackers, r, line

\* Observing a unit, and finishing, keep the tracker's type.
LEMMA SuspectType ==
  ASSUME NEW t \in Trackers
  PROVE  Suspect(t) \in Trackers
<1>1. t \in [hints : HintRecords, line : LineRecords] /\ NewLine \in LineRecords
  BY TrackerRecords
<1>2. [t.hints EXCEPT !.unmarked = TRUE] \in HintRecords
  BY <1>1 DEF HintRecords
<1> QED
  BY <1>1, <1>2, TrackerRecords DEF Suspect

LEMMA ObserveType ==
  ASSUME NEW t \in Trackers, NEW kind, NEW bytes
  PROVE  Observe(t, kind, bytes) \in Trackers
<1>1. CASE kind = "LineBreak"
  <2>1. [t EXCEPT !.line = NewLine] \in Trackers
    BY TrackerRecords
  <2> QED
    BY <1>1, <2>1, SuspectType DEF Observe, ObserveLineBreak
<1>2. CASE kind = "Whitespace"
  <2> DEFINE section == IF t.line.section = 1 THEN 0 ELSE t.line.section
             spaced == [t.line EXCEPT !.number = FALSE, !.zero = FALSE, !.section = section]
  <2>1. t \in [hints : HintRecords, line : LineRecords]
    BY TrackerRecords
  <2>2. section \in 0..2
    BY <2>1 DEF LineRecords
  <2> HIDE DEF section
  <2>3. spaced \in LineRecords
    BY <2>1, <2>2 DEF LineRecords
  <2>4. ObserveSpace(t) = [t EXCEPT !.line = spaced]
    BY <2>1 DEF ObserveSpace, section
  <2> HIDE DEF spaced
  <2> QED
    BY <1>2, <2>1, <2>3, <2>4, TrackerRecords DEF Observe
<1>3. CASE kind \notin {"LineBreak", "Whitespace"}
  <2> DEFINE backtick == t.hints.backtick \/ (kind = "Punctuation" /\ "backtick" \in Chars(bytes))
             artifact == t.hints.artifact \/ IsArtifact(t.line, kind, bytes)
             noted == [t EXCEPT !.hints.backtick = backtick, !.hints.artifact = artifact]
  <2>1. /\ t.hints.backtick \in BOOLEAN /\ t.hints.artifact \in BOOLEAN /\ t.hints.unmarked \in BOOLEAN
    BY DEF Trackers
  <2>2. backtick \in BOOLEAN
    BY <2>1
  <2>3. artifact \in BOOLEAN
    BY <2>1
  <2>4. Observe(t, kind, bytes) =
          CASE t.hints.unmarked -> noted
            [] ~t.hints.unmarked /\ IsSignal(t.line, kind, bytes) -> Suspect(noted)
            [] OTHER -> [noted EXCEPT !.line = Remember(t.line, kind, bytes)]
    BY <1>3 DEF Observe, ObserveText
  <2> HIDE DEF backtick, artifact
  <2>5. noted \in Trackers /\ noted.line = t.line
    BY <2>2, <2>3 DEF Trackers
  <2> HIDE DEF noted
  <2>6. Suspect(noted) \in Trackers
    BY <2>5, SuspectType
  <2>7. [noted EXCEPT !.line = Remember(t.line, kind, bytes)] \in Trackers
    BY <2>5, RememberType
  <2> QED
    BY <2>4, <2>5, <2>6, <2>7
<1> QED
  BY <1>1, <1>2, <1>3

LEMMA FinishType ==
  ASSUME NEW t \in Trackers
  PROVE  /\ Finish(t) \in [unmarked : BOOLEAN, artifact : BOOLEAN, backtick : BOOLEAN]
         /\ [t EXCEPT !.hints = Finish(t)] \in Trackers
<1>1. t.hints.unmarked \in BOOLEAN
  BY DEF Trackers
<1>2. (t.hints.unmarked \/ t.line.section = 2) \in BOOLEAN
  BY <1>1
<1>3. Finish(t) \in [unmarked : BOOLEAN, artifact : BOOLEAN, backtick : BOOLEAN]
  BY <1>2 DEF Finish, Trackers
<1> QED
  BY <1>3 DEF Trackers

-----------------------------------------------------------------------------
(* A part of a document on its own: what fits into it reads the same there. *)

Part(raw, i, sub) ==
  /\ i + Len(sub) - 1 <= Len(raw)
  /\ \A q \in 1..Len(sub) : sub[q] = raw[i + q - 1]

\* Byte q of the part is byte p of the document.
Same(i, q, p) == p = i + q - 1

LEMMA SubSeqIsPart ==
  ASSUME NEW S, NEW raw \in Seq(S), NEW i \in 1..Len(raw), NEW e \in (i + 1)..(Len(raw) + 1)
  PROVE  /\ SubSeq(raw, i, e - 1) \in Seq(S) /\ Len(SubSeq(raw, i, e - 1)) = e - i
         /\ Part(raw, i, SubSeq(raw, i, e - 1))
<1> DEFINE sub == SubSeq(raw, i, e - 1)
<1>1. PICK l \in i..Len(raw) : l = e - 1
  OBVIOUS
<1>2. /\ SubSeq(raw, i, l) \in Seq(S) /\ Len(SubSeq(raw, i, l)) = l - i + 1
      /\ \A q \in 1..(l - i + 1) : SubSeq(raw, i, l)[q] = raw[i + q - 1]
  BY SubSeqProperties
<1>3. l - i + 1 = e - i /\ i + (l - i + 1) - 1 <= Len(raw)
  BY <1>1
<1> QED
  BY <1>1, <1>2, <1>3 DEF Part

\* No scalar begins with the bytes of another.
LEMMA ScalarsApart ==
  ASSUME NEW s \in Scalars, NEW t \in Scalars,
         \A k \in 1..Len(s.bytes) : k <= Len(t.bytes) => t.bytes[k] = s.bytes[k]
  PROVE  s = t
<1> DEFINE
      r1 == [bytes |-> <<"C3", "BC">>, kind |-> "Word", name |-> "u umlaut"]
      r2 == [bytes |-> <<"CC", "87">>, kind |-> "Word", name |-> "combining dot"]
      r3 == [bytes |-> <<"D9", "A3">>, kind |-> "Number", name |-> "arabic three"]
      r4 == [bytes |-> <<"D9", "AB">>, kind |-> "Symbol", name |-> "decimal separator"]
      r5 == [bytes |-> <<"E2", "80", "99">>, kind |-> "Punctuation", name |-> "quote"]
      r6 == [bytes |-> <<"E2", "80", "90">>, kind |-> "Punctuation", name |-> "hyphen"]
      r7 == [bytes |-> <<"E2", "80", "8D">>, kind |-> "Punctuation", name |-> "joiner"]
      r8 == [bytes |-> <<"E2", "80", "A8">>, kind |-> "LineBreak", name |-> "line separator"]
      r9 == [bytes |-> <<"C2", "A0">>, kind |-> "Whitespace", name |-> "no-break space"]
      r10 == [bytes |-> <<"C2", "80">>, kind |-> "Control", name |-> "control"]
      r11 == [bytes |-> <<"F0", "9F", "98", "80">>, kind |-> "Symbol", name |-> "smiley"]
<1>1. /\ s.bytes[1] = t.bytes[1] /\ s.bytes[2] = t.bytes[2]
      /\ Len(s.bytes) >= 3 /\ Len(t.bytes) >= 3 => s.bytes[3] = t.bytes[3]
  BY ScalarShape, SMTT(30) DEF Encoded
<1>2. ASSUME NEW x \in Scalars
      PROVE
         \/ x = r1 /\ Len(x.bytes) = 2 /\ x.bytes[1] = "C3" /\ x.bytes[2] = "BC"
         \/ x = r2 /\ Len(x.bytes) = 2 /\ x.bytes[1] = "CC" /\ x.bytes[2] = "87"
         \/ x = r3 /\ Len(x.bytes) = 2 /\ x.bytes[1] = "D9" /\ x.bytes[2] = "A3"
         \/ x = r4 /\ Len(x.bytes) = 2 /\ x.bytes[1] = "D9" /\ x.bytes[2] = "AB"
         \/ x = r5 /\ Len(x.bytes) = 3 /\ x.bytes[1] = "E2" /\ x.bytes[2] = "80" /\ x.bytes[3] = "99"
         \/ x = r6 /\ Len(x.bytes) = 3 /\ x.bytes[1] = "E2" /\ x.bytes[2] = "80" /\ x.bytes[3] = "90"
         \/ x = r7 /\ Len(x.bytes) = 3 /\ x.bytes[1] = "E2" /\ x.bytes[2] = "80" /\ x.bytes[3] = "8D"
         \/ x = r8 /\ Len(x.bytes) = 3 /\ x.bytes[1] = "E2" /\ x.bytes[2] = "80" /\ x.bytes[3] = "A8"
         \/ x = r9 /\ Len(x.bytes) = 2 /\ x.bytes[1] = "C2" /\ x.bytes[2] = "A0"
         \/ x = r10 /\ Len(x.bytes) = 2 /\ x.bytes[1] = "C2" /\ x.bytes[2] = "80"
         \/ x = r11 /\ Len(x.bytes) = 4 /\ x.bytes[1] = "F0" /\ x.bytes[2] = "9F" /\ x.bytes[3] = "98"
  <2>1. CASE x = r1
    <3>1. Len(x.bytes) = 2 /\ x.bytes[1] = "C3" /\ x.bytes[2] = "BC"
      BY <2>1
    <3> QED
      BY <2>1, <3>1
  <2>2. CASE x = r2
    <3>1. Len(x.bytes) = 2 /\ x.bytes[1] = "CC" /\ x.bytes[2] = "87"
      BY <2>2
    <3> QED
      BY <2>2, <3>1
  <2>3. CASE x = r3
    <3>1. Len(x.bytes) = 2 /\ x.bytes[1] = "D9" /\ x.bytes[2] = "A3"
      BY <2>3
    <3> QED
      BY <2>3, <3>1
  <2>4. CASE x = r4
    <3>1. Len(x.bytes) = 2 /\ x.bytes[1] = "D9" /\ x.bytes[2] = "AB"
      BY <2>4
    <3> QED
      BY <2>4, <3>1
  <2>5. CASE x = r5
    <3>1. Len(x.bytes) = 3 /\ x.bytes[1] = "E2" /\ x.bytes[2] = "80" /\ x.bytes[3] = "99"
      BY <2>5
    <3> QED
      BY <2>5, <3>1
  <2>6. CASE x = r6
    <3>1. Len(x.bytes) = 3 /\ x.bytes[1] = "E2" /\ x.bytes[2] = "80" /\ x.bytes[3] = "90"
      BY <2>6
    <3> QED
      BY <2>6, <3>1
  <2>7. CASE x = r7
    <3>1. Len(x.bytes) = 3 /\ x.bytes[1] = "E2" /\ x.bytes[2] = "80" /\ x.bytes[3] = "8D"
      BY <2>7
    <3> QED
      BY <2>7, <3>1
  <2>8. CASE x = r8
    <3>1. Len(x.bytes) = 3 /\ x.bytes[1] = "E2" /\ x.bytes[2] = "80" /\ x.bytes[3] = "A8"
      BY <2>8
    <3> QED
      BY <2>8, <3>1
  <2>9. CASE x = r9
    <3>1. Len(x.bytes) = 2 /\ x.bytes[1] = "C2" /\ x.bytes[2] = "A0"
      BY <2>9
    <3> QED
      BY <2>9, <3>1
  <2>10. CASE x = r10
    <3>1. Len(x.bytes) = 2 /\ x.bytes[1] = "C2" /\ x.bytes[2] = "80"
      BY <2>10
    <3> QED
      BY <2>10, <3>1
  <2>11. CASE x = r11
    <3>1. Len(x.bytes) = 4 /\ x.bytes[1] = "F0" /\ x.bytes[2] = "9F" /\ x.bytes[3] = "98"
      BY <2>11
    <3> QED
      BY <2>11, <3>1
  <2> QED
    BY <2>1, <2>2, <2>3, <2>4, <2>5, <2>6, <2>7, <2>8, <2>9, <2>10, <2>11 DEF Scalars
<1> HIDE DEF r1, r2, r3, r4, r5, r6, r7, r8, r9, r10, r11
<1> QED
  BY <1>1, <1>2

LEMMA DecodeAlone ==
  ASSUME NEW S, NEW raw \in Seq(S), NEW sub \in Seq(S), NEW i \in 1..Len(raw), Part(raw, i, sub),
         NEW q \in 1..Len(sub), NEW p \in 1..Len(raw), Same(i, q, p),
         q + Len(DecodeUtf8(raw, p).bytes) - 1 <= Len(sub)
  PROVE  DecodeUtf8(sub, q) = DecodeUtf8(raw, p)
<1> USE DEF Same
<1>0. Len(raw) \in Nat /\ Len(sub) \in Nat
  OBVIOUS
<1>1. ASSUME NEW s \in Scalars, IsScalarAt(sub, q, s) PROVE IsScalarAt(raw, p, s)
  <2>1. PICK l \in 2..4 : l = Len(s.bytes)
    BY ScalarShape DEF Encoded
  <2>2. q + l - 1 <= Len(sub) /\ \A k \in 1..l : sub[q + k - 1] = s.bytes[k]
    BY <1>1, <2>1 DEF IsScalarAt
  <2>3. p + l - 1 <= Len(raw)
    BY <1>0, <2>2 DEF Part
  <2>4. ASSUME NEW k \in 1..l PROVE raw[p + k - 1] = s.bytes[k]
    <3>1. PICK r \in 1..Len(sub) : r = q + k - 1 /\ i + r - 1 = p + k - 1
      BY <1>0, <2>2
    <3> QED
      BY <2>2, <3>1 DEF Part
  <2> QED
    BY <2>1, <2>3, <2>4 DEF IsScalarAt
<1>2. CASE DecodeUtf8(raw, p) = NoScalar
  <2>1. \A s \in Scalars : ~IsScalarAt(raw, p, s)
    <3>1. ~(DecodeUtf8(raw, p) \in Scalars)
      <4>1. NoScalar \notin Scalars
        BY DEF NoScalar, Scalars
      <4> QED
        BY <1>2, <4>1
    <3> QED
      BY <3>1, Decoding
  <2> QED
    BY <1>1, <1>2, <2>1, Decoding
<1>3. CASE DecodeUtf8(raw, p) # NoScalar
  <2>1. PICK s \in Scalars : s = DecodeUtf8(raw, p) /\ IsScalarAt(raw, p, s)
    BY <1>3, Decoding
  <2>2. PICK l \in 2..4 : l = Len(s.bytes)
    BY <2>1, ScalarShape DEF Encoded
  <2>3. p + l - 1 <= Len(raw) /\ \A k \in 1..l : raw[p + k - 1] = s.bytes[k]
    BY <2>1, <2>2 DEF IsScalarAt
  <2>4. q + l - 1 <= Len(sub)
    BY <2>1, <2>2
  <2>5. ASSUME NEW k \in 1..l PROVE sub[q + k - 1] = s.bytes[k]
    <3>1. PICK r \in 1..Len(sub) : r = q + k - 1 /\ i + r - 1 = p + k - 1
      BY <1>0, <2>4
    <3> QED
      BY <2>3, <3>1 DEF Part
  <2>6. IsScalarAt(sub, q, s)
    BY <2>2, <2>4, <2>5 DEF IsScalarAt
  <2>7. PICK t \in Scalars : t = DecodeUtf8(sub, q) /\ IsScalarAt(sub, q, t)
    BY <2>6, Decoding
  <2>8. \A k \in 1..Len(s.bytes) : k <= Len(t.bytes) => t.bytes[k] = s.bytes[k]
    <3>1. PICK m \in 2..4 : m = Len(t.bytes)
      BY <2>7, ScalarShape DEF Encoded
    <3>2. \A k \in 1..m : sub[q + k - 1] = t.bytes[k]
      BY <2>7, <3>1 DEF IsScalarAt
    <3> QED
      BY <2>2, <2>5, <3>1, <3>2
  <2> QED
    BY <2>1, <2>7, <2>8, ScalarsApart
<1> QED
  BY <1>2, <1>3

LEMMA OperatorAlone ==
  ASSUME NEW S, NEW raw \in Seq(S), NEW sub \in Seq(S), NEW i \in 1..Len(raw), Part(raw, i, sub),
         NEW q \in 1..Len(sub), NEW p \in 1..Len(raw), Same(i, q, p),
         q + OperatorWidth(raw, p) - 1 <= Len(sub)
  PROVE  OperatorWidth(sub, q) = OperatorWidth(raw, p)
<1> USE DEF Same
<1> DEFINE pair == IF p < Len(raw) THEN <<raw[p], raw[p + 1]>> ELSE <<raw[p]>>
           own == IF q < Len(sub) THEN <<sub[q], sub[q + 1]>> ELSE <<sub[q]>>
           w == OperatorWidth(raw, p)
<1>0. Len(raw) \in Nat /\ Len(sub) \in Nat /\ i + Len(sub) - 1 <= Len(raw)
  BY DEF Part
<1>1. /\ sub[q] = raw[p]
      /\ q + 1 <= Len(sub) => sub[q + 1] = raw[p + 1] /\ p + 1 <= Len(raw)
      /\ q + 2 <= Len(sub) => sub[q + 2] = raw[p + 2] /\ p + 2 <= Len(raw)
  <2>1. sub[q] = raw[p]
    BY DEF Part
  <2>2. ASSUME q + 1 <= Len(sub) PROVE sub[q + 1] = raw[p + 1] /\ p + 1 <= Len(raw)
    <3>1. PICK r \in 1..Len(sub) : r = q + 1 /\ i + r - 1 = p + 1
      BY <1>0, <2>2
    <3> QED
      BY <1>0, <3>1 DEF Part
  <2>3. ASSUME q + 2 <= Len(sub) PROVE sub[q + 2] = raw[p + 2] /\ p + 2 <= Len(raw)
    <3>1. PICK r \in 1..Len(sub) : r = q + 2 /\ i + r - 1 = p + 2
      BY <1>0, <2>3
    <3> QED
      BY <1>0, <3>1 DEF Part
  <2> QED
    BY <2>1, <2>2, <2>3
<1>2. w = IF pair \in LongOperators
          THEN IF p + 2 <= Len(raw) /\ raw[p + 2] = "=" THEN 3 ELSE 2
          ELSE IF pair \in ShortOperators THEN 2 ELSE 0
  BY DEF OperatorWidth
<1>3. OperatorWidth(sub, q) =
        IF own \in LongOperators
        THEN IF q + 2 <= Len(sub) /\ sub[q + 2] = "=" THEN 3 ELSE 2
        ELSE IF own \in ShortOperators THEN 2 ELSE 0
  BY DEF OperatorWidth
<1>4. CASE q < Len(sub)
  <2>1. own = pair
    BY <1>0, <1>1, <1>4
  <2> HIDE DEF own, pair, w
  <2>2. CASE p + 2 <= Len(raw) /\ raw[p + 2] = "=" /\ pair \in LongOperators
    BY <1>0, <1>1, <1>2, <1>3, <2>1, <2>2 DEF w
  <2>3. CASE ~(p + 2 <= Len(raw) /\ raw[p + 2] = "=")
    BY <1>0, <1>1, <1>2, <1>3, <2>1, <2>3 DEF w
  <2>4. CASE pair \notin LongOperators
    BY <1>2, <1>3, <2>1, <2>4 DEF w
  <2> QED
    BY <2>2, <2>3, <2>4
<1>5. CASE ~(q < Len(sub))
  <2>1. own \notin LongOperators \cup ShortOperators
    <3>1. Len(own) = 1
      BY <1>5
    <3> HIDE DEF own
    <3> QED
      BY <3>1, OperatorShape
  <2>2. w = 0
    BY <1>0, <1>5, Operator
  <2> QED
    BY <1>3, <2>1, <2>2
<1> QED
  BY <1>4, <1>5

LEMMA ClassifyAlone ==
  ASSUME NEW S, NEW raw \in Seq(S), NEW sub \in Seq(S), NEW i \in 1..Len(raw), Part(raw, i, sub),
         NEW q \in 1..Len(sub), NEW p \in 1..Len(raw), Same(i, q, p),
         q + Classify(raw, p).width - 1 <= Len(sub)
  PROVE  Classify(sub, q) = Classify(raw, p)
<1> USE DEF Same
<1>0. /\ Len(raw) \in Nat /\ Len(sub) \in Nat /\ i + Len(sub) - 1 <= Len(raw)
      /\ sub[q] = raw[p]
  BY DEF Part
<1>1. CASE raw[p] \in Ascii /\ OperatorWidth(raw, p) > 0
  <2>1. Classify(raw, p) = [kind |-> "Symbol", width |-> OperatorWidth(raw, p)]
    BY <1>1 DEF Classify
  <2>2. OperatorWidth(sub, q) = OperatorWidth(raw, p)
    BY <2>1, OperatorAlone
  <2> QED
    BY <1>0, <1>1, <2>1, <2>2 DEF Classify
<1>2. CASE raw[p] \in Ascii /\ ~(OperatorWidth(raw, p) > 0)
  <2>1. OperatorWidth(raw, p) = 0
    BY <1>2, Operator
  <2>2. q + OperatorWidth(raw, p) - 1 <= Len(sub)
    BY <1>0, <2>1
  <2>3. OperatorWidth(sub, q) = 0
    BY <2>1, <2>2, OperatorAlone
  <2>4. Classify(raw, p) = ClassifyAscii(raw, p) /\ Classify(sub, q) = ClassifyAscii(sub, q)
    BY <1>0, <1>2, <2>3 DEF Classify
  <2>5. (raw[p] = "\r" /\ p < Len(raw) /\ raw[p + 1] = "\n") <=>
          (sub[q] = "\r" /\ q < Len(sub) /\ sub[q + 1] = "\n")
    <3>1. ASSUME q < Len(sub) PROVE p < Len(raw) /\ sub[q + 1] = raw[p + 1]
      <4>1. q + 1 \in 1..Len(sub) /\ i + (q + 1) - 1 = p + 1
        BY <1>0, <3>1, SMTT(30)
      <4>2. sub[q + 1] = raw[i + (q + 1) - 1]
        BY <4>1 DEF Part
      <4>3. p < Len(raw)
        BY <1>0, <3>1
      <4> QED
        BY <4>1, <4>2, <4>3
    <3>2. ASSUME raw[p] = "\r", p < Len(raw), raw[p + 1] = "\n" PROVE q < Len(sub)
      <4>1. Classify(raw, p).width = 2
        BY <2>4, <3>2, AsciiClass
      <4> QED
        BY <1>0, <4>1
    <3> QED
      BY <1>0, <3>1, <3>2
  <2> QED
    BY <1>0, <2>4, <2>5 DEF ClassifyAscii
<1>3. CASE raw[p] \notin Ascii
  <2>1. q + Len(DecodeUtf8(raw, p).bytes) - 1 <= Len(sub)
    <3>1. CASE DecodeUtf8(raw, p) = NoScalar
      <4>1. Len(DecodeUtf8(raw, p).bytes) = 0
        BY <3>1 DEF NoScalar
      <4> QED
        BY <1>0, <4>1
    <3>2. CASE DecodeUtf8(raw, p) # NoScalar
      BY <1>3, <3>2 DEF Classify
    <3> QED
      BY <3>1, <3>2
  <2>2. DecodeUtf8(sub, q) = DecodeUtf8(raw, p)
    BY <2>1, DecodeAlone
  <2> QED
    BY <1>0, <1>3, <2>2 DEF Classify
<1> QED
  BY <1>1, <1>2, <1>3

LEMMA NameAlone ==
  ASSUME NEW S, NEW raw \in Seq(S), NEW sub \in Seq(S), NEW i \in 1..Len(raw), Part(raw, i, sub),
         NEW q \in 1..Len(sub), NEW p \in 1..Len(raw), Same(i, q, p),
         q + WidthAt(raw, p) - 1 <= Len(sub)
  PROVE  NameAt(sub, q) = NameAt(raw, p) /\ WidthAt(sub, q) = WidthAt(raw, p)
<1> USE DEF Same
<1>0. sub[q] = raw[p]
  BY DEF Part
<1>1. CASE raw[p] \in Ascii
  BY <1>0, <1>1 DEF NameAt, WidthAt
<1>2. CASE raw[p] \notin Ascii
  <2>1. DecodeUtf8(sub, q) = DecodeUtf8(raw, p)
    BY <1>2, DecodeAlone DEF WidthAt
  <2> QED
    BY <1>0, <1>2, <2>1 DEF NameAt, WidthAt
<1> QED
  BY <1>1, <1>2

\* How far a run reaches.
LEMMA RunReach ==
  ASSUME NEW S, NEW raw \in Seq(S), NEW width, Fits(raw, width)
  PROVE  /\ \A j \in 1..(Len(raw) + 1) : Extend(raw, j, width) \in j..(Len(raw) + 1)
         /\ Extend(raw, Len(raw) + 1, width) = Len(raw) + 1
         /\ \A j \in 1..Len(raw) :
              /\ width[j] \in Nat /\ j + width[j] <= Len(raw) + 1
              /\ width[j] = 0 => Extend(raw, j, width) = j
              /\ width[j] # 0 => /\ Extend(raw, j, width) = Extend(raw, j + width[j], width)
                                 /\ j + width[j] <= Extend(raw, j, width)
<1>1. PICK n \in Nat : n = Len(raw)
  OBVIOUS
<1>2. PICK B : B = {}
  OBVIOUS
<1>a. \A j \in 1..Len(raw) : j \in B /\ width[j] # 0 =>
        j + width[j] \in B /\ \A p \in j..(j + width[j] - 1) : p \in B
  BY <1>2
<1>b. \A j \in 1..(Len(raw) + 1) : Extend(raw, j, width) \in j..(Len(raw) + 1)
  BY <1>a, RunContent
<1>3. \A j \in 1..(n + 1) : Extend(raw, j, width) \in j..(n + 1)
  BY <1>1, <1>b
<1>4. /\ Extend(raw, n + 1, width) = n + 1
      /\ \A j \in 1..n : Extend(raw, j, width) = IF width[j] = 0 THEN j ELSE Extend(raw, j + width[j], width)
  BY <1>1, RunSteps DEF Extend
<1>5. \A j \in 1..n : width[j] \in Nat /\ j + width[j] <= n + 1
  BY <1>1 DEF Fits
<1>6. ASSUME NEW j \in 1..n, width[j] # 0
      PROVE  /\ Extend(raw, j, width) = Extend(raw, j + width[j], width)
             /\ j + width[j] <= Extend(raw, j, width)
  <2>1. PICK k \in 1..(n + 1) : k = j + width[j]
    BY <1>5
  <2>2. Extend(raw, k, width) \in k..(n + 1)
    BY <1>3
  <2>3. Extend(raw, j, width) = Extend(raw, k, width)
    BY <1>4, <1>6, <2>1
  <2> QED
    BY <2>1, <2>2, <2>3
<1> QED
  BY <1>1, <1>3, <1>4, <1>5, <1>6

\* A step of a run that ends at t of the part; q and p are the same place.
Step(raw, i, width, t, q, p) ==
  /\ p = i + q - 1 /\ width[p] # 0 /\ q + width[p] <= t
  /\ Extend(raw, p + width[p], width) = i + t - 1

Runs(raw, i, width, t, q) == Extend(raw, i + q - 1, width) = i + t - 1

\* Such a run has the same steps in the part, and none at its end.
Agree(raw, i, sub, width, own, t) ==
  /\ Fits(raw, width) /\ Fits(sub, own)
  /\ t <= Len(sub) => own[t] = 0
  /\ \A q \in 1..Len(sub), p \in 1..Len(raw) : Step(raw, i, width, t, q, p) => own[q] = width[p]

\* A run in the document that ends within the part, or with it, is a run there
\* if its steps are steps there.
LEMMA RunAlone ==
  ASSUME NEW S, NEW raw \in Seq(S), NEW sub \in Seq(S), NEW i \in 1..Len(raw), Part(raw, i, sub),
         NEW width, NEW own, NEW t \in 1..(Len(sub) + 1), Agree(raw, i, sub, width, own, t),
         NEW q \in 1..t, Runs(raw, i, width, t, q)
  PROVE  Extend(sub, q, own) = t
<1>1. PICK n \in Nat : n = t - 1
  OBVIOUS
<1>2. Len(raw) \in Nat /\ Len(sub) \in Nat /\ i + Len(sub) - 1 <= Len(raw)
  BY DEF Part
<1>r. \A j \in 1..Len(raw) :
        /\ width[j] \in Nat /\ j + width[j] <= Len(raw) + 1
        /\ width[j] = 0 => Extend(raw, j, width) = j
        /\ width[j] # 0 => /\ Extend(raw, j, width) = Extend(raw, j + width[j], width)
                           /\ j + width[j] <= Extend(raw, j, width)
  BY RunReach DEF Agree
<1>s. /\ Extend(sub, Len(sub) + 1, own) = Len(sub) + 1
      /\ \A j \in 1..Len(sub) :
           /\ own[j] = 0 => Extend(sub, j, own) = j
           /\ own[j] # 0 => Extend(sub, j, own) = Extend(sub, j + own[j], own)
  BY RunReach DEF Agree
<1> DEFINE T == {r \in 1..(n + 1) : Extend(raw, i + r - 1, width) = i + t - 1 => Extend(sub, r, own) = t}
<1>3. n + 1 \in T
  <2>1. CASE t <= Len(sub)
    BY <1>1, <1>s, <2>1 DEF Agree
  <2>2. CASE ~(t <= Len(sub))
    <3>1. t = Len(sub) + 1
      BY <1>2, <2>2
    <3> QED
      BY <1>1, <1>s, <3>1
  <2> QED
    BY <2>1, <2>2
<1>4. ASSUME NEW r \in 1..n, \A k \in (r + 1)..(n + 1) : k \in T,
             Extend(raw, i + r - 1, width) = i + t - 1
      PROVE  Extend(sub, r, own) = t
  <2>1. PICK p \in 1..Len(raw) : p = i + r - 1
    BY <1>1, <1>2
  <2>2. r \in 1..Len(sub) /\ p < i + t - 1
    BY <1>1, <1>2, <2>1
  <2>3. width[p] \in Nat /\ p + width[p] <= Len(raw) + 1 /\ width[p] # 0
    BY <1>4, <1>r, <2>1, <2>2
  <2>4. PICK w \in Nat : w = width[p] /\ w > 0
    BY <2>3
  <2>5. Extend(raw, p + w, width) = i + t - 1 /\ p + w <= i + t - 1
    BY <1>4, <1>r, <2>1, <2>3, <2>4
  <2>6. PICK k \in (r + 1)..(n + 1) : k = r + w /\ i + k - 1 = p + w
    <3>1. r + w <= n + 1 /\ r + w >= r + 1
      BY <1>1, <2>1, <2>4, <2>5, SMTT(30)
    <3>2. i + (r + w) - 1 = p + w
      BY <2>1, <2>4, SMTT(30)
    <3> QED
      BY <3>1, <3>2
  <2>7. own[r] = w
    <3>1. r + w <= t
      BY <1>1, <2>6
    <3> QED
      BY <2>1, <2>2, <2>3, <2>4, <2>5, <3>1 DEF Agree, Step
  <2>8. Extend(sub, k, own) = t
    BY <1>4, <2>5, <2>6
  <2> QED
    <3>1. own[r] # 0 /\ r + own[r] = k
      BY <2>4, <2>6, <2>7
    <3> QED
      BY <1>s, <2>2, <2>8, <3>1
<1>5. \A r \in 1..n : (\A k \in (r + 1)..(n + 1) : k \in T) => r \in T
  BY <1>4
<1> HIDE DEF T
<1>6. 1..(n + 1) \subseteq T
  BY <1>3, <1>5, Downward
<1> QED
  BY <1>1, <1>6 DEF T, Runs

\* The widths of the four kinds of runs are the same in a part.  q and p are
\* the same place, and what starts there ends in the part.
LEMMA KindAlone ==
  ASSUME NEW S, NEW raw \in Seq(S), NEW sub \in Seq(S), NEW i \in 1..Len(raw), Part(raw, i, sub),
         NEW kind, NEW q \in 1..Len(sub), NEW p \in 1..Len(raw), Same(i, q, p),
         KindWidths(raw, kind)[p] # 0, q + KindWidths(raw, kind)[p] <= Len(sub) + 1
  PROVE  KindWidths(sub, kind)[q] = KindWidths(raw, kind)[p]
<1> USE DEF Same
<1>1. DOMAIN raw = 1..Len(raw) /\ DOMAIN sub = 1..Len(sub) /\ Len(sub) \in Nat
  OBVIOUS
<1>2. /\ KindWidths(raw, kind)[p] =
           IF Classify(raw, p).kind = kind THEN Classify(raw, p).width ELSE 0
      /\ KindWidths(sub, kind)[q] =
           IF Classify(sub, q).kind = kind THEN Classify(sub, q).width ELSE 0
  BY <1>1 DEF KindWidths
<1>3. PICK w \in 1..4 : w = Classify(raw, p).width
  BY Classified
<1>4. q + w - 1 <= Len(sub) /\ Classify(raw, p).kind = kind
  BY <1>1, <1>2, <1>3
<1>5. Classify(sub, q) = Classify(raw, p)
  BY <1>3, <1>4, ClassifyAlone
<1> QED
  BY <1>2, <1>5

LEMMA JoinerWidth ==
  ASSUME NEW raw, NEW p, NameAt(raw, p) = "joiner"
  PROVE  Classify(raw, p).width = WidthAt(raw, p)
<1>1. "joiner" \notin Ascii
  BY DEF Ascii, Letters, LowerLetters, UpperLetters, Digits, Blanks, Controls,
         AsciiPunctuation, AsciiSymbols
<1>2. raw[p] \notin Ascii
  BY <1>1 DEF NameAt
<1>3. DecodeUtf8(raw, p) # NoScalar
  BY <1>2 DEF NameAt, NoScalar
<1> QED
  BY <1>2, <1>3 DEF Classify, WidthAt

LEMMA SymbolAlone ==
  ASSUME NEW S, NEW raw \in Seq(S), NEW sub \in Seq(S), NEW i \in 1..Len(raw), Part(raw, i, sub),
         NEW q \in 1..Len(sub), NEW p \in 1..Len(raw), Same(i, q, p),
         SymbolWidths(raw)[p] # 0, q + SymbolWidths(raw)[p] <= Len(sub) + 1
  PROVE  SymbolWidths(sub)[q] = SymbolWidths(raw)[p]
<1> USE DEF Same
<1>1. /\ DOMAIN raw = 1..Len(raw) /\ DOMAIN sub = 1..Len(sub) /\ Len(sub) \in Nat /\ Len(raw) \in Nat
      /\ i + Len(sub) - 1 <= Len(raw)
  BY DEF Part
<1>2. SymbolWidths(raw)[p] =
        IF Classify(raw, p).kind = "Symbol" THEN Classify(raw, p).width
        ELSE IF /\ NameAt(raw, p) = "joiner" /\ p + Classify(raw, p).width <= Len(raw)
                /\ KindAt(raw, p + Classify(raw, p).width) = "Symbol"
        THEN Classify(raw, p).width + Classify(raw, p + Classify(raw, p).width).width ELSE 0
  BY <1>1 DEF SymbolWidths
<1>3. SymbolWidths(sub)[q] =
        IF Classify(sub, q).kind = "Symbol" THEN Classify(sub, q).width
        ELSE IF /\ NameAt(sub, q) = "joiner" /\ q + Classify(sub, q).width <= Len(sub)
                /\ KindAt(sub, q + Classify(sub, q).width) = "Symbol"
        THEN Classify(sub, q).width + Classify(sub, q + Classify(sub, q).width).width ELSE 0
  BY <1>1 DEF SymbolWidths
<1>4. PICK w \in 1..4 : w = Classify(raw, p).width /\ p + w - 1 <= Len(raw)
  BY Classified
<1>5. CASE Classify(raw, p).kind = "Symbol"
  <2>1. q + w - 1 <= Len(sub)
    BY <1>1, <1>2, <1>4, <1>5
  <2>2. Classify(sub, q) = Classify(raw, p)
    BY <1>4, <2>1, ClassifyAlone
  <2> QED
    BY <1>2, <1>3, <1>5, <2>2
<1>6. CASE Classify(raw, p).kind # "Symbol"
  <2>1. /\ NameAt(raw, p) = "joiner" /\ p + w <= Len(raw)
        /\ KindAt(raw, p + w) = "Symbol"
        /\ SymbolWidths(raw)[p] = w + Classify(raw, p + w).width
    BY <1>2, <1>4, <1>6
  <2>2. PICK k \in 1..Len(raw) : k = p + w
    BY <1>1, <2>1
  <2>3. PICK v \in 1..4 : v = Classify(raw, k).width
    BY Classified
  <2>4. SymbolWidths(raw)[p] = w + v /\ KindAt(raw, k) = "Symbol"
    BY <2>1, <2>2, <2>3
  <2>5. q + (w + v) <= Len(sub) + 1
    BY <2>4
  <2>6. PICK l \in 1..Len(sub) : l = q + w
    BY <1>1, <2>5
  <2>7. k = i + l - 1 /\ q + w - 1 <= Len(sub) /\ l + v - 1 <= Len(sub)
    BY <1>1, <2>2, <2>5, <2>6
  <2>8. Classify(sub, q) = Classify(raw, p)
    BY <1>4, <2>7, ClassifyAlone
  <2>9. Classify(sub, l) = Classify(raw, k)
    BY <2>3, <2>7, ClassifyAlone
  <2>10. NameAt(sub, q) = "joiner"
    <3>1. WidthAt(raw, p) = w
      BY <1>4, <2>1, JoinerWidth
    <3> QED
      BY <2>1, <2>7, <3>1, NameAlone, SMTT(30)
  <2> QED
    <3>1. Classify(sub, q).kind # "Symbol" /\ Classify(sub, q).width = w
      BY <1>4, <1>6, <2>8
    <3>2. KindAt(sub, l) = "Symbol" /\ Classify(sub, l).width = v
      BY <2>3, <2>4, <2>9 DEF KindAt
    <3>3. q + Classify(sub, q).width = l
      BY <2>6, <3>1
    <3>4. SymbolWidths(sub)[q] = Classify(sub, q).width + Classify(sub, l).width
      BY <1>3, <2>10, <3>1, <3>2, <3>3, SMTT(30)
    <3> QED
      BY <2>4, <3>1, <3>2, <3>4
<1> QED
  BY <1>5, <1>6

\* A letter or digit that ends within the part is one there.
LEMMA LetterAlone ==
  ASSUME NEW S, NEW raw \in Seq(S), NEW sub \in Seq(S), NEW i \in 1..Len(raw), Part(raw, i, sub),
         NEW q \in 1..Len(sub), NEW p \in 1..Len(raw), Same(i, q, p),
         KindAt(raw, p) \in {"Word", "Number"}, q + WidthAt(raw, p) <= Len(sub) + 1
  PROVE  KindAt(sub, q) = KindAt(raw, p)
<1> USE DEF Same
<1>1. PICK w \in 1..4 : w = WidthAt(raw, p) /\ w = Classify(raw, p).width
  BY WordWidth, Classified
<1>2. q + w - 1 <= Len(sub)
  BY <1>1
<1>3. q + Classify(raw, p).width - 1 <= Len(sub)
  BY <1>1, <1>2
<1>4. Classify(sub, q) = Classify(raw, p)
  BY <1>3, ClassifyAlone
<1> QED
  BY <1>4 DEF KindAt

\* A place as wide as its name, with a word or number behind it that the run
\* goes on through.
LEMMA WordAlone ==
  ASSUME NEW S, NEW raw \in Seq(S), NEW sub \in Seq(S), NEW i \in 1..Len(raw), Part(raw, i, sub),
         NEW t \in 1..(Len(sub) + 1), NEW q \in 1..Len(sub), NEW p \in 1..Len(raw),
         Step(raw, i, WordWidths(raw), t, q, p)
  PROVE  WordWidths(sub)[q] = WordWidths(raw)[p]
<1> USE DEF Same
<1>1. /\ DOMAIN raw = 1..Len(raw) /\ DOMAIN sub = 1..Len(sub) /\ Len(sub) \in Nat /\ Len(raw) \in Nat
      /\ i + Len(sub) - 1 <= Len(raw)
  BY DEF Part
<1>2. \A j \in 1..Len(raw) : WordWidths(raw)[j] =
        IF IsWordAt(raw, j) \/ IsNumberAt(raw, j) THEN WidthAt(raw, j)
        ELSE IF NameAt(raw, j) \in WordConnectors
                  /\ (IsWordAt(raw, j + WidthAt(raw, j)) \/ IsNumberAt(raw, j + WidthAt(raw, j)))
        THEN WidthAt(raw, j) ELSE 0
  BY <1>1 DEF WordWidths
<1>3. WordWidths(sub)[q] =
        IF IsWordAt(sub, q) \/ IsNumberAt(sub, q) THEN WidthAt(sub, q)
        ELSE IF NameAt(sub, q) \in WordConnectors
                  /\ (IsWordAt(sub, q + WidthAt(sub, q)) \/ IsNumberAt(sub, q + WidthAt(sub, q)))
        THEN WidthAt(sub, q) ELSE 0
  BY <1>1 DEF WordWidths
<1>4. WordWidths(raw)[p] = WidthAt(raw, p) /\ p = i + q - 1
  BY <1>2 DEF Step
<1>5. PICK w \in Nat : w = WidthAt(raw, p)
  <2>1. WordWidths(raw)[p] \in Nat
    BY WordRuns, RunReach DEF Within
  <2> QED
    BY <1>4, <2>1
<1>6. w # 0 /\ q + w <= t /\ Extend(raw, p + w, WordWidths(raw)) = i + t - 1
  BY <1>4, <1>5 DEF Step
<1>7. NameAt(sub, q) = NameAt(raw, p) /\ WidthAt(sub, q) = w
  <2>1. q + WidthAt(raw, p) - 1 <= Len(sub)
    BY <1>1, <1>5, <1>6, SMTT(30)
  <2> QED
    BY <1>4, <1>5, <2>1, NameAlone
<1>8. CASE IsWordAt(raw, p) \/ IsNumberAt(raw, p)
  <2>1. KindAt(raw, p) \in {"Word", "Number"} /\ q + WidthAt(raw, p) <= Len(sub) + 1
    BY <1>1, <1>5, <1>6, <1>8 DEF IsWordAt, IsNumberAt
  <2>2. KindAt(sub, q) \in {"Word", "Number"}
    BY <1>4, <2>1, LetterAlone
  <2>3. IsWordAt(sub, q) \/ IsNumberAt(sub, q)
    BY <1>1, <2>2 DEF IsWordAt, IsNumberAt
  <2> QED
    BY <1>3, <1>4, <1>5, <1>7, <2>3
<1>9. CASE ~(IsWordAt(raw, p) \/ IsNumberAt(raw, p))
  <2>1. NameAt(raw, p) \in WordConnectors /\ (IsWordAt(raw, p + w) \/ IsNumberAt(raw, p + w))
    BY <1>2, <1>4, <1>5, <1>6, <1>9
  <2>2. PICK k \in 1..Len(raw) : k = p + w /\ KindAt(raw, k) \in {"Word", "Number"}
    BY <1>1, <2>1 DEF IsWordAt, IsNumberAt
  <2>3. PICK v \in 1..4 : v = WidthAt(raw, k)
    BY <2>2, WordWidth, Classified
  <2>4. WordWidths(raw)[k] = v
    BY <1>2, <2>2, <2>3 DEF IsWordAt, IsNumberAt
  <2>5. k + v <= i + t - 1
    <3>1. Fits(raw, WordWidths(raw))
      BY WordRuns DEF Within
    <3>2. WordWidths(raw)[k] # 0 => k + WordWidths(raw)[k] <= Extend(raw, k, WordWidths(raw))
      BY <3>1, RunReach
    <3> QED
      BY <1>6, <2>2, <2>3, <2>4, <3>2
  <2>6. PICK l \in 1..Len(sub) : l = q + w /\ k = i + l - 1 /\ l + v <= Len(sub) + 1
    BY <1>1, <1>4, <2>2, <2>5
  <2>7. KindAt(sub, l) = KindAt(raw, k)
    <3>1. k = i + l - 1 /\ KindAt(raw, k) \in {"Word", "Number"} /\ l + WidthAt(raw, k) <= Len(sub) + 1
      BY <2>2, <2>3, <2>6
    <3> QED
      BY <3>1, LetterAlone
  <2>8. IsWordAt(sub, q + w) \/ IsNumberAt(sub, q + w)
    BY <1>1, <2>2, <2>6, <2>7 DEF IsWordAt, IsNumberAt
  <2> QED
    BY <1>3, <1>4, <1>5, <1>7, <2>1, <2>8
<1> QED
  BY <1>8, <1>9

LEMMA NumberAlone ==
  ASSUME NEW S, NEW raw \in Seq(S), NEW sub \in Seq(S), NEW i \in 1..Len(raw), Part(raw, i, sub),
         NEW t \in 1..(Len(sub) + 1), NEW q \in 1..Len(sub), NEW p \in 1..Len(raw),
         Step(raw, i, NumberWidths(raw), t, q, p)
  PROVE  NumberWidths(sub)[q] = NumberWidths(raw)[p]
<1> USE DEF Same
<1>1. /\ DOMAIN raw = 1..Len(raw) /\ DOMAIN sub = 1..Len(sub) /\ Len(sub) \in Nat /\ Len(raw) \in Nat
      /\ i + Len(sub) - 1 <= Len(raw)
  BY DEF Part
<1>2. \A j \in 1..Len(raw) : NumberWidths(raw)[j] =
        IF IsNumberAt(raw, j) THEN WidthAt(raw, j)
        ELSE IF NameAt(raw, j) \in NumberSeparators /\ IsNumberAt(raw, j + WidthAt(raw, j))
        THEN WidthAt(raw, j) ELSE 0
  BY <1>1 DEF NumberWidths
<1>3. NumberWidths(sub)[q] =
        IF IsNumberAt(sub, q) THEN WidthAt(sub, q)
        ELSE IF NameAt(sub, q) \in NumberSeparators /\ IsNumberAt(sub, q + WidthAt(sub, q))
        THEN WidthAt(sub, q) ELSE 0
  BY <1>1 DEF NumberWidths
<1>4. NumberWidths(raw)[p] = WidthAt(raw, p) /\ p = i + q - 1
  BY <1>2 DEF Step
<1>5. PICK w \in Nat : w = WidthAt(raw, p)
  <2>1. NumberWidths(raw)[p] \in Nat
    BY WordRuns, RunReach DEF Within
  <2> QED
    BY <1>4, <2>1
<1>6. w # 0 /\ q + w <= t /\ Extend(raw, p + w, NumberWidths(raw)) = i + t - 1
  BY <1>4, <1>5 DEF Step
<1>7. NameAt(sub, q) = NameAt(raw, p) /\ WidthAt(sub, q) = w
  <2>1. q + WidthAt(raw, p) - 1 <= Len(sub)
    BY <1>1, <1>5, <1>6, SMTT(30)
  <2> QED
    BY <1>4, <1>5, <2>1, NameAlone
<1>8. CASE IsNumberAt(raw, p)
  <2>1. KindAt(raw, p) \in {"Word", "Number"} /\ q + WidthAt(raw, p) <= Len(sub) + 1
    BY <1>1, <1>5, <1>6, <1>8 DEF IsNumberAt
  <2>2. KindAt(sub, q) = KindAt(raw, p)
    BY <1>4, <2>1, LetterAlone
  <2>3. IsNumberAt(sub, q)
    BY <1>1, <1>8, <2>2 DEF IsNumberAt
  <2> QED
    BY <1>3, <1>4, <1>5, <1>7, <2>3
<1>9. CASE ~IsNumberAt(raw, p)
  <2>1. NameAt(raw, p) \in NumberSeparators /\ IsNumberAt(raw, p + w)
    BY <1>2, <1>4, <1>5, <1>6, <1>9
  <2>2. PICK k \in 1..Len(raw) : k = p + w /\ KindAt(raw, k) = "Number"
    BY <1>1, <2>1 DEF IsNumberAt
  <2>3. PICK v \in 1..4 : v = WidthAt(raw, k)
    BY <2>2, WordWidth, Classified
  <2>4. NumberWidths(raw)[k] = v
    BY <1>2, <2>2, <2>3 DEF IsNumberAt
  <2>5. k + v <= i + t - 1
    <3>1. Fits(raw, NumberWidths(raw))
      BY WordRuns DEF Within
    <3>2. NumberWidths(raw)[k] # 0 => k + NumberWidths(raw)[k] <= Extend(raw, k, NumberWidths(raw))
      BY <3>1, RunReach
    <3> QED
      BY <1>6, <2>2, <2>3, <2>4, <3>2
  <2>6. PICK l \in 1..Len(sub) : l = q + w /\ k = i + l - 1 /\ l + v <= Len(sub) + 1
    BY <1>1, <1>4, <2>2, <2>5
  <2>7. KindAt(sub, l) = KindAt(raw, k)
    <3>1. k = i + l - 1 /\ KindAt(raw, k) \in {"Word", "Number"} /\ l + WidthAt(raw, k) <= Len(sub) + 1
      BY <2>2, <2>3, <2>6
    <3> QED
      BY <3>1, LetterAlone
  <2>8. IsNumberAt(sub, q + w)
    BY <1>1, <2>2, <2>6, <2>7 DEF IsNumberAt
  <2> QED
    BY <1>3, <1>4, <1>5, <1>7, <2>1, <2>8
<1> QED
  BY <1>8, <1>9

\* The only number among the scalars.
LEMMA ScalarNumber ==
  ASSUME NEW s \in Scalars
  PROVE  s.kind = "Number" => s.name = "arabic three"
<1>1. CASE s = [bytes |-> <<"C3", "BC">>, kind |-> "Word", name |-> "u umlaut"]
  BY <1>1
<1>2. CASE s = [bytes |-> <<"CC", "87">>, kind |-> "Word", name |-> "combining dot"]
  BY <1>2
<1>3. CASE s = [bytes |-> <<"D9", "A3">>, kind |-> "Number", name |-> "arabic three"]
  BY <1>3
<1>4. CASE s = [bytes |-> <<"D9", "AB">>, kind |-> "Symbol", name |-> "decimal separator"]
  BY <1>4
<1>5. CASE s = [bytes |-> <<"E2", "80", "99">>, kind |-> "Punctuation", name |-> "quote"]
  BY <1>5
<1>6. CASE s = [bytes |-> <<"E2", "80", "90">>, kind |-> "Punctuation", name |-> "hyphen"]
  BY <1>6
<1>7. CASE s = [bytes |-> <<"E2", "80", "8D">>, kind |-> "Punctuation", name |-> "joiner"]
  BY <1>7
<1>8. CASE s = [bytes |-> <<"E2", "80", "A8">>, kind |-> "LineBreak", name |-> "line separator"]
  BY <1>8
<1>9. CASE s = [bytes |-> <<"C2", "A0">>, kind |-> "Whitespace", name |-> "no-break space"]
  BY <1>9
<1>10. CASE s = [bytes |-> <<"C2", "80">>, kind |-> "Control", name |-> "control"]
  BY <1>10
<1>11. CASE s = [bytes |-> <<"F0", "9F", "98", "80">>, kind |-> "Symbol", name |-> "smiley"]
  BY <1>11
<1> QED
  BY <1>1, <1>2, <1>3, <1>4, <1>5, <1>6, <1>7, <1>8, <1>9, <1>10, <1>11 DEF Scalars

\* An apostrophe is no digit.
LEMMA ApostropheClass ==
  ASSUME NEW S, NEW raw \in Seq(S), NEW p \in 1..Len(raw), NameAt(raw, p) \in {"'", "quote"}
  PROVE  KindAt(raw, p) # "Number"
<1>1. CASE raw[p] \in Ascii
  <2>1. "quote" \notin Ascii /\ "'" \notin Digits /\ "'" \in AsciiPunctuation
    BY DEF Ascii, Letters, LowerLetters, UpperLetters, Digits, Blanks, Controls,
           AsciiPunctuation, AsciiSymbols
  <2>2. raw[p] = "'"
    BY <1>1, <2>1 DEF NameAt
  <2>3. ClassifyAscii(raw, p).kind # "Number"
    BY <2>1, <2>2 DEF ClassifyAscii
  <2> QED
    BY <1>1, <2>3 DEF KindAt, Classify
<1>2. CASE raw[p] \notin Ascii
  <2>1. CASE DecodeUtf8(raw, p) = NoScalar
    BY <1>2, <2>1 DEF KindAt, Classify
  <2>2. CASE DecodeUtf8(raw, p) # NoScalar
    <3>1. PICK s \in Scalars : s = DecodeUtf8(raw, p)
      BY <2>2, Decoding
    <3>2. s.name \in {"'", "quote"}
      BY <1>2, <3>1 DEF NameAt
    <3>3. s.kind # "Number"
      BY <3>2, ScalarNumber
    <3> QED
      BY <1>2, <2>2, <3>1, <3>3 DEF KindAt, Classify
  <2> QED
    BY <2>1, <2>2
<1> QED
  BY <1>1, <1>2

\* A run of each kind that ends where the part ends reaches the part's end.
LEMMA KindRunAlone ==
  ASSUME NEW S, NEW raw \in Seq(S), NEW sub \in Seq(S), NEW i \in 1..Len(raw), Part(raw, i, sub),
         NEW t \in 1..(Len(sub) + 1), t = Len(sub) + 1, NEW q \in 1..t, NEW p \in Nat, Same(i, q, p), NEW kind,
         ConsumeKind(raw, p, kind) = i + t - 1
  PROVE  ConsumeKind(sub, q, kind) = t
<1>1. Len(sub) \in Nat /\ ~(t <= Len(sub))
  OBVIOUS
<1>2. Fits(raw, KindWidths(raw, kind)) /\ Fits(sub, KindWidths(sub, kind))
  BY KindRun DEF Within
<1>3. ASSUME NEW r \in 1..Len(sub), NEW k \in 1..Len(raw), Step(raw, i, KindWidths(raw, kind), t, r, k)
      PROVE  KindWidths(sub, kind)[r] = KindWidths(raw, kind)[k]
  BY <1>3, KindAlone DEF Step, Same
<1>4. Agree(raw, i, sub, KindWidths(raw, kind), KindWidths(sub, kind), t)
  BY <1>1, <1>2, <1>3 DEF Agree
<1>5. Runs(raw, i, KindWidths(raw, kind), t, q)
  BY DEF ConsumeKind, Runs, Same
<1>6. Extend(sub, q, KindWidths(sub, kind)) = t
  BY <1>4, <1>5, RunAlone
<1> QED
  BY <1>6 DEF ConsumeKind

LEMMA SymbolRunAlone ==
  ASSUME NEW S, NEW raw \in Seq(S), NEW sub \in Seq(S), NEW i \in 1..Len(raw), Part(raw, i, sub),
         NEW t \in 1..(Len(sub) + 1), t = Len(sub) + 1, NEW q \in 1..t, NEW p \in Nat, Same(i, q, p),
         ConsumeSymbols(raw, p) = i + t - 1
  PROVE  ConsumeSymbols(sub, q) = t
<1>1. Len(sub) \in Nat /\ ~(t <= Len(sub))
  OBVIOUS
<1>2. Fits(raw, SymbolWidths(raw)) /\ Fits(sub, SymbolWidths(sub))
  BY SymbolRun DEF Within
<1>3. ASSUME NEW r \in 1..Len(sub), NEW k \in 1..Len(raw), Step(raw, i, SymbolWidths(raw), t, r, k)
      PROVE  SymbolWidths(sub)[r] = SymbolWidths(raw)[k]
  BY <1>3, SymbolAlone DEF Step, Same
<1>4. Agree(raw, i, sub, SymbolWidths(raw), SymbolWidths(sub), t)
  BY <1>1, <1>2, <1>3 DEF Agree
<1>5. Runs(raw, i, SymbolWidths(raw), t, q)
  BY DEF ConsumeSymbols, Runs, Same
<1>6. Extend(sub, q, SymbolWidths(sub)) = t
  BY <1>4, <1>5, RunAlone
<1> QED
  BY <1>6 DEF ConsumeSymbols

LEMMA WordRunAlone ==
  ASSUME NEW S, NEW raw \in Seq(S), NEW sub \in Seq(S), NEW i \in 1..Len(raw), Part(raw, i, sub),
         NEW t \in 1..(Len(sub) + 1), t = Len(sub) + 1, NEW q \in 1..t, NEW p \in Nat, Same(i, q, p),
         ConsumeWord(raw, p) = i + t - 1
  PROVE  ConsumeWord(sub, q) = t
<1>1. Len(sub) \in Nat /\ ~(t <= Len(sub))
  OBVIOUS
<1>2. Fits(raw, WordWidths(raw)) /\ Fits(sub, WordWidths(sub))
  BY WordRuns DEF Within
<1>3. ASSUME NEW r \in 1..Len(sub), NEW k \in 1..Len(raw), Step(raw, i, WordWidths(raw), t, r, k)
      PROVE  WordWidths(sub)[r] = WordWidths(raw)[k]
  BY <1>3, WordAlone
<1>4. Agree(raw, i, sub, WordWidths(raw), WordWidths(sub), t)
  BY <1>1, <1>2, <1>3 DEF Agree
<1>5. Runs(raw, i, WordWidths(raw), t, q)
  BY DEF ConsumeWord, Runs, Same
<1>6. Extend(sub, q, WordWidths(sub)) = t
  BY <1>4, <1>5, RunAlone
<1> QED
  BY <1>6 DEF ConsumeWord

\* A number that ends with the part ends there, also where an apostrophe turns
\* it into a word.
LEMMA NumbersAlone ==
  ASSUME NEW S, NEW raw \in Seq(S), NEW sub \in Seq(S), NEW i \in 1..Len(raw), Part(raw, i, sub),
         NEW t \in 1..(Len(sub) + 1), t = Len(sub) + 1, NEW q \in 1..t, NEW p \in Nat, Same(i, q, p),
         ConsumeNumber(raw, p) = i + t - 1
  PROVE  ConsumeNumber(sub, q) = t
<1>1. /\ Len(sub) \in Nat /\ ~(t <= Len(sub)) /\ Len(raw) \in Nat /\ i + Len(sub) - 1 <= Len(raw)
      /\ DOMAIN raw = 1..Len(raw) /\ DOMAIN sub = 1..Len(sub)
      /\ p \in 1..(Len(raw) + 1) /\ p = i + q - 1
  BY DEF Part, Same
<1>2. /\ Within(raw, NumberWidths(raw), "Word") /\ Within(raw, WordWidths(raw), "Word")
      /\ Fits(raw, NumberWidths(raw)) /\ Fits(sub, NumberWidths(sub)) /\ Fits(raw, WordWidths(raw))
  BY WordRuns DEF Within
<1>3. PICK e \in p..(Len(raw) + 1) : e = Extend(raw, p, NumberWidths(raw))
  BY <1>1, <1>2, RunReach
<1>4. ASSUME NEW u \in 1..(Len(sub) + 1), e = i + u - 1, q <= u,
             u <= Len(sub) => NumberWidths(sub)[u] = 0
      PROVE  Extend(sub, q, NumberWidths(sub)) = u
  <2>1. ASSUME NEW r \in 1..Len(sub), NEW k \in 1..Len(raw), Step(raw, i, NumberWidths(raw), u, r, k)
        PROVE  NumberWidths(sub)[r] = NumberWidths(raw)[k]
    BY <2>1, NumberAlone
  <2>2. Agree(raw, i, sub, NumberWidths(raw), NumberWidths(sub), u)
    BY <1>2, <1>4, <2>1 DEF Agree
  <2>3. Runs(raw, i, NumberWidths(raw), u, q)
    BY <1>1, <1>3, <1>4 DEF Runs
  <2>4. q \in 1..u
    BY <1>4
  <2> QED
    BY <2>2, <2>3, <2>4, RunAlone
<1>5. CASE ~Turns(raw, e)
  <2>1. e = i + t - 1
    BY <1>3, <1>5 DEF ConsumeNumber, Turns
  <2>2. Extend(sub, q, NumberWidths(sub)) = t
    BY <1>1, <1>4, <2>1
  <2> QED
    BY <1>1, <2>2 DEF ConsumeNumber
<1>6. CASE Turns(raw, e)
  <2>1. e \in 1..Len(raw) /\ NameAt(raw, e) \in {"'", "quote"} /\ NameAt(raw, e) # "none"
    BY <1>1, <1>6 DEF Turns
  <2>2. PICK w \in 1..4 : w = WidthAt(raw, e) /\ e + w - 1 <= Len(raw)
    BY <2>1, NameStep
  <2>3. PICK k \in 1..Len(raw) : k = e + w /\ KindAt(raw, k) = "Word"
    BY <1>1, <1>6, <2>1, <2>2, SMTT(30) DEF Turns, IsWordAt
  <2>4. ConsumeWord(raw, k) = i + t - 1
    BY <1>3, <1>6, <2>2, <2>3 DEF ConsumeNumber, Turns
  <2>5. PICK v \in 1..4 : v = WidthAt(raw, k)
    BY <2>3, WordWidth, Classified
  <2>6. k + v <= i + t - 1
    <3>1. WordWidths(raw)[k] = v
      BY <1>1, <2>3, <2>5 DEF WordWidths, IsWordAt
    <3>2. WordWidths(raw)[k] # 0 => k + WordWidths(raw)[k] <= Extend(raw, k, WordWidths(raw))
      BY <1>2, RunReach
    <3> QED
      BY <2>4, <2>5, <3>1, <3>2 DEF ConsumeWord
  <2>7. PICK u \in 1..Len(sub) : e = i + u - 1 /\ q <= u /\ u + w - 1 <= Len(sub)
    <3>a. e + w <= i + Len(sub)
      BY <1>1, <2>3, <2>5, <2>6, SMTT(30)
    <3>b. e >= i + q - 1
      BY <1>1, <1>3
    <3>1. e + w <= i + Len(sub) /\ e >= i + q - 1
      BY <3>a, <3>b
    <3>2. PICK u \in Int : u = e - i + 1
      OBVIOUS
    <3>3. e = i + u - 1 /\ q <= u /\ u + w - 1 <= Len(sub) /\ u \in 1..Len(sub)
      BY <1>1, <3>1, <3>2
    <3> QED
      BY <3>3
  <2>8. PICK l \in 1..Len(sub) : l = u + w /\ k = i + l - 1 /\ l + v <= Len(sub) + 1
    <3>1. PICK l \in Nat : l = u + w
      OBVIOUS
    <3>2. k = i + l - 1
      BY <2>3, <2>7, <3>1
    <3>3. l + v <= Len(sub) + 1
      BY <1>1, <2>6, <3>2
    <3> QED
      BY <1>1, <3>1, <3>2, <3>3, SMTT(30)
  <2>9. NameAt(sub, u) \in {"'", "quote"} /\ WidthAt(sub, u) = w
    <3>1. Same(i, u, e)
      BY <2>7 DEF Same
    <3>2. u + WidthAt(raw, e) - 1 <= Len(sub)
      BY <2>2, <2>7
    <3> QED
      BY <2>1, <2>2, <3>1, <3>2, NameAlone, SMTT(30)
  <2>10. NumberWidths(sub)[u] = 0
    <3>1. ~IsNumberAt(sub, u)
      BY <2>9, ApostropheClass DEF IsNumberAt
    <3>2. NameAt(sub, u) \notin NumberSeparators
      BY <2>9 DEF NumberSeparators
    <3> QED
      BY <1>1, <3>1, <3>2 DEF NumberWidths
  <2>11. Extend(sub, q, NumberWidths(sub)) = u
    BY <1>1, <1>4, <2>7, <2>10
  <2>12. KindAt(sub, l) = "Word"
    <3>1. KindAt(raw, k) \in {"Word", "Number"} /\ l + WidthAt(raw, k) <= Len(sub) + 1
      BY <2>3, <2>5, <2>8
    <3>2. Same(i, l, k)
      BY <2>8 DEF Same
    <3> QED
      BY <2>3, <3>1, <3>2, LetterAlone
  <2>13. ConsumeWord(sub, l) = t
    <3>1. Same(i, l, k) /\ l \in 1..t /\ k \in Nat
      BY <2>8 DEF Same
    <3> QED
      BY <2>4, <3>1, WordRunAlone
  <2>14. Turns(sub, u)
    BY <1>1, <2>7, <2>8, <2>9, <2>12 DEF Turns, IsWordAt
  <2> QED
    BY <2>8, <2>9, <2>11, <2>13, <2>14 DEF ConsumeNumber, Turns
<1> QED
  BY <1>5, <1>6

\* A unit that is scanned on its own is the same unit again.
LEMMA UnitAlone ==
  ASSUME NEW S, NEW raw \in Seq(S), NEW i \in 1..Len(raw)
  PROVE  LET sub == SubSeq(raw, i, UnitAt(raw, i).end - 1)
         IN /\ UnitAt(sub, 1).kind = UnitAt(raw, i).kind
            /\ UnitAt(sub, 1).end = Len(sub) + 1
<1>1. PICK e \in (i + 1)..(Len(raw) + 1) : e = UnitAt(raw, i).end
  BY UnitShape
<1>2. PICK sub \in Seq(S) : /\ sub = SubSeq(raw, i, e - 1)
                            /\ Len(sub) = e - i /\ Part(raw, i, sub)
  BY SubSeqIsPart
<1>a. Len(sub) = e - i /\ Part(raw, i, sub)
  BY <1>2
<1>3. PICK t \in 1..(Len(sub) + 1) : t = Len(sub) + 1 /\ e = i + t - 1
  BY <1>2
<1>4. /\ Len(sub) \in Nat \ {0} /\ Len(raw) \in Nat /\ i + Len(sub) - 1 <= Len(raw)
  BY <1>2 DEF Part
<1>5. PICK w \in 1..4 : w = Classify(raw, i).width /\ i + w - 1 <= Len(raw)
  BY Classified
<1>6. PICK kind : kind = Classify(raw, i).kind
  OBVIOUS
<1>7. /\ UnitAt(raw, i).kind = kind
      /\ kind = "Word" => e = ConsumeWord(raw, i + w)
      /\ kind = "Number" => e = ConsumeNumber(raw, i + w)
      /\ kind = "Symbol" => e = ConsumeSymbols(raw, i + w)
      /\ kind \notin {"Word", "Number", "Symbol"} => e = ConsumeKind(raw, i + w, kind)
  BY <1>1, <1>5, <1>6 DEF UnitAt
<1>8. PICK p \in 1..(Len(raw) + 1) : p = i + w
  BY <1>4, <1>5, SMTT(30)
<1>9. p <= e
  <2>1. Within(raw, KindWidths(raw, kind), kind)
    BY KindRun
  <2>2. /\ ConsumeWord(raw, p) \in p..(Len(raw) + 1)
        /\ ConsumeSymbols(raw, p) \in p..(Len(raw) + 1)
        /\ ConsumeKind(raw, p, kind) \in p..(Len(raw) + 1)
    BY <2>1, SymbolRun, WordRuns, WithinRun DEF ConsumeWord, ConsumeSymbols, ConsumeKind
  <2>3. ConsumeNumber(raw, p) \in p..(Len(raw) + 1)
    BY NumberEnd
  <2>4. e \in p..(Len(raw) + 1)
    BY <1>7, <1>8, <2>2, <2>3
  <2> QED
    BY <2>4
<1>10. PICK q \in 1..t : q = 1 + w /\ Same(i, q, p)
  <2>1. 1 + w \in 1..t /\ p = i + (1 + w) - 1
    BY <1>3, <1>8, <1>9
  <2> QED
    BY <2>1 DEF Same
<1>11. Classify(sub, 1) = Classify(raw, i)
  <2>1. 1 + w - 1 <= Len(sub) /\ i = i + 1 - 1 /\ 1 \in 1..Len(sub)
    BY <1>3, <1>4, <1>10
  <2>2. PICK one \in 1..Len(sub) : one = 1
    BY <2>1
  <2>3. one + Classify(raw, i).width - 1 <= Len(sub) /\ Same(i, one, i)
    BY <1>5, <2>1, <2>2 DEF Same
  <2>4. Classify(sub, one) = Classify(raw, i)
    BY <1>a, <2>3, ClassifyAlone
  <2> QED
    BY <2>2, <2>4
<1>12. /\ UnitAt(sub, 1).kind = kind
       /\ kind = "Word" => UnitAt(sub, 1).end = ConsumeWord(sub, q)
       /\ kind = "Number" => UnitAt(sub, 1).end = ConsumeNumber(sub, q)
       /\ kind = "Symbol" => UnitAt(sub, 1).end = ConsumeSymbols(sub, q)
       /\ kind \notin {"Word", "Number", "Symbol"} => UnitAt(sub, 1).end = ConsumeKind(sub, q, kind)
  BY <1>5, <1>6, <1>10, <1>11 DEF UnitAt
<1>13. UnitAt(sub, 1).end = t
  <2> USE <1>a, <1>3, <1>10
  <2>1. CASE kind = "Word"
    <3>1. ConsumeWord(raw, p) = i + t - 1
      BY <1>7, <1>8, <2>1
    <3>2. ConsumeWord(sub, q) = t
      BY <3>1, WordRunAlone
    <3> QED
      BY <1>12, <2>1, <3>2
  <2>2. CASE kind = "Number"
    <3>1. ConsumeNumber(raw, p) = i + t - 1
      BY <1>7, <1>8, <2>2
    <3>2. ConsumeNumber(sub, q) = t
      BY <3>1, NumbersAlone
    <3> QED
      BY <1>12, <2>2, <3>2
  <2>3. CASE kind = "Symbol"
    <3>1. ConsumeSymbols(raw, p) = i + t - 1
      BY <1>7, <1>8, <2>3
    <3>2. ConsumeSymbols(sub, q) = t
      BY <3>1, SymbolRunAlone
    <3> QED
      BY <1>12, <2>3, <3>2
  <2>4. CASE kind \notin {"Word", "Number", "Symbol"}
    <3>1. ConsumeKind(raw, p, kind) = i + t - 1
      BY <1>7, <1>8, <2>4
    <3>2. ConsumeKind(sub, q, kind) = t
      BY <3>1, KindRunAlone
    <3> QED
      BY <1>12, <2>4, <3>2
  <2> QED
    BY <2>1, <2>2, <2>3, <2>4
<1> QED
  BY <1>1, <1>2, <1>3, <1>7, <1>12, <1>13

-----------------------------------------------------------------------------
(* What observing a unit changes.                                          *)

Backtick(kind, bytes) == kind = "Punctuation" /\ "backtick" \in Chars(bytes)
Artifact(line, kind, bytes) == kind \notin {"LineBreak", "Whitespace"} /\ IsArtifact(line, kind, bytes)
Signal(line, kind, bytes) ==
  IF kind = "LineBreak" THEN line.section = 2 ELSE kind # "Whitespace" /\ IsSignal(line, kind, bytes)

\* What the tracker keeps of the line when nothing has been suspected.
Kept(line, kind, bytes) ==
  CASE kind = "LineBreak" \/ Signal(line, kind, bytes) -> NewLine
    [] kind = "Whitespace" -> [line EXCEPT !.number = FALSE, !.zero = FALSE,
                                           !.section = IF @ = 1 THEN 0 ELSE @]
    [] OTHER -> Remember(line, kind, bytes)

LEMMA ObserveEffects ==
  ASSUME NEW t \in Trackers, NEW kind, NEW bytes
  PROVE  /\ Observe(t, kind, bytes).hints.unmarked = (t.hints.unmarked \/ Signal(t.line, kind, bytes))
         /\ Observe(t, kind, bytes).hints.backtick = (t.hints.backtick \/ Backtick(kind, bytes))
         /\ Observe(t, kind, bytes).hints.artifact = (t.hints.artifact \/ Artifact(t.line, kind, bytes))
         /\ ~t.hints.unmarked => Observe(t, kind, bytes).line = Kept(t.line, kind, bytes)
         /\ (t.hints.unmarked /\ t.line = NewLine) => Observe(t, kind, bytes).line = NewLine
<1>1. /\ t \in [hints : HintRecords, line : LineRecords] /\ NewLine \in LineRecords
      /\ t.hints.unmarked \in BOOLEAN /\ t.hints.artifact \in BOOLEAN /\ t.hints.backtick \in BOOLEAN
  BY TrackerRecords DEF HintRecords
<1>2. \A x \in Trackers : /\ Suspect(x).hints.unmarked = TRUE /\ Suspect(x).line = NewLine
                          /\ Suspect(x).hints.backtick = x.hints.backtick
                          /\ Suspect(x).hints.artifact = x.hints.artifact
  BY TrackerRecords DEF Suspect, HintRecords
<1>3. CASE kind = "LineBreak"
  <2>1. Observe(t, kind, bytes) = IF t.line.section = 2 THEN Suspect(t) ELSE [t EXCEPT !.line = NewLine]
    BY <1>3 DEF Observe, ObserveLineBreak
  <2>2. ~Artifact(t.line, kind, bytes) /\ ~Backtick(kind, bytes)
        /\ (Signal(t.line, kind, bytes) <=> t.line.section = 2) /\ Kept(t.line, kind, bytes) = NewLine
    BY <1>3 DEF Artifact, Backtick, Signal, Kept
  <2>3. CASE t.line.section = 2
    <3>1. Observe(t, kind, bytes) = Suspect(t)
      BY <2>1, <2>3
    <3> QED
      BY <1>1, <1>2, <2>2, <2>3, <3>1
  <2>4. CASE t.line.section # 2
    <3>1. Observe(t, kind, bytes).hints = t.hints /\ Observe(t, kind, bytes).line = NewLine
      BY <1>1, <2>1, <2>4
    <3> QED
      BY <1>1, <2>2, <2>4, <3>1
  <2> QED
    BY <2>3, <2>4
<1>4. CASE kind = "Whitespace"
  <2>1. /\ Observe(t, kind, bytes).hints = t.hints
        /\ Observe(t, kind, bytes).line = [t.line EXCEPT !.number = FALSE, !.zero = FALSE,
                                                         !.section = IF @ = 1 THEN 0 ELSE @]
    BY <1>1, <1>4 DEF Observe, ObserveSpace
  <2>2. ~Artifact(t.line, kind, bytes) /\ ~Backtick(kind, bytes) /\ ~Signal(t.line, kind, bytes)
    BY <1>4 DEF Artifact, Backtick, Signal
  <2>3. Kept(t.line, kind, bytes) = Observe(t, kind, bytes).line
    BY <1>4, <2>1, <2>2 DEF Kept
  <2>4. ASSUME t.line = NewLine PROVE Observe(t, kind, bytes).line = NewLine
    <3>1. NewLine.number = FALSE /\ NewLine.zero = FALSE /\ NewLine.section = 0
      BY DEF NewLine
    <3>2. [NewLine EXCEPT !.number = FALSE, !.zero = FALSE, !.section = 0] = NewLine
      BY <1>1, <3>1 DEF LineRecords
    <3> QED
      BY <2>1, <2>4, <3>1, <3>2
  <2> QED
    BY <1>1, <2>1, <2>2, <2>3, <2>4
<1>5. CASE kind \notin {"LineBreak", "Whitespace"}
  <2> DEFINE backtick == t.hints.backtick \/ Backtick(kind, bytes)
             artifact == t.hints.artifact \/ IsArtifact(t.line, kind, bytes)
             noted == [t EXCEPT !.hints.backtick = backtick, !.hints.artifact = artifact]
  <2>1. Observe(t, kind, bytes) =
          CASE t.hints.unmarked -> noted
            [] ~t.hints.unmarked /\ IsSignal(t.line, kind, bytes) -> Suspect(noted)
            [] OTHER -> [noted EXCEPT !.line = Remember(t.line, kind, bytes)]
    BY <1>5 DEF Observe, ObserveText, Backtick
  <2>2. backtick \in BOOLEAN /\ artifact \in BOOLEAN
    BY <1>1
  <2>3. /\ (Signal(t.line, kind, bytes) <=> IsSignal(t.line, kind, bytes))
        /\ (Artifact(t.line, kind, bytes) <=> IsArtifact(t.line, kind, bytes))
    BY <1>5 DEF Signal, Artifact
  <2>4. Kept(t.line, kind, bytes) = IF Signal(t.line, kind, bytes) THEN NewLine ELSE Remember(t.line, kind, bytes)
    BY <1>5 DEF Kept
  <2> HIDE DEF backtick, artifact
  <2>5. /\ noted \in Trackers /\ noted.line = t.line /\ noted.hints.unmarked = t.hints.unmarked
        /\ noted.hints.backtick = backtick /\ noted.hints.artifact = artifact
    BY <2>2 DEF Trackers
  <2>6. [noted EXCEPT !.line = Remember(t.line, kind, bytes)].hints = noted.hints
        /\ [noted EXCEPT !.line = Remember(t.line, kind, bytes)].line = Remember(t.line, kind, bytes)
    BY <2>5 DEF Trackers
  <2> HIDE DEF noted
  <2>7. CASE t.hints.unmarked
    <3>1. Observe(t, kind, bytes) = noted
      BY <2>1, <2>7
    <3> QED
      BY <1>1, <2>3, <2>5, <2>7, <3>1 DEF backtick, artifact
  <2>8. CASE ~t.hints.unmarked /\ IsSignal(t.line, kind, bytes)
    <3>1. Observe(t, kind, bytes) = Suspect(noted)
      BY <2>1, <2>8
    <3> QED
      BY <1>1, <1>2, <2>3, <2>4, <2>5, <2>8, <3>1 DEF backtick, artifact
  <2>9. CASE ~t.hints.unmarked /\ ~IsSignal(t.line, kind, bytes)
    <3>1. Observe(t, kind, bytes) = [noted EXCEPT !.line = Remember(t.line, kind, bytes)]
      BY <2>1, <2>9
    <3> QED
      BY <1>1, <2>3, <2>4, <2>5, <2>6, <2>9, <3>1 DEF backtick, artifact
  <2> QED
    BY <2>7, <2>8, <2>9
<1> QED
  BY <1>3, <1>4, <1>5
=============================================================================
