--------------------------- MODULE MCFlatTokenizer ---------------------------
(* Documents of one to five lexical units: words of the lexicon            *)
(* (ambiguous, with apostrophe, accent, combining mark, repeated letter or *)
(* attached particle), numerals, clitics, unknown and long tokens, runs of *)
(* signs, stray bytes, and code before, behind and between.                *)
EXTENDS FlatTokenizer

Word(scalars) == [bytes |-> Spell(scalars), kind |-> "Word"]
Numeral(scalars) == [bytes |-> Spell(scalars), kind |-> "Number"]
Other(kind, scalars) == [bytes |-> Spell(scalars), kind |-> kind]

ab == Word(<<"a", "b">>)
da == Word(<<"d", "a">>)
unknown == Word(<<"c", "c", "dotless i", "c", "c">>)
dot == Other("Punctuation", <<".">>)
space == Other("Whitespace", <<" ">>)
lines == Other("LineBreak", <<"\n", "\n">>)
identifier == Word(<<"a", "A", "0">>)
snake == Word(<<"a", "a", "_", "b", "b", "b", "b">>)
zero == Numeral(<<"0">>)
stray == [bytes |-> [k \in 1..5 |-> <<"a acute", 2>>], kind |-> "Opaque"]
roman == Word(<<"I", "I", "'", "n", "c", "i">>)

Pieces == {ab, da, unknown, dot, space, lines, identifier, snake, zero, stray,
           Word(<<"A", "'", "b">>), Word(<<"a hat", "b">>), Word(<<"a", "b", "b", "b">>),
           Word(<<"a", "b", "b", "b", "b", "b", "b">>), Word(<<"a", "b", "m", "dotless i">>),
           Word(<<"s", "cedilla", "a">>), Word(<<"c">>), Word(<<"s", "i">>),
           Numeral(<<"0", ".", "0">>), Numeral(<<"0", "'", "a", "r">>), Numeral(<<"0", ":", "0", "0", "'", "a">>),
           Other("Punctuation", <<".", ".">>), Other("Symbol", <<"=", "=">>), Other("Control", <<"-">>)}

Start(pieces, k) == 1 + FoldLeft(LAMBDA n, p : n + Len(p.bytes), 0, SubSeq(pieces, 1, k - 1))
Document(pieces, code) ==
  [raw |-> FlattenSeq([k \in DOMAIN pieces |-> pieces[k].bytes]),
   lexical |-> [k \in DOMAIN pieces |-> [kind |-> pieces[k].kind, start |-> Start(pieces, k), end |-> Start(pieces, k + 1)]],
   code |-> code]
Plain(pieces) == Document(pieces, <<>>)

Mixed == {ab, da, dot, zero}
Sentences == {<<ab, space, ab, dot, ab>>, <<ab, dot, ab, space, ab>>, <<ab, space, da, space, da>>, <<ab, space, lines, da>>,
              <<ab, space, ab, space, ab, space, ab>>, <<unknown, space, da, space, ab>>}
\* Code up to the middle of the line break, to its end, or from its middle on.
CodeDocuments ==
  UNION {LET pieces == <<p, lines, q>> IN
         {Document(pieces, <<[start |-> 1, end |-> Start(pieces, 2) + 1]>>),
          Document(pieces, <<[start |-> 1, end |-> Start(pieces, 3)]>>),
          Document(pieces, <<[start |-> Start(pieces, 2) + 1, end |-> Start(pieces, 4)]>>)} :
           p \in {ab, snake, stray}, q \in {da, snake}}

MCDocuments == {Plain(<<p>>) : p \in Pieces} \cup {Plain(<<p, q>>) : p, q \in Mixed}
                 \cup {Plain(s) : s \in Sentences} \cup CodeDocuments
RomanDocuments == {Plain(<<roman>>), Plain(<<ab, space, roman>>)}

MCConfigs == {[mode |-> "Auto", contextual |-> TRUE, shadow |-> FALSE],
              [mode |-> "Auto", contextual |-> FALSE, shadow |-> TRUE],
              [mode |-> "Turkish", contextual |-> TRUE, shadow |-> TRUE],
              [mode |-> "Code", contextual |-> TRUE, shadow |-> FALSE]}
RomanConfigs == {[mode |-> "Auto", contextual |-> TRUE, shadow |-> FALSE]}

Analysis(root, pos, surfaces) ==
  [root |-> root, pos |-> pos, stem |-> surfaces[1], ending |-> FlattenSeq(Tail(surfaces)),
   morphemes |-> [k \in DOMAIN surfaces |-> [id |-> k, surface |-> surfaces[k]]]]

MCLexicon(token) ==
  CASE token \in {<<"a", "b">>, <<"a hat", "b">>} ->
         <<Analysis(1, "Noun", <<<<"a">>, <<"b">>>>), Analysis(2, "Noun", <<<<"a", "b">>>>)>>
    [] token = <<"A", "'", "b">> -> <<Analysis(1, "Noun", <<<<"a">>, <<"b">>>>)>>
    [] token = <<"d", "a">> -> <<Analysis(3, "Conj", <<<<"d", "a">>>>)>>
    [] token = <<"0">> -> <<Analysis(4, "Num", <<<<"0">>>>), Analysis(5, "Num", <<<<"0">>, <<>>>>)>>
    [] token = <<"0", ".", "0">> -> <<Analysis(4, "Num", <<<<"0", ".", "0">>>>)>>
    [] token = <<"0", "'", "a", "r">> -> <<Analysis(4, "Num", <<<<"0">>>>)>>
    [] token = <<"s cedilla", "a">> -> <<Analysis(6, "Noun", <<<<"s cedilla">>, <<"a">>>>)>>
    [] token = <<"s cedilla", "dotless i">> -> <<Analysis(7, "Noun", <<<<"s cedilla">>, <<"dotless i">>>>)>>
    [] token = <<"I", "I", "'", "n", "c", "i">> -> <<Analysis(8, "Num", <<<<"I", "I">>>>)>>
    [] OTHER -> <<>>

\* A choice that depends on the word before: the other one than there.
MCBest(words) ==
  LET choose(chosen, word) == Append(chosen, IF chosen # <<>> /\ Last(chosen) = 1 THEN Len(word) ELSE 1)
  IN FoldLeft(choose, <<>>, words)

MCVocabulary == <<"0", "a", "b", "dotless i">>
=============================================================================
