--------------------------- MODULE MCTrainingCorpus ---------------------------
(* Corpora of one or two documents of up to two units: words with an       *)
(* analysis or none, a cut inside a scalar, code, stray bytes, white       *)
(* space.                                                                  *)
EXTENDS TrainingCorpus

Unit(scalars, stray, k, m, s, cuts, root) ==
  [bytes |-> Spell(scalars) \o stray, kind |-> k, mode |-> m, status |-> s, cuts |-> cuts, root |-> root]
Pieces == {Unit(<<"a", "s cedilla">>, <<>>, "Word", "Turkish", "Morphological", <<1>>, 1),
           Unit(<<"a">>, <<>>, "Word", "Turkish", "Unknown", <<>>, UnknownRoot),
           Unit(<<"a hat", "b">>, <<>>, "Word", "Turkish", "Structural", <<1>>, NONE),
           Unit(<<"a", "a">>, <<>>, "Word", "Code", "Code", <<>>, NONE),
           Unit(<<>>, <<<<"a hat", 2>>>>, "Opaque", "Opaque", "Opaque", <<>>, NONE),
           Unit(<<" ">>, <<>>, "Whitespace", "Turkish", "Structural", <<>>, NONE)}

Analysis(p, start) ==
  IF p.root = NONE THEN NONE
  ELSE [root |-> p.root,
        morphemes |-> IF p.cuts = <<>> THEN <<[id |-> 3, surface |-> <<"a">>, start |-> start, end |-> start + 1]>>
                      ELSE <<[id |-> 2, surface |-> <<"a">>, start |-> start, end |-> start + 1],
                             [id |-> 1, surface |-> <<"s cedilla">>, start |-> start + 1, end |-> start + 3],
                             [id |-> 3, surface |-> <<>>, start |-> start + 3, end |-> start + 3]>>]
Document(pieces) ==
  LET start(k) == 1 + FoldLeft(LAMBDA n, p : n + Len(p.bytes), 0, SubSeq(pieces, 1, k - 1))
  IN [raw |-> FlattenSeq([k \in DOMAIN pieces |-> pieces[k].bytes]),
      units |-> [k \in DOMAIN pieces |->
        [start |-> start(k), end |-> start(k + 1), kind |-> pieces[k].kind, mode |-> pieces[k].mode,
         status |-> pieces[k].status, group |-> k, cuts |-> [i \in DOMAIN pieces[k].cuts |-> start(k) + pieces[k].cuts[i]],
         analysis |-> Analysis(pieces[k], start(k))]]]

Singles == {<<Document(ps)>> : ps \in UNION {[1..n -> Pieces] : n \in 0..2}}
Chosen == {p \in Pieces : p.mode = "Code" \/ p.status = "Morphological"}
Pairs == {<<Document(<<p>>), Document(<<q, p>>)>> : p \in Chosen, q \in Chosen}
MCCorpora == Singles \cup Pairs

MCDamagedCells == {Number(0), Number(1), Number(2), Number(3), <<"a", 1>>, <<"flag", TRUE>>, <<"flag", FALSE>>,
                   <<"enums", <<"Word", "Turkish", "Structural">>>>, <<"enums", <<"Word", "Code", "Code">>>>,
                   <<"text", <<"root", 1>>>>, <<"text", <<>>>>, <<"group", 2>>}
=============================================================================
