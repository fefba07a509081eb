--------------------------- MODULE MCSurfaceBatch ---------------------------
(* Small instances of SurfaceBatch for TLC. *)
EXTENDS SurfaceBatch, TLC

CONSTANTS v1, v2, v3, a1, a2

\* The third one made where the first was dropped.
Kept == v1 :> a1 @@ v2 :> a2 @@ v3 :> a1

MCOption == {[mode |-> "code", morphology |-> FALSE], [mode |-> "turkish", morphology |-> TRUE]}

\* A chunk of MaxUnits = 3 ends before the bridged pair; the pair is also a
\* document, and a line of another; invalid bytes end a chunk within a line; a
\* long word is not bridged in code mode.
Wide == <<"word", "break", "word", "space", "word", "space", "word">>
Pair == <<"space", "word">>
Lines == <<"space", "word", "break", "word", "opaque", "long">>
Invalid == <<"word", "opaque">>
Long == <<"word", "break", "space", "long">>
Bad == <<"word", "break", "bad">>
Version == <<"space", "digits", "point", "digits", "space", "space", "word">>

\* A line break before and between: the lines of Blank are those of Broken, its
\* units are not.
Broken == <<"break", "word", "break">>
Blank == <<"word", "break", "break", "word", "break">>

\* A full chunk ends within an identifier, whose rest reads like a number.
Severed == <<"space", "point", "word", "digits", "point", "digits">>
Number == <<"digits", "point", "digits">>

Of(docs, newlines, v) == [docs |-> docs, newlines |-> newlines, vocab |-> v]

MCBatches ==
  {Of(<<Wide, Lines>>, <<FALSE, FALSE>>, v1), Of(<<Pair, Wide>>, <<FALSE, TRUE>>, v1),
   Of(<<Bad, Lines>>, <<FALSE, FALSE>>, v1), Of(<<Invalid, Long>>, <<FALSE, FALSE>>, v1),
   Of(<<Pair, Lines, Pair>>, <<FALSE, FALSE, TRUE>>, v1), Of(<< <<>>, Pair>>, <<TRUE, FALSE>>, v1),
   Of(<<Pair, Wide>>, <<FALSE, FALSE>>, v2), Of(<<Lines, Pair>>, <<FALSE, TRUE>>, v2),
   Of(<<Wide, Pair>>, <<FALSE, FALSE>>, v3),
   Of(<<Pair>>, <<>>, v1), Of(<<>>, <<>>, v1),
   Of(<<Version, Version>>, <<FALSE, TRUE>>, v1),
   Of(<<Broken, Broken>>, <<FALSE, TRUE>>, v1), Of(<<Blank, Pair>>, <<FALSE, FALSE>>, v1),
   Of(<<Severed, Number>>, <<FALSE, FALSE>>, v1)}
=============================================================================
