-------------------------- MODULE MCDisambiguation --------------------------
(***************************************************************************)
(* Eight analyses: two pairs share a signature, two compiled ones are      *)
(* met by both workers.  The sentences have ties, a candidate twice, a     *)
(* token without candidates, common beginnings, and layers that grow the   *)
(* table of hypotheses once and twice.                                     *)
(***************************************************************************)
EXTENDS Disambiguation

CONSTANTS w1, w2

MCWords == [a |-> [lemma |-> 1, igs |-> <<1>>], b |-> [lemma |-> 1, igs |-> <<2, 2>>],
            c |-> [lemma |-> 2, igs |-> <<1>>], d |-> [lemma |-> 3, igs |-> <<3>>],
            e |-> [lemma |-> 2, igs |-> <<2, 2>>], f |-> [lemma |-> 3, igs |-> <<1>>],
            a2 |-> [lemma |-> 1, igs |-> <<1>>], c2 |-> [lemma |-> 2, igs |-> <<1>>]]
MCHash(word) ==
  [a |-> 3, b |-> 11, c |-> 2, d |-> 10, e |-> 7, f |-> 1, a2 |-> 19, c2 |-> 5,
   begin |-> 4, end |-> 6, unknown |-> 8][word]
MCBase == <<[lemma |-> 1, igs |-> <<1>>], [lemma |-> 2, igs |-> <<1>>]>>

Kinds == [F2 |-> 3, F3 |-> 5, F4 |-> 7, F9 |-> 11, F10 |-> 13, F10b |-> 17, F10c |-> 19,
          F15 |-> 23, F17 |-> 29, F20 |-> 31, F22 |-> 37]
MCWeight(key) == ((Kinds[key[1]] + 5 * key[2] + 13 * key[(Len(key) + 2) \div 2] + 3 * key[Len(key)]) % 11) - 5

Two == <<<<"a", "b">>, <<"c", "d">>>>
Tied == <<<<"a", "a2">>, <<"c", "d">>>>
Twice == <<<<"b", "d", "b">>, <<"c">>>>
Wide == <<<<"a", "b", "e">>, <<"c", "c2", "d">>>>
Long == <<<<"d", "e">>, <<"f", "a">>, <<"b">>, <<"c", "a">>>>
Bare == <<<<>>, <<"a", "b">>>>

MCRequests ==
  {"disambiguate", "scored", "scored causal"} \X {Two}
  \cup {"indices", "scored", "causal", "scored causal"} \X {Append(Two, <<"e", "f">>)}
  \cup {<<"scored causal", Append(Two, <<"f">>)>>}
  \cup {"disambiguate", "scored"} \X {Tied, Wide, Bare}
  \cup {"indices", "scored"} \X {Twice, Long}
  \cup {<<"causal", Tied>>, <<"causal", <<>>>>}

WorkerSymmetry == Permutations(Workers)
=============================================================================
