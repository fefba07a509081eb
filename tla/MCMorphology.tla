----------------------------- MODULE MCMorphology -----------------------------
(***************************************************************************)
(* A lexicon of eight nouns and four numbers with the nominal suffixes     *)
(* that show harmony, devoicing, softening, derivation and silent          *)
(* morphemes, and tokens of every kind.                                    *)
(***************************************************************************)
EXTENDS Morphology

MCItem(lemma, primary, secondary, attributes, reference) ==
    [lemma |-> lemma, primary |-> primary, secondary |-> secondary,
     attributes |-> attributes, reference |-> reference]
MCDictionary == <<
    MCItem(<<"e", "v">>, "Noun", "None", {}, 0),
    MCItem(<<"k", "a", "p">>, "Noun", "None", {}, 0),
    MCItem(<<"a", "l", "i">>, "Noun", "Prop", {"FamilyMember"}, 0),
    MCItem(<<"d", "oe", "r", "t">>, "Num", "Card", {}, 0),
    MCItem(<<"o", "n">>, "Num", "Card", {}, 0),
    MCItem(<<"o", "n", "a", "r">>, "Num", "Dist", {}, 0),
    MCItem(<<"s", "u">>, "Noun", "None", {}, 0),
    MCItem(<<"s", "u", "y">>, "Noun", "None", {"Dummy"}, 7),
    MCItem(<<"t", "d">>, "Noun", "Abbrv", {}, 0),
    MCItem(<<"t", "o", "m">>, "Noun", "Prop", {}, 0),
    MCItem(<<"e", "v", "l", "i">>, "Noun", "None", {"FamilyMember", "Informal"}, 0) >>

MCSurfaces == <<
    <<"a", "l", "i">>, <<"d", "oe", "r", "d">>, <<"d", "oe", "r", "t">>, <<"e", "v">>,
    <<"e", "v", "l", "i">>, <<"k", "a", "b">>, <<"k", "a", "p">>, <<"o", "n">>,
    <<"o", "n", "a", "r">>, <<"s", "u">>, <<"s", "u", "y">>, <<"t", "d">>, <<"t", "o", "m">> >>

Own(surface) == MorphemicAttributes(MCSurfaces[surface], {})
MCStem(surface, dictionary, state, bits) ==
    [surface |-> surface, dictionary |-> dictionary, state |-> state, bits |-> bits]
Softened == {"ExpectsVowel", "CannotTerminate"}
MCStems == <<
    MCStem(1, 3, "nounProper_S", Own(1)),
    MCStem(2, 4, "num_S", Own(2) \cup Softened),
    MCStem(3, 4, "num_S", Own(3) \cup {"ExpectsConsonant"}),
    MCStem(4, 1, "noun_S", Own(4)), MCStem(4, 3, "nounProper_S", Own(4)),
    MCStem(5, 11, "noun_S", Own(5)),
    MCStem(6, 2, "noun_S", Own(6) \cup Softened),
    MCStem(7, 2, "noun_S", Own(7) \cup {"ExpectsConsonant"}),
    MCStem(8, 5, "num_S", Own(8)), MCStem(9, 6, "num_S", Own(9)),
    MCStem(10, 7, "noun_S", Own(10) \cup {"ExpectsConsonant"}),
    MCStem(11, 8, "noun_S", Own(11) \cup Softened),
    MCStem(12, 9, "nounAbbrv_S", MorphemicAttributes(<<"t", "e", "d", "e">>, {})),
    MCStem(13, 10, "nounProper_S", Own(13)) >>

T(op, letter) == [op |-> op, letter |-> letter]
A == T("AVowel", "")
I == T("IVowel", "")
Letter(c) == T("Letter", c)
Lar == <<Letter("l"), A, Letter("r")>>
Si == <<T("Append", "s"), I>>
Ya == <<T("Append", "y"), A>>
Na == <<Letter("n"), A>>
Da == <<T("DevoiceFirst", "d"), A>>
Di == <<T("DevoiceFirst", "d"), I>>
Li == <<Letter("l"), I>>
Lik == <<Letter("l"), I, T("LastVoiced", "k")>>
Ligh == <<Letter("l"), I, T("LastNotVoiced", "gh")>>

C(kind, arg) == [kind |-> kind, arg |-> arg]
NoConsonant == C("Not", <<C("HasPhoneticAttribute", "ExpectsConsonant")>>)
NoVowel == C("Not", <<C("HasPhoneticAttribute", "ExpectsVowel")>>)
HasTailC == C("HasTail", <<>>)
OneWith == C("Not", <<C("ContainsMorpheme", <<"With">>)>>)
OneNess == C("And", <<C("Not", <<C("LastDerivationIs", "ness_S")>>), OneWith>>)
VerbNext == C("And", <<HasTailC, C("Not", <<C("HasDerivation", <<>>)>>),
                       C("Or", <<C("CurrentStateIs", "nom_ST"), C("PreviousStateIs", "p3sg_S")>>)>>)

Edge(to, morpheme, template, conditions) ==
    [to |-> to, morpheme |-> morpheme, template |-> template, conditions |-> conditions]
State(morpheme, terminal, derivative, edges) ==
    [morpheme |-> morpheme, terminal |-> terminal, derivative |-> derivative, edges |-> edges]
SingularOrPlural == << Edge("a3sg_S", "A3sg", <<>>, <<>>), Edge("a3pl_S", "A3pl", Lar, <<NoVowel>>) >>

MCStates == [
    noun_S |-> State("Noun", FALSE, FALSE, SingularOrPlural),
    nounProper_S |-> State("Noun", FALSE, FALSE, SingularOrPlural),
    nounAbbrv_S |-> State("Noun", FALSE, FALSE, << Edge("a3sg_S", "A3sg", <<>>, <<>>) >>),
    num_S |-> State("Num", TRUE, FALSE,
                    << Edge("dat_ST", "Dat", Ya, <<NoConsonant>>), Edge("loc_ST", "Loc", Da, <<NoVowel>>) >>),
    a3sg_S |-> State("A3sg", FALSE, FALSE,
                     << Edge("pnon_S", "Pnon", <<>>, <<>>), Edge("p3sg_S", "P3sg", Si, <<NoConsonant>>) >>),
    a3pl_S |-> State("A3pl", FALSE, FALSE,
                     << Edge("pnon_S", "Pnon", <<>>, <<>>), Edge("p3sg_S", "P3sg", <<I>>, <<>>) >>),
    pnon_S |-> State("Pnon", FALSE, FALSE,
                     << Edge("nom_ST", "Nom", <<>>, <<NoVowel>>), Edge("dat_ST", "Dat", Ya, <<NoConsonant>>),
                        Edge("loc_ST", "Loc", Da, <<NoVowel>>) >>),
    p3sg_S |-> State("P3sg", FALSE, FALSE,
                     << Edge("nom_ST", "Nom", <<>>, <<>>), Edge("dat_ST", "Dat", Na, <<>>) >>),
    nom_ST |-> State("Nom", TRUE, FALSE,
                     << Edge("with_S", "With", Li, <<OneWith>>), Edge("ness_S", "Ness", Lik, <<OneNess>>),
                        Edge("ness_S", "Ness", Ligh, <<OneNess>>), Edge("zero_S", "Zero", <<>>, <<VerbNext>>) >>),
    dat_ST |-> State("Dat", TRUE, FALSE, <<>>),
    loc_ST |-> State("Loc", TRUE, FALSE, << Edge("zero_S", "Zero", <<>>, <<HasTailC>>) >>),
    with_S |-> State("With", TRUE, TRUE,
                     << Edge("adj_ST", "Zero", <<>>, <<HasTailC>>), Edge("a3pl_S", "A3pl", Lar, <<>>) >>),
    adj_ST |-> State("Zero", TRUE, FALSE, <<>>),
    ness_S |-> State("Ness", FALSE, TRUE, << Edge("a3sg_S", "A3sg", <<>>, <<>>) >>),
    zero_S |-> State("Zero", FALSE, TRUE,
                     << Edge("past_ST", "Past", Di,
                             <<C("PreviousGroupContains", <<"loc_ST", "nom_ST">>)>>) >>),
    past_ST |-> State("Past", TRUE, FALSE, <<>>) ]

MCStateKeys == DOMAIN MCStates
MCMorphemeIds == UNION {{MCStates[s].morpheme} : s \in MCStateKeys}
MCRootAttributes == {"Dummy", "FamilyMember", "Informal"}
MCPhoneticAttributes == UNION {MCStems[k].bits : k \in DOMAIN MCStems} \cup {"HasNoVowel"}

(* One condition of every kind, and a tree deeper than the inline stack. *)
Deep(a, b, c) == C("Or", <<a, C("And", <<b, C("Not", <<c>>), C("Or", <<c, a, c, HasTailC>>)>>), c>>)
MCSamples ==
    LET dative == C("CurrentMorphemeIs", "Dat")
        noun == C("RootPrimaryPosIs", "Noun")
        long == C("HasAnySuffixSurface", <<>>)
    IN << Deep(dative, noun, long), Deep(C("HasNoTail", <<>>), long, dative),
          C("And", <<C("HasRootAttribute", "Dummy"), C("HasAnyRootAttribute", <<"Dummy", "Informal">>)>>),
          C("Or", <<C("DictionaryItemIs", 3), C("DictionaryItemIsAny", <<1, 4, 0>>),
                    C("SecondaryPosIs", "Card")>>),
          C("DictionaryItemIsNone", <<2, 0>>),
          C("HasTailSequence", <<"A3sg", "Pnon">>), C("ContainsMorphemeSequence", <<"Noun", "A3sg">>),
          C("PreviousMorphemeIs", "A3sg"), C("PreviousStateIsNot", "a3sg_S"),
          C("RootSurfaceIs", 4), C("RootSurfaceIsAny", <<6, 7>>),
          C("CurrentStateIsNot", "nom_ST"), C("LastDerivationIsAny", <<"ness_S", "zero_S">>),
          C("CurrentGroupContainsAny", <<"a3sg_S">>), C("PreviousGroupContainsMorpheme", <<"P3sg", "Pnon">>),
          C("NoSurfaceAfterDerivation", <<>>), C("PreviousMorphemeIsAny", <<"Nom", "Noun">>),
          C("CurrentMorphemeIsAny", <<"Dat", "Zero">>), C("PreviousStateIsAny", <<"nom_ST", "noun_S">>) >>

MCTokens == {
    <<"e", "v">>, <<"E", "v", "e">>, <<"e", "v", "l", "i">>, <<"e", "v", "l", "i", "l", "e", "r", "i">>,
    <<"e", "v", "l", "i", "k">>, <<"e", "v", "l", "i", "gh", "e">>, <<"e", "v", "i", "d", "i">>,
    <<"e", "v", "d", "e", "d", "i">>, <<"k", "a", "b">>, <<"k", "a", "b", "a">>, <<"k", "a", "p", "a">>,
    <<"k", "a", "p", "t", "ii">>, <<"k", "a", "p", "t", "a">>, <<"s", "u", "y", "a">>,
    <<"s", "u", "y", "u", "n", "a">>, <<>>, <<".">>,
    <<"A", "l", "i", "'", "y", "e">>, <<"E", "l", "i", "ap", "y", "e">>, <<"e", "v", "'", "l", "i">>,
    <<"e", "v", "'", "i">>, <<"'", "e", "v">>, <<"a:", "m", "i", "'", "y", "e">>,
    <<"w", ".", "c", "o", "m", "'", "a">>, <<"w", "w", "w", ".", "e", "l", "i">>,
    <<"I", "V", "'", "e">>, <<"I", "V">>, <<"V", "X">>, <<"X", ".">>, <<"X">>,
    <<"T", ".", "C", ".", "'", "y", "e">>, <<"A", ".", "C", "'", "e">>,
    <<"4", "'", "e">>, <<"4", "t", "e">>, <<"1", "0", "a", "r">>, <<"2", ".", "4">>,
    <<"1", "2", ":", "1", "0">>, <<"1", "0", ".", "1", "0", "'", "a">>, <<"-", "4", "/", "4">>,
    <<"%", "4">>, <<"1", ".", "4", ".", "2", "0", "1", "0">>, <<"1", "0", "0", "0">>, <<"4", ".">> }

MCRequests == {
    <<1, <<"Noun", "A3sg", "Dat">>>>, <<1, <<"A3pl", "P3sg">>>>, <<1, <<"With", "Zero">>>>,
    <<1, <<"Ness", "Dat">>>>, <<1, <<"Zero", "Past">>>>, <<1, <<>>>>, <<2, <<"Noun", "P3sg", "Dat">>>>,
    <<2, <<"Loc", "Zero", "Past">>>>, <<4, <<"Num", "Dat">>>>, <<4, <<"Loc">>>>, <<4, <<>>>>, <<7, <<"Noun", "Dat">>>>,
    <<8, <<"P3sg">>>>, <<12, <<"Dat">>>>, <<1, <<"Abl">>>> }

MCLimits == {
    [active |-> 100, nodes |-> 1000, results |-> 100], [active |-> 4, nodes |-> 1000, results |-> 100],
    [active |-> 100, nodes |-> 9, results |-> 100], [active |-> 100, nodes |-> 1000, results |-> 1] }

MCCalls ==
    {[op |-> "token", token |-> t, item |-> 0, requested |-> <<>>, limits |-> l] :
        t \in MCTokens, l \in MCLimits}
    \cup {[op |-> "generate", token |-> <<>>, item |-> r[1], requested |-> r[2], limits |-> l] :
             r \in MCRequests, l \in MCLimits}
==============================================================================
