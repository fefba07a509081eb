------------------------------- MODULE MCText -------------------------------
(***************************************************************************)
(* Small documents for the two walks over a text: Scanner, which cuts it   *)
(* into units, and CodeSpans, which looks for code in it line by line.     *)
(* The two share nothing but the alphabet, so a behaviour is one of either *)
(* while the other stands still at a document of no bytes.                 *)
(***************************************************************************)
EXTENDS Scanner, CodeSpans

MCCodeWords == {<<"f", "n">>, <<"i", "f">>}

----------------------------------------------------------------------------
(* For Scanner: every document of up to three atoms, longer ones over the  *)
(* atoms that code hints remember.                                         *)

Atoms == {<<>>, <<"a">>, <<"0">>, <<" ">>, <<"\n">>, <<"\r">>, <<".">>, <<"-">>, <<"'">>, <<">">>, <<"=">>,
          <<"C3", "BC">>, <<"D9", "AB">>, <<"E2", "80", "99">>,
          <<"E2", "80", "8D">>, <<"E2", "80">>, <<"80">>, <<"F0", "9F", "98", "80">>}
Rare == {<<"NUL">>, <<"C2", "80">>, <<"C2", "A0">>, <<"E2", "80", "A8">>, <<"D9", "A3">>, <<"E2", "80", "90">>,
         <<"CC", "87">>, <<"/", "/", "=">>, <<"<", "<">>}
Hinting == {<<"i", "f">>, <<"a">>, <<"0">>, <<"T", "1", "2">>, <<" ">>, <<"\n">>, <<"[">>, <<"]">>,
            <<"&">>, <<"l", "t">>, <<";">>, <<"#">>, <<"!">>, <<"(">>, <<"=">>, <<"backtick">>}
Keys == {<<"a">>, <<"quotation">>, <<":">>, <<"]">>, <<"[">>, <<"\n">>}
None == {<<>>}

MCTemplates == {<<Atoms, Atoms, Atoms, None>>, <<Rare, Rare, Atoms, None>>,
                <<Hinting, Hinting, Hinting, None>>, <<Keys, Keys, Keys, Keys>>}

----------------------------------------------------------------------------
(* For CodeSpans: up to three of fourteen lines, four of the five that     *)
(* blocks are made of, five of those without a lone brace, and six lines   *)
(* of which half are anchors, where the dense pass selects.                *)

MCLines == {<<>>,
            <<"fn", " ", "foo", "(", ")", "{">>,
            <<" ", "foo", "(", ")", ";">>,
            <<"a_b", " ", "=", " ", "foo", ";">>,
            <<"}">>,
            <<"comment", " ", "foo", " ", "Foo", ".">>,
            <<"Foo", " ", "uc", " ", "foo", ".">>,
            <<"Foo", " ", "(", "foo", ")", " ", "Foo", " ", "uc", " ", "uc", ".">>,
            <<" ", "Foo", ":", " ", "uc", " ", "uc", ".">>,
            <<"backtick", "foo", "backtick", " ", "backtick">>,
            <<"foo", " ", "(", "http", ")", ".">>,
            <<"#", "!", "comment">>,
            <<"foo", "[", "]", " ", "aB", " ", "a_b", ",">>,
            <<"uc", " ", "foo", "(", ")", "?">>}
Short == UNION {[1..n -> MCLines] : n \in 0..3}
Block == {<<>>, <<"}">>, <<"fn", " ", "foo", "(", ")", "{">>, <<"Foo", " ", "uc", " ", "foo", ".">>,
          <<"a_b", " ", "=", " ", "foo", ";">>}
Long == [1..4 -> Block] \cup [1..5 -> Block \ {<<"}">>}]
\* A question about a call is prose, an anchor, and not code.
Question == <<"uc", " ", "foo", "(", ")", "?">>
Sparse == {<<Question, <<>>, Question, l, Question, <<"}">>>> : l \in Block}
MCDocuments == Short \cup Long \cup Sparse

----------------------------------------------------------------------------

\* What has no document to walk over.
NoText == raw = <<>> /\ scanner = "scan" /\ cursor = 1 /\ units = <<>> /\ tracker = NewTracker /\ result = "none"
NoLines == doc = <<>> /\ judged = <<>> /\ pass = "explicit" /\ index = 0 /\ selected = {} /\ spans = {}

TextInit == (ScanInit /\ NoLines) \/ (NoText /\ Init)
TextNext ==
  \/ NoLines /\ ScanNext /\ UNCHANGED vars
  \/ NoText /\ Next /\ UNCHANGED scanVars

TextSpec == TextInit /\ [][TextNext]_<<scanVars, vars>>
=============================================================================
