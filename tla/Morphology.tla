------------------------------ MODULE Morphology ------------------------------
(***************************************************************************)
(* One call of NativeMorphology: analyze_token, or generate for a          *)
(* dictionary item and a list of morphemes (binary/runtime.rs).  The       *)
(* breadth-first search advances one path per step under the limits of the *)
(* call; a token the lexicon cannot read goes on to the runtime items in   *)
(* their order.                                                            *)
(***************************************************************************)
EXTENDS RuntimeItems

CONSTANTS Calls,       \* records [op, token, item, requested, limits]
          Samples      \* condition trees, one of each kind

VARIABLES call, stage, search, held, result
vars == <<call, stage, search, held, result>>

Stages == <<"lexicon", "url", "roman", "abbreviation", "numeral", "proper">>

NoSearch == [on |-> FALSE, word |-> <<>>, layer |-> <<>>, next |-> <<>>, accepted |-> <<>>, made |-> 0]
Nothing == [error |-> FALSE, analyses |-> <<>>]
Refused == [error |-> TRUE, analyses |-> <<>>]

Original == NormalizeApostrophes(call.token)
RuntimeInput == TurkishLower(Original)
Normalized == NormalizeForAnalysis(call.token)
Generating == call.op = "generate"

(* What the stage makes of the token, if the token is of its kind. *)
Query ==
    CASE stage = "url" /\ IsUrl(Original) -> UrlQuery(Original)
      [] stage = "roman" /\ IsRoman(Original) -> RomanQuery(Original)
      [] stage = "abbreviation" /\ IsDottedAbbreviation(Original) -> AbbreviationQuery(Original)
      [] stage = "numeral" /\ HasDigit(RuntimeInput) -> NumeralQuery(RuntimeInput)
      [] stage \in {"proper", "static"} -> ProperQuery(RuntimeInput)
      [] OTHER -> <<>>

(* The word the stage has the graph parse: a sequence of no or one. *)
Parsed ==
    CASE stage = "lexicon" ->
           IF Apostrophe(Normalized) = 0 THEN <<Normalized>>
           ELSE IF InnerApostrophe(Normalized) THEN <<StemOf(Normalized) \o EndingOf(Normalized)>>
           ELSE <<>>
      [] stage = "generate" -> << <<>> >>
      [] stage = "static" -> <<StaticWord(RuntimeInput)>>
      [] OTHER -> [k \in DOMAIN Query |-> Query[k].word]

(* What it makes of the analyses of that word. *)
Collected(analyses) ==
    CASE stage = "lexicon" /\ Apostrophe(Normalized) # 0 -> KeptOfApostrophe(Normalized, analyses)
      [] stage = "lexicon" -> analyses
      [] stage = "generate" -> Deduplicate(analyses)
      [] stage = "static" ->
             Deduplicate(held \o SelectSeq(analyses, LAMBDA a : a.stem = Query[1].stem))
      [] OTHER -> Rewritten(Query[1], analyses)

----------------------------------------------------------------------------
Init ==
    /\ call \in Calls
    /\ stage = IF call.op = "generate" THEN "generate" ELSE "lexicon"
    /\ search = NoSearch /\ held = <<>> /\ result = Nothing

Finish(answer) ==
    stage' = "done" /\ result' = answer /\ search' = NoSearch /\ held' = <<>>

(* On to the next kind of token, or no analysis at all. *)
NextStage ==
    IF stage = "proper" THEN Finish(Nothing)
    ELSE /\ stage' = Stages[SelectInSeq(Stages, LAMBDA s : s = stage) + 1]
         /\ search' = NoSearch /\ UNCHANGED <<held, result>>

Skip ==
    /\ stage # "done" /\ Parsed = <<>>
    /\ NextStage /\ UNCHANGED call

(* A layer must stay below max_active_paths. *)
TooMany(paths) == paths # <<>> /\ Len(paths) >= call.limits.active

(* A request that names what the bundle does not have. *)
Unknown ==
    Generating /\ ~(call.item \in DOMAIN Dictionary /\ ToSet(call.requested) \subseteq MorphemeIds)

Refuse == stage # "done" /\ Unknown /\ Finish(Refused) /\ UNCHANGED call

StartSearch ==
    /\ stage # "done" /\ ~Unknown /\ ~search.on /\ Parsed # <<>>
    /\ \E paths \in {IF Generating THEN InitialGenerationPaths(call.item, call.requested)
                     ELSE InitialPaths(Parsed[1])} :
           IF Len(paths) > call.limits.nodes \/ TooMany(paths) THEN Finish(Refused)
           ELSE /\ search' = [NoSearch EXCEPT !.on = TRUE, !.word = Parsed[1], !.layer = paths,
                                              !.made = Len(paths)]
                /\ UNCHANGED <<stage, held, result>>
    /\ UNCHANGED call

Finished(path) ==
    IF Generating THEN AcceptsGenerated(call.requested, path) ELSE AcceptsFinished(search.word, path)
Crossing(path, k) ==
    IF Generating THEN TryGenerationEdge(path, k, call.requested) ELSE TryEdge(search.word, path, k)

(* A finished path is an analysis and goes no further. *)
Accept ==
    /\ search.layer # <<>> /\ Finished(Head(search.layer))
    /\ IF Len(search.accepted) >= call.limits.results THEN Finish(Refused)
       ELSE /\ search' = [search EXCEPT !.layer = Tail(@), !.accepted = Append(@, Head(search.layer))]
            /\ UNCHANGED <<stage, held, result>>
    /\ UNCHANGED call

Advance ==
    /\ search.layer # <<>> /\ ~Finished(Head(search.layer))
    /\ \E made \in {LET path == Head(search.layer)
                    IN FlattenSeq([k \in EdgesFrom(path) |-> Crossing(path, k)])} :
           IF \/ search.made + Len(made) > call.limits.nodes
              \/ Len(search.next) + Len(made) > call.limits.active
           THEN Finish(Refused)
           ELSE /\ search' = [search EXCEPT !.layer = Tail(@), !.next = @ \o made,
                                            !.made = @ + Len(made)]
                /\ UNCHANGED <<stage, held, result>>
    /\ UNCHANGED call

NextLayer ==
    /\ search.layer = <<>> /\ search.next # <<>>
    /\ IF TooMany(search.next) THEN Finish(Refused)
       ELSE /\ search' = [search EXCEPT !.layer = search.next, !.next = <<>>]
            /\ UNCHANGED <<stage, held, result>>
    /\ UNCHANGED call

Exhausted == search.on /\ search.layer = <<>> /\ search.next = <<>>

Collect ==
    /\ Exhausted
    /\ \E analyses \in {Collected(Materialized(search.accepted))} :
           CASE stage = "proper" ->
                    /\ stage' = "static" /\ held' = analyses /\ search' = NoSearch
                    /\ UNCHANGED result
             [] stage \in {"generate", "static"} \/ (stage # "proper" /\ analyses # <<>>) ->
                    Finish([error |-> FALSE, analyses |-> analyses])
             [] OTHER -> NextStage
    /\ UNCHANGED call

Next == Skip \/ Refuse \/ StartSearch \/ Accept \/ Advance \/ NextLayer \/ Collect

Spec == Init /\ [][Next]_vars
----------------------------------------------------------------------------
(* References.                                                             *)

(* The edges a path may cross, by what their conditions mean. *)
Steps(word, path) ==
    LET from == States[Current(path).state]
        tail == SubSeq(word, path.tail + 1, Len(word))
        spells(k) == GenerateSurface(from.edges[k].template, path.bits)
        open(k) == /\ tail # <<>> \/ from.edges[k].template = <<>>
                   /\ IsPrefix(spells(k), tail)
                   /\ \A j \in DOMAIN from.edges[k].conditions :
                          Means(from.edges[k].conditions[j], path, tail # <<>>)
    IN {Extended(path, from.edges[k], spells(k), path.tail + Len(spells(k)),
                 NextAttributes(path.bits, spells(k), from.edges[k].template, spells(k) = tail), 0) :
            k \in {j \in DOMAIN from.edges : open(j)}}

RECURSIVE Reached(_, _)
Reached(word, paths) ==
    IF paths = {} THEN {}
    ELSE LET over == {p \in paths : AcceptsFinished(word, p)}
         IN over \cup Reached(word, UNION {Steps(word, p) : p \in paths \ over})

(* All readings of a word, without layers, limits or a prefix index. *)
Readings(word) ==
    Reached(word, {StemPath(k, Len(Surfaces[Stems[k].surface]), 0) :
                       k \in {j \in DOMAIN Stems : IsPrefix(Surfaces[Stems[j].surface], word)}})

(* What is left of a text when case, dots and apostrophes do not count. *)
BareToken(text) ==
    LET letters == SelectSeq(Plain(NormalizeApostrophes(text)), LAMBDA c : c \notin {".", "'"})
    IN Each(letters, LAMBDA c : IF c = "a:" THEN "a" ELSE c)

(* The token's number word is the beginning of a longer one. *)
LongerNumberWord ==
    \E k \in DOMAIN Stems, query \in ToSet(NumeralQuery(RuntimeInput)) :
        /\ Dictionary[Stems[k].dictionary].primary = "Num"
        /\ IsPrefix(Surfaces[Stems[k].surface], query.word)
        /\ Len(Surfaces[Stems[k].surface]) > Len(LastWord(query.stem, query.stem))

(* Conditions that depend on what follows the path. *)
RECURSIVE AsksAhead(_)
AsksAhead(tree) ==
    IF tree.kind \in {"And", "Or", "Not"} THEN \E k \in DOMAIN tree.arg : AsksAhead(tree.arg[k])
    ELSE tree.kind \in {"HasTail", "HasNoTail", "HasPhoneticAttribute"}

(* The silent end of a generated path that analysis does not follow: it    *)
(* had stopped before, or a condition there depends on what follows.       *)
AnalysisLeaves(path) ==
    LET last == Max({k \in DOMAIN path.nodes : path.nodes[k].surface # <<>>})
    IN \E k \in last..(Len(path.nodes) - 1) :
          \/ States[path.nodes[k].state].terminal /\ "CannotTerminate" \notin path.bits
          \/ \E edge \in ToSet(States[path.nodes[k].state].edges) :
                 /\ edge.to = path.nodes[k + 1].state
                 /\ edge.conditions # <<>> /\ AsksAhead(edge.conditions[1])

----------------------------------------------------------------------------
(* Properties.                                                             *)

(* The search counts the nodes it made and stays within the limits of the  *)
(* call (check_path_capacity), and every path starts at a stem.            *)
TypeOK ==
    /\ call \in Calls /\ stage \in ToSet(Stages) \cup {"static", "generate", "done"}
    /\ search.made <= call.limits.nodes
    /\ Len(search.layer) < call.limits.active /\ Len(search.next) <= call.limits.active
    /\ Len(search.accepted) <= call.limits.results
    /\ result.error => result.analyses = <<>>
    /\ \A path \in ToSet(search.layer \o search.next \o search.accepted) :
           path.nodes[1].surface = Surfaces[path.stem]

(* A compiled condition passes the bundle's validation with the count the  *)
(* bundle declares, and the machine finds on the path at hand what the     *)
(* condition says, however deep its stack grows (ConditionCompiler,        *)
(* ConditionProgramValidator, ConditionVm).                                *)
ProgramsMeanConditions ==
    search.layer # <<>> =>
        \A k \in DOMAIN Samples :
            LET program == Compile(Samples[k])
                validation == Validate(program)
            IN /\ validation # NONE /\ validation.count = ConditionCount(Samples[k])
               /\ \A hasTail \in BOOLEAN :
                      Evaluate(program, Head(search.layer), hasTail)
                          = Means(Samples[k], Head(search.layer), hasTail)

(* While a token is analysed every path spells what it has consumed of the *)
(* word, through the stem index, the templates and their harmony           *)
(* (initial_paths, try_edge).                                              *)
PathsSpellTheWord ==
    search.on /\ ~Generating =>
        \A path \in ToSet(search.layer \o search.next \o search.accepted) :
            Spelled(path) = SubSeq(search.word, 1, path.tail)

(* A search that ends without an error has found every reading of the      *)
(* word, once each and shorter ones first: the limits refuse a word, they  *)
(* never cut its analyses short (search, advance, AnalysisLimits).         *)
SearchIsComplete ==
    Exhausted /\ ~Generating =>
        /\ ToSet(search.accepted) = Readings(search.word)
        /\ IsInjective(search.accepted)
        /\ \A j, k \in DOMAIN search.accepted :
               j < k => Len(search.accepted[j].nodes) <= Len(search.accepted[k].nodes)

(* Whatever stage reads a token, stem and ending of each analysis are the  *)
(* token's own letters and digits; a number word that continues into a     *)
(* longer one is the exception (rewrite_analysis_root over analyses of any *)
(* Num stem).                                                              *)
AnalysesKeepTheToken ==
    stage = "done" /\ ~Generating =>
        \A a \in ToSet(result.analyses) :
            \/ BareToken(a.stem \o a.ending) = BareToken(call.token)
            \/ a.primary = "Num" /\ LongerNumberWord

(* What the generator makes, analysis reads back, except for silent        *)
(* morphemes at the end that analysis does not follow (search_generation,  *)
(* try_generation_edge against search, try_edge).                          *)
GeneratedIsAnalyzed ==
    Exhausted /\ Generating =>
        \A path \in ToSet(search.accepted) :
            \/ AnalysisLeaves(path)
            \/ \E reading \in Readings(Spelled(path)) :
                   Canonical(Materialize(reading)) = Canonical(Materialize(path))

(* The prefix index, the binary search and the generator's index agree     *)
(* with the stem table (StemPrefixIndex, stem_range, NativeGenerator).     *)
LookupsAgree ==
    Exhausted =>
    /\ \A id \in DOMAIN Surfaces :
           LET stems == {k \in DOMAIN Stems : Stems[k].surface = id}
           IN /\ StemRange(id) = stems
              /\ stems # {} => PrefixIndex[Surfaces[id]] = stems
    /\ \A item \in DOMAIN Dictionary :
           /\ ToSet(GeneratorStems(item)) = {k \in DOMAIN Stems : Stems[k].dictionary = item}
           /\ \A j, k \in DOMAIN GeneratorStems(item) :
                  j < k => GeneratorStems(item)[j] < GeneratorStems(item)[k]

\* The search answers exactly: every path spells its word, no reading within
\* the limits is missed, and the two look-ups of a stem agree.
SearchExact == TypeOK /\ PathsSpellTheWord /\ LookupsAgree /\ SearchIsComplete
=============================================================================
