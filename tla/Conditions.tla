------------------------------ MODULE Conditions ------------------------------
(***************************************************************************)
(* Turkish letters, the phonetic attributes of a surface, the suffix       *)
(* templates that realise themselves by vowel harmony (binary/runtime.rs), *)
(* and the conditions of the morphology graph: the compiler that turns a   *)
(* condition tree into a program, the validator that a bundle must pass    *)
(* when it is loaded (nedo-morph-bundle/src/binary.rs), and the machine    *)
(* that evaluates the program on a search path (binary/runtime.rs).        *)
(*                                                                         *)
(* A word is a sequence of letters; a letter outside ASCII is named by two *)
(* characters: ch gh ii oe sh ue stand for the Turkish letters, a^ i^ u^   *)
(* for the ones with a circumflex.  A set of attributes stands for the     *)
(* bit mask.                                                               *)
(*                                                                         *)
(* A tree is [kind, arg], with trees as the argument of And, Or and Not; a *)
(* program is a sequence of instructions [op, arg], an instruction with    *)
(* its operands standing for their bytes.  States and morphemes are named  *)
(* by their ids, dictionary items by their place in Dictionary, and 0 is   *)
(* the null item that a condition list may end with.                       *)
(*                                                                         *)
(* A path is [nodes, dictionary, stem, tail, bits, derivation, suffix,     *)
(* consumed]; a node is [state, morpheme, surface, derivative].            *)
(***************************************************************************)
EXTENDS Naturals, Sequences, SequencesExt, FiniteSetsExt

CONSTANTS NONE,            \* no result
          Dictionary,      \* sequence of [lemma, primary, secondary, attributes, reference]
          StateKeys, MorphemeIds,
          Surfaces,        \* stem surfaces, in the order of their ids
          RootAttributes, PhoneticAttributes,
          InlineStack      \* INLINE_CONDITION_STACK

----------------------------------------------------------------------------
(* Letters, attributes and templates.                                      *)

Vowels == {"a", "e", "ii", "i", "o", "oe", "u", "ue", "a^", "i^", "u^"}
Frontal == {"e", "i", "oe", "ue", "i^", "u^"}
Rounded == {"o", "oe", "u", "ue", "u^"}
Voiceless == {"ch", "f", "h", "k", "p", "s", "sh", "t"}
Stops == {"ch", "k", "p", "t"}
Devoiced == [b |-> "p", c |-> "ch", d |-> "t", g |-> "k", gh |-> "k"]
TurkishLetters ==
    (Vowels \ {"a^", "i^", "u^"}) \cup
    {"b", "c", "ch", "d", "f", "g", "gh", "h", "j", "k", "l", "m", "n", "p", "r",
     "s", "sh", "t", "v", "y", "z", "x", "w", "q"}

HasVowel(word) == ToSet(word) \cap Vowels # {}

(* The attributes of a surface with a vowel: its ends and its last vowel. *)
VowelAttributes(surface) ==
    LET vowel == Last(SelectSeq(surface, LAMBDA c : c \in Vowels))
    IN {IF Last(surface) \in Vowels THEN "LastLetterVowel" ELSE "LastLetterConsonant",
        IF vowel \in Frontal THEN "LastVowelFrontal" ELSE "LastVowelBack",
        IF vowel \in Rounded THEN "LastVowelRounded" ELSE "LastVowelUnrounded",
        IF Head(surface) \in Vowels THEN "FirstLetterVowel" ELSE "FirstLetterConsonant"}

(* A surface without a vowel inherits the harmony of what precedes it. *)
MorphemicAttributes(surface, before) ==
    IF surface = <<>> THEN before
    ELSE LET base == IF HasVowel(surface) THEN VowelAttributes(surface)
                     ELSE (before \ {"LastLetterVowel", "ExpectsConsonant"})
                          \cup {"LastLetterConsonant", "FirstLetterConsonant", "HasNoVowel"}
             voice == IF Last(surface) \in Voiceless THEN {"LastLetterVoiceless"}
                      ELSE {"LastLetterVoiced"}
         IN base \cup voice
            \cup (IF Last(surface) \in Stops THEN {"LastLetterVoicelessStop"} ELSE {})

----------------------------------------------------------------------------
(* Templates: [op, letter] tokens.                                         *)

AVowel(attributes) == IF "LastVowelBack" \in attributes THEN "a" ELSE "e"

IVowel(attributes) ==
    IF "LastVowelUnrounded" \in attributes
    THEN IF "LastVowelFrontal" \in attributes THEN "i" ELSE "ii"
    ELSE IF "LastVowelBack" \in attributes THEN "u" ELSE "ue"

(* What one token adds after `done`, in a suffix that follows `before`. *)
RealizeToken(token, done, before) ==
    LET attributes == MorphemicAttributes(done, before)
        elided == token.first /\ "LastLetterVowel" \in before
    IN CASE token.op \in {"AVowel", "IVowel"} /\ elided -> <<>>
         [] token.op = "AVowel" -> <<AVowel(attributes)>>
         [] token.op = "IVowel" -> <<IVowel(attributes)>>
         [] token.op = "DevoiceFirst" ->
                IF "LastLetterVoiceless" \in attributes THEN <<Devoiced[token.letter]>>
                ELSE <<token.letter>>
         [] token.op = "Append" ->
                IF "LastLetterVowel" \in attributes THEN <<token.letter>> ELSE <<>>
         [] OTHER -> <<token.letter>>

GenerateSurface(template, before) ==
    FoldLeftDomain(LAMBDA done, k :
                       done \o RealizeToken([op |-> template[k].op, letter |-> template[k].letter,
                                             first |-> k = 1], done, before),
                   <<>>, template)

(* A last token "~k" wants a consonant next, a last "!g" a vowel, and may  *)
(* not end the word.                                                       *)
AfterTemplate(attributes, template) ==
    (attributes \ {"CannotTerminate"})
    \cup (CASE Last(template).op = "LastVoiced" -> {"ExpectsConsonant"}
            [] Last(template).op = "LastNotVoiced" -> {"ExpectsVowel", "CannotTerminate"}
            [] OTHER -> {})

(* While analysing, the suffix that ends the word keeps the attributes of  *)
(* what precedes it; generated_phonetic_bits always computes them.         *)
NextAttributes(before, surface, template, endsWord) ==
    IF surface = <<>> THEN before
    ELSE AfterTemplate(IF endsWord THEN before ELSE MorphemicAttributes(surface, before), template)

----------------------------------------------------------------------------
(* Conditions.                                                             *)

PrimaryPos == {"Noun", "Num"}
SecondaryPos == {"None", "Prop", "Abbrv", "Card", "Dist"}

Opcodes ==
    [And |-> 1, Or |-> 2, Not |-> 3,
     HasRootAttribute |-> 16, HasAnyRootAttribute |-> 17, HasPhoneticAttribute |-> 18,
     DictionaryItemIs |-> 19, RootPrimaryPosIs |-> 20, SecondaryPosIs |-> 21,
     DictionaryItemIsAny |-> 22, DictionaryItemIsNone |-> 23, HasAnySuffixSurface |-> 24,
     HasTail |-> 25, HasNoTail |-> 26, HasTailSequence |-> 27, ContainsMorphemeSequence |-> 28,
     CurrentMorphemeIs |-> 29, PreviousMorphemeIs |-> 30, PreviousStateIs |-> 31,
     PreviousStateIsNot |-> 32, RootSurfaceIs |-> 33, RootSurfaceIsAny |-> 34,
     CurrentStateIs |-> 35, CurrentStateIsNot |-> 36, LastDerivationIs |-> 37,
     HasDerivation |-> 38, LastDerivationIsAny |-> 39, CurrentGroupContainsAny |-> 40,
     PreviousGroupContains |-> 41, PreviousGroupContainsMorpheme |-> 42,
     NoSurfaceAfterDerivation |-> 43, ContainsMorpheme |-> 44, PreviousMorphemeIsAny |-> 45,
     CurrentMorphemeIsAny |-> 46, PreviousStateIsAny |-> 47]

Combined(tree) == tree.kind \in {"And", "Or"}

(* ConditionCompiler::compile: operands before operators. *)
RECURSIVE Compile(_)
Compile(tree) ==
    CASE Combined(tree) ->
           FlattenSeq([k \in DOMAIN tree.arg |-> Compile(tree.arg[k])])
           \o <<[op |-> Opcodes[tree.kind], arg |-> Len(tree.arg)]>>
      [] tree.kind = "Not" -> Compile(tree.arg[1]) \o <<[op |-> Opcodes.Not, arg |-> 0]>>
      [] OTHER -> <<[op |-> Opcodes[tree.kind], arg |-> tree.arg]>>

(* The number of conditions the bundle declares for an edge. *)
RECURSIVE ConditionCount(_)
ConditionCount(tree) ==
    IF Combined(tree)
    THEN FoldLeft(LAMBDA n, child : n + IF Combined(child) THEN ConditionCount(child) ELSE 1,
                  0, tree.arg)
    ELSE 1

----------------------------------------------------------------------------
(* Validation at load time.                                                *)

(* A list of dictionary items ascends; only its last element may be null. *)
NullableList(items) ==
    /\ \A k \in DOMAIN items : items[k] = 0 => k = Len(items)
    /\ \A k \in DOMAIN items : items[k] # 0 => items[k] \in DOMAIN Dictionary
    /\ \A j, k \in DOMAIN items : j < k /\ items[k] # 0 => items[j] < items[k]

ValidOperand(op, arg) ==
    CASE op = 16 -> arg \in RootAttributes
      [] op = 17 -> ToSet(arg) \subseteq RootAttributes
      [] op = 18 -> arg \in PhoneticAttributes
      [] op = 19 -> arg \in DOMAIN Dictionary
      [] op = 20 -> arg \in PrimaryPos
      [] op = 21 -> arg \in SecondaryPos
      [] op \in {22, 23} -> NullableList(arg)
      [] op \in {29, 30} -> arg \in MorphemeIds
      [] op \in {27, 28, 42, 44, 45, 46} -> ToSet(arg) \subseteq MorphemeIds
      [] op \in {31, 32, 35, 36, 37} -> arg \in StateKeys
      [] op \in {39, 40, 41, 47} -> ToSet(arg) \subseteq StateKeys
      [] op = 33 -> arg \in DOMAIN Surfaces
      [] op = 34 -> ToSet(arg) \subseteq DOMAIN Surfaces
      [] OTHER -> op \in {24, 25, 26, 38, 43}

Nulls(op, arg) == IF op \in {22, 23} /\ arg # <<>> /\ Last(arg) = 0 THEN 1 ELSE 0

(* One instruction on [ok, stack, nulls], the stack holding condition      *)
(* counts.                                                                 *)
ValidateStep(s, code) ==
    LET depth == Len(s.stack)
        folded == SubSeq(s.stack, depth - code.arg + 1, depth)
    IN CASE ~s.ok -> s
         [] code.op \in {1, 2} ->
                IF code.arg < 2 \/ depth < code.arg THEN [s EXCEPT !.ok = FALSE]
                ELSE [s EXCEPT !.stack = Append(SubSeq(s.stack, 1, depth - code.arg),
                                                FoldLeft(LAMBDA a, b : a + b, 0, folded))]
         [] code.op = 3 ->
                IF depth = 0 THEN [s EXCEPT !.ok = FALSE]
                ELSE [s EXCEPT !.stack = Append(Front(s.stack), 1)]
         [] OTHER ->
                IF ~ValidOperand(code.op, code.arg) THEN [s EXCEPT !.ok = FALSE]
                ELSE [s EXCEPT !.stack = Append(s.stack, 1),
                               !.nulls = s.nulls + Nulls(code.op, code.arg)]

(* What a program counts, or NONE when the bundle is refused. *)
Validate(program) ==
    LET end == FoldLeft(ValidateStep, [ok |-> TRUE, stack |-> <<>>, nulls |-> 0], program)
    IN IF end.ok /\ Len(end.stack) = 1 THEN [count |-> end.stack[1], nulls |-> end.nulls] ELSE NONE

-----------------------------------------------------------------------------
(***************************************************************************)
(* ConditionVm (binary/runtime.rs): a condition program evaluated on the   *)
(* history of a search path with a stack of Booleans, the first            *)
(* InlineStack of which live in an array inside the machine.               *)
(***************************************************************************)

(* BoolStack: the array is used until it is full; then every value moves   *)
(* to a vector, and back when a reduction makes them fit again.            *)
EmptyStack == [inline |-> [k \in 1..InlineStack |-> FALSE], len |-> 0,
               spilled |-> FALSE, values |-> <<>>]

Push(s, value) ==
    CASE s.spilled -> [s EXCEPT !.values = Append(@, value)]
      [] ~s.spilled /\ s.len < InlineStack ->
             [s EXCEPT !.inline[s.len + 1] = value, !.len = s.len + 1]
      [] OTHER -> [s EXCEPT !.spilled = TRUE, !.values = Append(s.inline, value)]

NegateLast(s) ==
    IF s.spilled THEN [s EXCEPT !.values[Len(s.values)] = ~@]
    ELSE [s EXCEPT !.inline[s.len] = ~@]

Reduced(values, op) ==
    IF op = Opcodes.And THEN \A k \in DOMAIN values : values[k]
    ELSE \E k \in DOMAIN values : values[k]

(* Fault: values that fit into the array again are not copied back. *)
ReduceLastStale(s, count, op) ==
    LET start == (IF s.spilled THEN Len(s.values) ELSE s.len) - count
        all == IF s.spilled THEN s.values ELSE s.inline
        left == Append(SubSeq(all, 1, start), Reduced(SubSeq(all, start + 1, start + count), op))
    IN CASE ~s.spilled -> [s EXCEPT !.inline[start + 1] = Last(left), !.len = start + 1]
         [] Len(left) > InlineStack -> [s EXCEPT !.values = left]
         [] OTHER -> [s EXCEPT !.len = Len(left), !.spilled = FALSE, !.values = <<>>]

ReduceLast(s, count, op) ==
    IF s.spilled
    THEN LET start == Len(s.values) - count
             value == Reduced(SubSeq(s.values, start + 1, Len(s.values)), op)
             left == Append(SubSeq(s.values, 1, start), value)
         IN IF Len(left) <= InlineStack
            THEN [inline |-> [k \in 1..InlineStack |->
                                 IF k <= Len(left) THEN left[k] ELSE s.inline[k]],
                  len |-> Len(left), spilled |-> FALSE, values |-> <<>>]
            ELSE [s EXCEPT !.values = left]
    ELSE LET start == s.len - count
             value == Reduced(SubSeq(s.inline, start + 1, s.len), op)
         IN Push([s EXCEPT !.len = start], value)

(* The only value left, or NONE. *)
Single(s) ==
    CASE s.spilled /\ Len(s.values) = 1 -> s.values[1]
      [] ~s.spilled /\ s.len = 1 -> s.inline[1]
      [] OTHER -> NONE

----------------------------------------------------------------------------
(* What a condition may ask of a path.  The root node starts the history   *)
(* and no group; a derivative node starts a group.                         *)

Current(path) == Last(path.nodes)
HasPrevious(path) == Len(path.nodes) > 1
Previous(path) == path.nodes[Len(path.nodes) - 1]

DerivationUpTo(nodes, last) == Max({0} \cup {k \in 2..last : nodes[k].derivative})
LastDerivation(path) == DerivationUpTo(path.nodes, Len(path.nodes))

(* The nodes of the group that ends at `last`. *)
GroupAt(nodes, last) == {nodes[k] : k \in Max({2, DerivationUpTo(nodes, last)})..last}
CurrentGroup(path) == GroupAt(path.nodes, Len(path.nodes))
PreviousGroup(path) ==
    IF LastDerivation(path) = 0 THEN {} ELSE GroupAt(path.nodes, LastDerivation(path) - 1)

EndsWith(path, list) ==
    /\ Len(path.nodes) >= Len(list)
    /\ \A k \in DOMAIN list : path.nodes[Len(path.nodes) - Len(list) + k].morpheme = list[k]
ContainsSequence(path, list) ==
    list # <<>> /\ \E n \in Len(list)..Len(path.nodes) :
                       \A k \in DOMAIN list : path.nodes[n - Len(list) + k].morpheme = list[k]
NoSurfaceAfterDerivation(path) ==
    \A k \in 2..Len(path.nodes) : LastDerivation(path) < k => path.nodes[k].surface = <<>>
Within(x, list) == \E k \in DOMAIN list : list[k] = x

EvaluateFeature(op, arg, path, hasTail) ==
    LET item == Dictionary[path.dictionary]
    IN CASE op = 16 -> arg \in item.attributes
         [] op = 17 -> ToSet(arg) \cap item.attributes # {}
         [] op = 18 -> arg \in path.bits
         [] op = 19 -> path.dictionary = arg
         [] op = 20 -> item.primary = arg
         [] op = 21 -> item.secondary = arg
         [] op = 22 -> Within(path.dictionary, arg)
         [] op = 23 -> ~Within(path.dictionary, arg)
         [] op = 24 -> path.suffix
         [] op = 25 -> hasTail
         [] op = 26 -> ~hasTail

EvaluateMorphemeOrSurface(op, arg, path) ==
    CASE op = 27 -> EndsWith(path, arg)
      [] op = 28 -> ContainsSequence(path, arg)
      [] op = 29 -> Current(path).morpheme = arg
      [] op = 30 -> HasPrevious(path) /\ Previous(path).morpheme = arg
      [] op = 33 -> path.stem = arg
      [] op = 34 -> Within(path.stem, arg)
      [] op = 42 -> \E node \in PreviousGroup(path) : Within(node.morpheme, arg)
      [] op = 43 -> NoSurfaceAfterDerivation(path)
      [] op = 44 -> \E k \in DOMAIN path.nodes : Within(path.nodes[k].morpheme, arg)
      [] op = 45 -> HasPrevious(path) /\ Within(Previous(path).morpheme, arg)
      [] op = 46 -> Within(Current(path).morpheme, arg)

EvaluateStateOrGroup(op, arg, path) ==
    LET derivation == LastDerivation(path)
    IN CASE op = 31 -> HasPrevious(path) /\ Previous(path).state = arg
         [] op = 32 -> ~(HasPrevious(path) /\ Previous(path).state = arg)
         [] op = 35 -> Current(path).state = arg
         [] op = 36 -> Current(path).state # arg
         [] op = 37 -> derivation # 0 /\ path.nodes[derivation].state = arg
         [] op = 38 -> path.derivation
         [] op = 39 -> derivation # 0 /\ Within(path.nodes[derivation].state, arg)
         [] op = 40 -> \E node \in CurrentGroup(path) : Within(node.state, arg)
         [] op = 41 -> \E node \in PreviousGroup(path) : Within(node.state, arg)
         [] op = 47 -> HasPrevious(path) /\ Within(Previous(path).state, arg)

EvaluateLeaf(op, arg, path, hasTail) ==
    CASE op \in 16..26 -> EvaluateFeature(op, arg, path, hasTail)
      [] op \in 27..30 \cup 33..34 \cup 42..46 -> EvaluateMorphemeOrSurface(op, arg, path)
      [] op \in 31..32 \cup 35..41 \cup {47} -> EvaluateStateOrGroup(op, arg, path)

Execute(s, code, path, hasTail) ==
    CASE code.op \in {1, 2} -> ReduceLast(s, code.arg, code.op)
      [] code.op = 3 -> NegateLast(s)
      [] OTHER -> Push(s, EvaluateLeaf(code.op, code.arg, path, hasTail))

(* An edge without a program is always open. *)
Evaluate(program, path, hasTail) ==
    \/ program = <<>>
    \/ Single(FoldLeft(LAMBDA s, code : Execute(s, code, path, hasTail), EmptyStack, program))

----------------------------------------------------------------------------
(* What a tree says, without compiling it. *)
RECURSIVE Means(_, _, _)
Means(tree, path, hasTail) ==
    LET previous == IF HasPrevious(path) THEN {Previous(path)} ELSE {}
        derived == IF LastDerivation(path) = 0 THEN {} ELSE {path.nodes[LastDerivation(path)]}
        item == Dictionary[path.dictionary]
        among(nodes, list) == \E n \in nodes : n.state \in ToSet(list)
        naming(nodes, list) == \E n \in nodes : n.morpheme \in ToSet(list)
        arg == tree.arg
    IN CASE tree.kind = "And" -> \A k \in DOMAIN arg : Means(arg[k], path, hasTail)
         [] tree.kind = "Or" -> \E k \in DOMAIN arg : Means(arg[k], path, hasTail)
         [] tree.kind = "Not" -> ~Means(arg[1], path, hasTail)
         [] tree.kind = "HasRootAttribute" -> arg \in item.attributes
         [] tree.kind = "HasAnyRootAttribute" -> ToSet(arg) \cap item.attributes # {}
         [] tree.kind = "HasPhoneticAttribute" -> arg \in path.bits
         [] tree.kind = "DictionaryItemIs" -> path.dictionary = arg
         [] tree.kind = "RootPrimaryPosIs" -> item.primary = arg
         [] tree.kind = "SecondaryPosIs" -> item.secondary = arg
         [] tree.kind = "DictionaryItemIsAny" -> path.dictionary \in ToSet(arg)
         [] tree.kind = "DictionaryItemIsNone" -> path.dictionary \notin ToSet(arg)
         [] tree.kind = "HasAnySuffixSurface" ->
                \E k \in 2..Len(path.nodes) : path.nodes[k].surface # <<>>
         [] tree.kind = "HasTail" -> hasTail
         [] tree.kind = "HasNoTail" -> ~hasTail
         [] tree.kind = "HasTailSequence" -> IsSuffix(arg, [k \in DOMAIN path.nodes |-> path.nodes[k].morpheme])
         [] tree.kind = "ContainsMorphemeSequence" -> ContainsSequence(path, arg)
         [] tree.kind = "CurrentMorphemeIs" -> Current(path).morpheme = arg
         [] tree.kind = "PreviousMorphemeIs" -> naming(previous, <<arg>>)
         [] tree.kind = "PreviousStateIs" -> among(previous, <<arg>>)
         [] tree.kind = "PreviousStateIsNot" -> ~among(previous, <<arg>>)
         [] tree.kind = "RootSurfaceIs" -> path.nodes[1].surface = Surfaces[arg]
         [] tree.kind = "RootSurfaceIsAny" -> path.nodes[1].surface \in {Surfaces[k] : k \in ToSet(arg)}
         [] tree.kind = "CurrentStateIs" -> Current(path).state = arg
         [] tree.kind = "CurrentStateIsNot" -> Current(path).state # arg
         [] tree.kind = "LastDerivationIs" -> among(derived, <<arg>>)
         [] tree.kind = "HasDerivation" -> derived # {}
         [] tree.kind = "LastDerivationIsAny" -> among(derived, arg)
         [] tree.kind = "CurrentGroupContainsAny" -> among(CurrentGroup(path), arg)
         [] tree.kind = "PreviousGroupContains" -> among(PreviousGroup(path), arg)
         [] tree.kind = "PreviousGroupContainsMorpheme" -> naming(PreviousGroup(path), arg)
         [] tree.kind = "NoSurfaceAfterDerivation" -> NoSurfaceAfterDerivation(path)
         [] tree.kind = "ContainsMorpheme" -> naming(ToSet(path.nodes), arg)
         [] tree.kind = "PreviousMorphemeIsAny" -> naming(previous, arg)
         [] tree.kind = "CurrentMorphemeIsAny" -> naming({Current(path)}, arg)
         [] tree.kind = "PreviousStateIsAny" -> among(previous, arg)
=============================================================================
