------------------------- MODULE CommandLineProofs --------------------------
(***************************************************************************)
(* Proofs about CommandLine, for every size of file, context, batch and    *)
(* window and every number of pulls and turns.  Files, conversation and    *)
(* model have invariants of their own, which each of their operations      *)
(* keeps; Control ties them to where the launch is.                        *)
(***************************************************************************)
EXTENDS CommandLine, SequenceTheorems, TLAPS

\* The bounds and sizes are numbers.
LEMMA Sizes ==
  /\ {MaxPulls, HistoryCap, MaxTurns, MaxPlugins, MaxSaid} \subseteq Nat
  /\ {Size, Capacity, BatchSize} \subseteq Nat \ {0}
BY CommandLineAssumption

----------------------------------------------------------------------------
(* The files: what is under the final name is whole and is not the file    *)
(* curl writes; what curl writes is a beginning of the model.              *)

FilesInv ==
  /\ F!TypeOK
  /\ dst # None => F!Complete(dst) /\ part # dst
  /\ fd[Launch] # None => part = fd[Launch] /\ disk[part] = 1..pos[Launch]
  /\ fetch[Launch] = "check" /\ rc[Launch] = 0 => F!Complete(part)
  /\ fetch[Launch] \in {"rename", "again"} => rc[Launch] = 0 /\ F!Complete(part)

\* What is under the final name is whole, also in the middle of any step.
LEMMA FilesStart == F!Init => FilesInv
<1>1. SUFFICES ASSUME F!Init PROVE FilesInv
  OBVIOUS
<1>2. MaxPulls \in Nat /\ Size \in Nat
  BY Sizes
<1>3. F!TypeOK
  BY <1>1, <1>2 DEF F!Init, F!TypeOK
<1> QED
  BY <1>1, <1>3 DEF F!Init, FilesInv

\* No step of a pull leaves an incomplete model under the final name, and
\* only a complete one takes its place.
LEMMA FilesStay ==
  ASSUME FilesInv, F!Next \/ UNCHANGED files
  PROVE  FilesInv' /\ (F!Complete(dst) /\ dst' # dst =>
                         fetch[Launch] \in {"rename", "again"} /\ rc[Launch] = 0 /\ F!Complete(part))
<1> DEFINE P == Launch
<1> USE DEF FilesInv, F!TypeOK, F!Complete, F!Holds, F!Goto, F!End
<1>0. MaxPulls \in Nat /\ Size \in Nat /\ None \notin Inode
  BY CommandLineAssumption
<1>1. CASE F!UseCached(P)
  BY <1>0, <1>1 DEF F!UseCached
<1>2. CASE \E force \in BOOLEAN : F!StartPull(P, force)
  BY <1>0, <1>2 DEF F!StartPull
<1>3. CASE F!ClearPart(P)
  BY <1>0, <1>3 DEF F!ClearPart
<1>4. CASE F!CurlOpen(P)
  BY <1>0, <1>4 DEF F!CurlOpen, F!Unused
<1>5. CASE F!CurlWrite(P)
  <2>1. fd[P] \in Inode /\ part = fd[P] /\ part # dst /\ pos[P] \in 0..Size /\ pos[P] < Size
    BY <1>0, <1>5 DEF F!CurlWrite
  <2>2. disk' = [disk EXCEPT ![part] = 1..(pos[P] + 1)] /\ pos' = [pos EXCEPT ![P] = @ + 1]
    <3>1. 1..pos[P] \cup {pos[P] + 1} = 1..(pos[P] + 1)
      BY <2>1
    <3> QED
      BY <1>5, <2>1, <3>1 DEF F!CurlWrite
  <2>3. 1..(pos[P] + 1) \in SUBSET (1..Size) /\ pos[P] + 1 \in 0..Size
    BY <1>0, <2>1
  <2>4. fetch[P] = "curl" /\ UNCHANGED <<dst, part, fetch, fd, rc, fetched, pulls>>
    BY <1>5, <2>1 DEF F!CurlWrite
  <2> QED
    BY <1>0, <2>1, <2>2, <2>3, <2>4
<1>6. CASE F!CurlRetry(P)
  BY <1>0, <1>6 DEF F!CurlRetry
<1>7. CASE \E code \in {0, 1} : F!CurlExit(P, code)
  BY <1>0, <1>7 DEF F!CurlExit
<1>8. CASE F!DownloadFailed(P)
  BY <1>0, <1>8 DEF F!DownloadFailed
<1>9. CASE F!Downloaded(P)
  BY <1>0, <1>9 DEF F!Downloaded
<1>10. CASE F!Rename(P)
  BY <1>0, <1>10 DEF F!Rename
<1>11. CASE F!RenameFails(P)
  BY <1>0, <1>11 DEF F!RenameFails
<1>12. CASE F!RenameFailsAgain(P)
  BY <1>0, <1>12 DEF F!RenameFailsAgain
<1>13. CASE F!Crash(P)
  BY <1>0, <1>13 DEF F!Crash
<1>14. CASE UNCHANGED files
  BY <1>14 DEF files
<1> HIDE DEF FilesInv, F!TypeOK, F!Complete, F!Holds, F!Goto, F!End
<1> QED
  BY <1>1, <1>2, <1>3, <1>4, <1>5, <1>6, <1>7, <1>8, <1>9, <1>10, <1>11, <1>12, <1>13, <1>14
     DEF F!Next, F!Fetch, F!Progress, F!Curl

----------------------------------------------------------------------------
(* The conversation.                                                       *)

ChatInv ==
  /\ G!TypeOK
  /\ turn = "prompt" => /\ prompt # <<>> /\ text = <<>>
                        /\ context = SubSeq(prompt, 1, fed)
                        /\ fed > 0 => logits = context
  /\ turn = "sample" => logits = prompt \o text /\ context = logits
  /\ turn = "decode" => text # <<>> /\ Append(context, Last(text)) = prompt \o text
  /\ turn \in {"sample", "decode"} => recent = G!Tail2(prompt \o text, HistoryCap)

\* The lesser of two numbers.
LEMMA MinOf ==
  ASSUME NEW a \in Nat, NEW b \in Nat
  PROVE  (a <= b => G!Min2(a, b) = a) /\ (b <= a => G!Min2(a, b) = b)
BY DEF G!Min2

\* The end of a sequence is a sequence of as many tokens as there are, up to n.
LEMMA TailType ==
  ASSUME NEW s \in Seq(Token), NEW n \in Nat
  PROVE  G!Tail2(s, n) \in Seq(Token) /\ Len(G!Tail2(s, n)) = G!Min2(n, Len(s))
<1>1. Len(s) \in Nat /\ \A i \in 1..Len(s) : s[i] \in Token
  OBVIOUS
<1>2. G!Min2(n, Len(s)) \in 0..Len(s)
  BY <1>1 DEF G!Min2
<1>3. \A i \in (Len(s) - G!Min2(n, Len(s)) + 1)..Len(s) : s[i] \in Token
  BY <1>1, <1>2
<1> QED
  BY <1>1, <1>2, <1>3, SubSeqProperties DEF G!Tail2

\* push_back and erase keep the window the end of what was said.
LEMMA WindowIsTail ==
  ASSUME NEW s \in Seq(Token), NEW e \in Token, recent = G!Tail2(s, HistoryCap)
  PROVE  G!Window(e) = G!Tail2(Append(s, e), HistoryCap)
<1> DEFINE H == HistoryCap
           l == Len(s)
           grown == Append(recent, e)
           all == Append(s, e)
<1>1. H \in Nat /\ l \in Nat /\ all \in Seq(Token) /\ Len(all) = l + 1
  <2>1. HistoryCap \in Nat
    BY CommandLineAssumption
  <2> QED
    BY <2>1, AppendProperties
<1>2. recent \in Seq(Token) /\ Len(recent) = G!Min2(H, l)
  BY <1>1, TailType
<1>3. G!Tail2(all, H) \in Seq(Token) /\ Len(G!Tail2(all, H)) = G!Min2(H, l + 1)
  BY <1>1, TailType
<1>4. CASE H = 0
  <2>1. Len(recent) = 0 /\ Len(G!Tail2(all, H)) = 0
    BY <1>1, <1>2, <1>3, <1>4 DEF G!Min2
  <2> QED
    BY <1>2, <1>3, <1>4, <2>1, EmptySeq DEF G!Window
<1>5. CASE H > 0 /\ l < H
  <2>1. recent = s
    <3>1. l - G!Min2(H, l) + 1 = 1
      BY <1>1, <1>5 DEF G!Min2
    <3> QED
      BY <3>1, SubSeqFull DEF G!Tail2
  <2>2. G!Tail2(all, H) = all
    <3>1. Len(all) - G!Min2(H, Len(all)) + 1 = 1
      BY <1>1, <1>5 DEF G!Min2
    <3> QED
      BY <1>1, <3>1, SubSeqFull DEF G!Tail2
  <2> QED
    BY <1>1, <1>5, <2>1, <2>2 DEF G!Window
<1>6. CASE H > 0 /\ H <= l
  <2>1. Len(recent) = H /\ grown \in Seq(Token) /\ Len(grown) = H + 1
    BY <1>1, <1>2, <1>6 DEF G!Min2
  <2>2. G!Window(e) = Tail(grown)
    BY <1>1, <1>6, <2>1 DEF G!Window
  <2>3. /\ Tail(grown) \in Seq(Token) /\ Len(Tail(grown)) = H
        /\ \A i \in 1..H : Tail(grown)[i] = grown[i + 1]
    BY <1>1, <2>1, HeadTailProperties, AppendProperties
  <2>4. Len(G!Tail2(all, H)) = H /\ \A i \in 1..H : G!Tail2(all, H)[i] = all[l - H + 1 + i]
    <3>1. G!Tail2(all, H) = SubSeq(all, l + 2 - H, l + 1)
      <4>1. Len(all) - G!Min2(H, Len(all)) + 1 = l + 2 - H
        BY <1>1, <1>6, MinOf
      <4> QED
        BY <1>1, <4>1 DEF G!Tail2
    <3>2. \A i \in (l + 2 - H)..(l + 1) : all[i] \in Token
      BY <1>1, <1>6
    <3>3. \A i \in 1..H : SubSeq(all, l + 2 - H, l + 1)[i] = all[l - H + 1 + i]
      BY <1>1, <1>6, <3>2, SubSeqProperties
    <3>4. G!Min2(H, l + 1) = H
      BY <1>1, <1>6, MinOf
    <3> QED
      BY <1>3, <3>1, <3>3, <3>4
  <2>5. \A i \in 1..H - 1 : recent[i + 1] = s[l - H + 1 + i]
    <3>1. recent = SubSeq(s, l - H + 1, l)
      <4>1. l - G!Min2(H, l) + 1 = l - H + 1
        BY <1>1, <1>6, MinOf
      <4> QED
        BY <4>1 DEF G!Tail2
    <3>2. \A i \in (l - H + 1)..l : s[i] \in Token
      BY <1>1, <1>6
    <3>3. \A i \in 1..H : SubSeq(s, l - H + 1, l)[i] = s[l - H + i]
      BY <1>1, <1>6, <3>2, SubSeqProperties
    <3> QED
      BY <1>1, <1>6, <3>1, <3>3, SMTT(30)
  <2>6. ASSUME NEW i \in 1..H
        PROVE  Tail(grown)[i] = G!Tail2(all, H)[i]
    <3>1. CASE i = H
      BY <1>1, <1>2, <1>6, <2>1, <2>3, <2>4, <3>1, AppendProperties
    <3>2. CASE i < H
      <4>1. grown[i + 1] = recent[i + 1]
        BY <1>1, <1>2, <2>1, <3>2, AppendProperties
      <4>2. all[l - H + 1 + i] = s[l - H + 1 + i]
        BY <1>1, <1>6, <3>2, AppendProperties
      <4>3. i \in 1..H - 1
        BY <1>1, <3>2
      <4> QED
        BY <2>3, <2>4, <2>5, <4>1, <4>2, <4>3
    <3>3. i = H \/ i < H
      BY <1>1
    <3> QED
      BY <3>1, <3>2, <3>3
  <2> QED
    BY <1>3, <2>2, <2>3, <2>4, <2>6, SeqEqual
<1> QED
  BY <1>1, <1>4, <1>5, <1>6

\* A session that has not begun, or is gone with its process, says nothing.
LEMMA ChatStarts == (G!Init => ChatInv) /\ (G!Forget => ChatInv')
<1>1. MaxTurns \in Nat
  BY Sizes
<1>2. Len(<<>>) = 0 /\ <<>> \in Seq(Token)
  OBVIOUS
<1>3. 0 \in 0..MaxTurns /\ 0 \in 0..Len(<<>>)
  BY <1>1, <1>2
<1>4. G!Init => ChatInv
  BY <1>2, <1>3 DEF G!Init, ChatInv, G!TypeOK
<1>5. G!Forget => ChatInv'
  BY <1>2, <1>3 DEF G!Forget, ChatInv, G!TypeOK
<1> QED
  BY <1>4, <1>5

\* A turn starts with an empty context and nothing said in it.
LEMMA TurnStarts ==
  ASSUME ChatInv, NEW tokens \in Seq(Token), G!StartTurn(tokens)
  PROVE  ChatInv'
<1>1. MaxTurns \in Nat /\ Len(tokens) \in Nat /\ Len(<<>>) = 0 /\ <<>> \in Seq(Token)
  BY Sizes
<1>2. G!TypeOK'
  BY <1>1 DEF ChatInv, G!TypeOK, G!StartTurn
<1>3. SubSeq(tokens, 1, 0) = <<>>
  BY SubSeqEmpty
<1> QED
  BY <1>1, <1>2, <1>3 DEF ChatInv, G!StartTurn

\* What is decoded, sampled and remembered follows what was said so far.
LEMMA ChatStays ==
  ASSUME ChatInv, G!Step \/ UNCHANGED chat
  PROVE  ChatInv' /\ prompt' = prompt /\ turns' = turns
<1>0. /\ HistoryCap \in Nat /\ BatchSize \in Nat \ {0} /\ Capacity \in Nat
      /\ Len(prompt) \in Nat /\ prompt \in Seq(Token) /\ text \in Seq(Token)
      /\ context \in Seq(Token) /\ G!TypeOK
  BY Sizes DEF ChatInv, G!TypeOK
<1>1. CASE G!DecodePrompt
  <2> DEFINE n == G!Min2(fed + BatchSize, Len(prompt))
  <2>1. fed \in Nat /\ fed < Len(prompt) /\ turn = "prompt"
    BY <1>0, <1>1 DEF G!DecodePrompt, G!TypeOK
  <2>2. n \in fed + 1..Len(prompt)
    <3>1. fed + BatchSize \in Nat
      BY <1>0, <2>1
    <3> QED
      BY <1>0, <2>1, <3>1 DEF G!Min2
  <2>3. G!Batch = SubSeq(prompt, fed + 1, n)
    BY DEF G!Batch
  <2>4. G!Batch \in Seq(Token) /\ Len(G!Batch) = n - fed
    <3>1. \A i \in fed + 1..n : prompt[i] \in Token
      BY <1>0, <2>1, <2>2
    <3>2. fed + 1 \in Int /\ n \in Int /\ fed + 1 <= n /\ n - (fed + 1) + 1 = n - fed
      BY <1>0, <2>1, <2>2
    <3> HIDE DEF n
    <3>3. /\ SubSeq(prompt, fed + 1, n) \in Seq(Token)
          /\ Len(SubSeq(prompt, fed + 1, n)) = n - (fed + 1) + 1
      BY <3>1, <3>2, SubSeqProperties
    <3> QED
      BY <2>3, <3>2, <3>3
  <2>5. context \o G!Batch = SubSeq(prompt, 1, n)
    <3>1. 1 \in 1..Len(prompt) + 1 /\ fed \in 1 - 1..Len(prompt) /\ n \in fed..Len(prompt)
      BY <1>0, <2>1, <2>2
    <3>2. context = SubSeq(prompt, 1, fed)
      BY <2>1 DEF ChatInv
    <3> HIDE DEF n
    <3> QED
      BY <1>0, <2>3, <3>1, <3>2, ConcatAdjacentSubSeq
  <2>6. /\ fed' = n /\ context' = SubSeq(prompt', 1, fed') /\ logits' = context'
        /\ context' \in Seq(Token)
    <3>1. fed' = fed + (n - fed) /\ context' = context \o G!Batch /\ logits' = context' /\ prompt' = prompt
      BY <1>1, <2>4 DEF G!DecodePrompt, G!Decoded
    <3>2. fed' = n
      BY <1>0, <2>1, <2>2, <3>1
    <3> HIDE DEF n
    <3>3. context \o G!Batch \in Seq(Token)
      BY <1>0, <2>4
    <3> QED
      BY <2>5, <3>1, <3>2, <3>3
  <2>7. UNCHANGED <<turn, prompt, text, recent, turns>>
    BY <1>1 DEF G!DecodePrompt
  <2>8. fed' \in 0..Len(prompt)
    BY <1>0, <2>1, <2>2, <2>6
  <2> QED
    BY <1>0, <2>1, <2>6, <2>7, <2>8 DEF ChatInv, G!TypeOK
<1>2. CASE G!DecodePromptFails
  BY <1>0, <1>2 DEF G!DecodePromptFails, ChatInv, G!TypeOK
<1>3. CASE G!PromptDone
  <2>1. turn = "prompt" /\ fed = Len(prompt) /\ prompt # <<>> /\ fed > 0 /\ text = <<>>
    BY <1>0, <1>3, EmptySeq DEF G!PromptDone, ChatInv
  <2>2. prompt \o text = prompt /\ logits = prompt /\ context = prompt
    <3>1. logits = context /\ context = SubSeq(prompt, 1, Len(prompt))
      BY <2>1 DEF ChatInv
    <3> QED
      BY <1>0, <2>1, <3>1, SubSeqFull, ConcatEmptySeq
  <2>3. recent' = G!Tail2(prompt, HistoryCap) /\ recent' \in Seq(Token)
    BY <1>0, <1>3, TailType DEF G!PromptDone
  <2>4. turn' = "sample" /\ UNCHANGED <<prompt, fed, context, logits, text, turns>>
    BY <1>3 DEF G!PromptDone
  <2> QED
    BY <1>0, <2>1, <2>2, <2>3, <2>4 DEF ChatInv, G!TypeOK
<1>4. CASE G!OutOfTokens
  BY <1>0, <1>4 DEF G!OutOfTokens, ChatInv, G!TypeOK
<1>5. CASE \E next \in Token : G!SampleStop(next)
  BY <1>0, <1>5 DEF G!SampleStop, ChatInv, G!TypeOK
<1>6. ASSUME NEW next \in Token, G!Sample(next)
      PROVE  ChatInv' /\ prompt' = prompt /\ turns' = turns
  <2> DEFINE said == prompt \o text
  <2>1. /\ turn' = "decode" /\ text' = Append(text, next) /\ recent' = G!Window(next)
        /\ UNCHANGED <<prompt, fed, context, logits, turns>>
    BY <1>6 DEF G!Sample
  <2>2. context = said /\ recent = G!Tail2(said, HistoryCap) /\ said \in Seq(Token)
    BY <1>0, <1>6 DEF G!Sample, ChatInv
  <2>3. prompt' \o text' = Append(said, next)
    <3>1. <<next>> \in Seq(Token) /\ text' = text \o <<next>>
      BY <1>0, <2>1, AppendIsConcat
    <3>2. prompt \o (text \o <<next>>) = said \o <<next>>
      BY <1>0, <3>1, ConcatAssociative
    <3> QED
      BY <2>1, <2>2, <3>1, <3>2, AppendIsConcat
  <2>4. text' \in Seq(Token) /\ text' # <<>> /\ Last(text') = next
    BY <1>0, <2>1, AppendProperties DEF Last
  <2>5. recent' = G!Tail2(prompt' \o text', HistoryCap) /\ recent' \in Seq(Token)
    <3>1. recent' = G!Tail2(Append(said, next), HistoryCap)
      BY <2>1, <2>2, WindowIsTail
    <3>2. Append(said, next) \in Seq(Token)
      BY <2>2
    <3> QED
      BY <1>0, <2>3, <3>1, <3>2, TailType
  <2>6. G!TypeOK'
    BY <1>0, <2>1, <2>4, <2>5 DEF G!TypeOK
  <2> QED
    BY <2>1, <2>2, <2>3, <2>4, <2>5, <2>6 DEF ChatInv
<1>7. CASE G!DecodeNext
  <2>1. /\ turn' = "sample" /\ turn = "decode" /\ UNCHANGED <<prompt, fed, text, recent, turns>>
        /\ context' = context \o <<Last(text)>> /\ logits' = context'
    <3>1. turn' = "sample" /\ turn = "decode" /\ UNCHANGED <<prompt, fed, text, recent, turns>>
      BY <1>7 DEF G!DecodeNext
    <3>2. G!Decoded(<<Last(text)>>)
      BY <1>7 DEF G!DecodeNext, G!Last, Last
    <3>3. context' = context \o <<Last(text)>> /\ logits' = context'
      BY <3>2 DEF G!Decoded
    <3> QED
      BY <3>1, <3>3
  <2>2. Last(text) \in Token
    BY <1>0, <2>1, EmptySeq DEF Last, ChatInv
  <2>3. context' = prompt \o text
    BY <1>0, <2>1, <2>2, AppendIsConcat DEF ChatInv
  <2>4. prompt \o text \in Seq(Token)
    BY <1>0
  <2> QED
    BY <1>0, <2>1, <2>3, <2>4 DEF ChatInv, G!TypeOK
<1>8. CASE G!DecodeNextFails
  BY <1>0, <1>8 DEF G!DecodeNextFails, ChatInv, G!TypeOK
<1>9. CASE UNCHANGED chat
  BY <1>9 DEF chat, ChatInv, G!TypeOK, G!Tail2, G!Min2
<1> QED
  BY <1>1, <1>2, <1>3, <1>4, <1>5, <1>6, <1>7, <1>8, <1>9 DEF G!Step

----------------------------------------------------------------------------
(* The model: which resources it may hold at each stage of its load.       *)

ModelInv ==
  /\ stage \in L!Stages /\ engine \in {"none", "llama", "generic"} /\ held \subseteq L!Resources
  /\ stage \in {"none", "refused"} => held = {}
  /\ stage \in {"check", "llama", "read"} => held \subseteq {"metadata"}
  /\ stage \in {"device", "fallback", "weights", "reopen", "tensors", "tokenizer"} =>
       held \subseteq L!GenericParts \cup {"metadata", "llama"}
  /\ stage \in {"fallback", "weights", "reopen", "tensors"} => "backend" \in held
  /\ stage \in {"tokenizer", "loaded"} => held \cap {"llama", "backend"} # {}
  /\ stage = "loaded" => "metadata" \notin held
  /\ "context" \in held => stage = "loaded"

\* Nothing is held before a load and after the end of the process.
LEMMA ModelStarts == (L!Nothing => ModelInv) /\ (L!Lose => ModelInv')
BY DEF L!Nothing, L!Lose, ModelInv, L!Stages

\* What one step of a load takes or gives back is what its stage allows.
LEMMA ModelStays ==
  ASSUME ModelInv, L!Load \/ UNCHANGED model
  PROVE  ModelInv' /\ ("context" \notin held => "context" \notin held')
<1> USE DEF ModelInv, L!Stages, L!GenericParts, L!Resources, L!Go, L!Refuse, L!Done
<1>1. CASE L!OpenMetadata
  BY <1>1 DEF L!OpenMetadata
<1>2. CASE L!Reject
  BY <1>2 DEF L!Reject
<1>3. CASE \E e \in {"llama", "generic"} : L!Choose(e)
  BY <1>3 DEF L!Choose
<1>4. CASE L!LoadLlama
  BY <1>4 DEF L!LoadLlama
<1>5. CASE L!GiveUp
  BY <1>5 DEF L!GiveUp
<1>6. CASE L!ReadHeader
  BY <1>6 DEF L!ReadHeader
<1>7. CASE \E gpu \in BOOLEAN : L!OpenDevice(gpu)
  BY <1>7 DEF L!OpenDevice
<1>8. CASE L!OpenFallback
  BY <1>8 DEF L!OpenFallback
<1>9. CASE L!AllocateWeights
  BY <1>9 DEF L!AllocateWeights
<1>10. CASE L!ReopenFile
  BY <1>10 DEF L!ReopenFile
<1>11. CASE L!ReadTensors
  BY <1>11 DEF L!ReadTensors
<1>12. CASE L!MakeTokenizer
  BY <1>12 DEF L!MakeTokenizer
<1>13. CASE L!Throw
  BY <1>13 DEF L!Throw
<1>14. CASE UNCHANGED model
  BY <1>14 DEF model
<1> QED
  BY <1>1, <1>2, <1>3, <1>4, <1>5, <1>6, <1>7, <1>8, <1>9, <1>10, <1>11, <1>12, <1>13, <1>14 DEF L!Load

\* A context comes and goes while its model is loaded.
LEMMA ModelServes ==
  ASSUME ModelInv, stage = "loaded", L!CreateContext \/ L!FreeContext
  PROVE  ModelInv' /\ stage' = "loaded" /\ (L!FreeContext => "context" \notin held')
BY DEF ModelInv, L!CreateContext, L!FreeContext, L!Stages, L!GenericParts, L!Resources

\* A loaded model that no context is made from is released as a whole.
LEMMA ModelEnds ==
  ASSUME ModelInv, stage = "loaded", "context" \notin held, L!FreeModel
  PROVE  ModelInv' /\ stage' = "none" /\ held' = {}
<1>1. held' = {}
  BY DEF ModelInv, L!FreeModel, L!GenericParts, L!Resources
<1> QED
  BY <1>1 DEF ModelInv, L!FreeModel, L!Stages, L!Resources

----------------------------------------------------------------------------
(* Where the launch is, and what it may rely on there.                     *)

MainInv ==
  /\ at \in {"shell", "plugins", "file", "load", "ready", "turn", "leaving", "end"}
  /\ command \in Commands \cup {None}
  /\ plugins \in 0..MaxPlugins
  /\ transcript \in Seq(Token)

FileFound ==
  /\ at # "file" => fetch[Launch] = "idle"
  /\ at = "file" /\ fetch[Launch] = "idle" /\ fetched[Launch] = "path" => dst # None
  /\ at \in {"load", "ready", "turn", "leaving"} /\ command # "run local" => dst # None

ModelReady ==
  /\ at \in {"ready", "turn", "leaving"} => stage = "loaded"
  /\ at \in {"shell", "plugins", "file", "end"} => stage = "none"
  /\ at # "turn" => "context" \notin held

TranscriptKept ==
  /\ at # "turn" => turn = "idle"
  /\ at \notin {"ready", "turn", "leaving", "end"} => turns = 0
  /\ at = "turn" => transcript = prompt
  /\ at = "ready" /\ turns > 0 => transcript = Append(prompt \o text, EndOfTurn)

Control == MainInv /\ FileFound /\ ModelReady /\ TranscriptKept
IInv == FilesInv /\ ChatInv /\ ModelInv /\ Control

\* All of it holds at the shell.
LEMMA InitHolds == Init => IInv
<1> SUFFICES ASSUME Init PROVE IInv
  OBVIOUS
<1>1. FilesInv /\ ChatInv /\ ModelInv
  BY FilesStart, ChatStarts, ModelStarts DEF Init
<1>2. 0 \in 0..MaxPlugins /\ <<>> \in Seq(Token)
  BY Sizes
<1>3. fetch[Launch] = "idle" /\ stage = "none" /\ held = {} /\ turn = "idle" /\ turns = 0
  BY DEF Init, F!Init, G!Init, L!Nothing
<1> QED
  BY <1>1, <1>2, <1>3 DEF Init, IInv, Control, MainInv, FileFound, ModelReady, TranscriptKept

\* A process that is gone leaves the disk as it is, with no pull on it.
LEMMA GoneStep ==
  ASSUME IInv, Gone, \/ fetch[Launch] = "idle" /\ UNCHANGED files
                     \/ F!Crash(Launch)
  PROVE  IInv'
<1>1. ChatInv' /\ ModelInv'
  BY ChatStarts, ModelStarts DEF Gone
<1>2. FilesInv'
  BY FilesStay DEF IInv, F!Next
<1>3. fetch'[Launch] = "idle"
  BY DEF F!Crash, F!End, F!Goto, files, IInv, FilesInv, F!TypeOK
<1>4. 0 \in 0..MaxPlugins /\ <<>> \in Seq(Token)
  BY Sizes
<1>5. stage' = "none" /\ held' = {} /\ turn' = "idle" /\ turns' = 0
  BY DEF Gone, G!Forget, L!Lose
<1> QED
  BY <1>1, <1>2, <1>3, <1>4, <1>5 DEF Gone, IInv, Control, MainInv, FileFound, ModelReady, TranscriptKept

\* Steps of main that leave files, conversation and model alone.
LEMMA StayStep ==
  ASSUME IInv, Stay, Control'
  PROVE  IInv'
BY FilesStay, ChatStays, ModelStays DEF IInv, Stay

\* A pull ends in a path only when there is a model under it.
LEMMA FetchFinds ==
  ASSUME FilesInv, F!Fetch(Launch), fetch'[Launch] = "idle", fetched'[Launch] = "path",
         fetch[Launch] = "idle" /\ fetched[Launch] = "path" => dst # None
  PROVE  dst' # None
<1> USE DEF FilesInv, F!TypeOK, F!Goto, F!End
<1>1. CASE F!ClearPart(Launch) \/ F!CurlOpen(Launch) \/ F!CurlWrite(Launch) \/ F!CurlRetry(Launch)
  BY <1>1 DEF F!ClearPart, F!CurlOpen, F!CurlWrite, F!CurlRetry
<1>2. CASE \E code \in {0, 1} : F!CurlExit(Launch, code)
  BY <1>2 DEF F!CurlExit
<1>3. CASE F!DownloadFailed(Launch) \/ F!Downloaded(Launch)
  BY <1>3 DEF F!DownloadFailed, F!Downloaded
<1>4. CASE F!Rename(Launch) \/ F!RenameFails(Launch) \/ F!RenameFailsAgain(Launch)
  BY <1>4 DEF F!Rename, F!RenameFails, F!RenameFailsAgain
<1> QED
  BY <1>1, <1>2, <1>3, <1>4 DEF F!Fetch, F!Progress, F!Curl

\* Up to the model's file.
LEMMA FileStep ==
  ASSUME IInv, \/ \E typed \in Commands, n \in 0..MaxPlugins : Start(typed, n)
               \/ LoadPlugin \/ PluginFails \/ Resolve \/ Fetch \/ FetchFailed \/ Pulled \/ Resolved
  PROVE  IInv'
<1> USE DEF Control, MainInv, FileFound, ModelReady, TranscriptKept
<1>0. FilesInv /\ ChatInv /\ ModelInv /\ Control /\ MaxPlugins \in Nat
  BY Sizes DEF IInv
<1>1. ASSUME NEW typed \in Commands, NEW n \in 0..MaxPlugins, Start(typed, n)
      PROVE  IInv'
  BY <1>0, <1>1, StayStep DEF Start, Stay, files, chat, model
<1>2. CASE LoadPlugin
  BY <1>0, <1>2, StayStep DEF LoadPlugin, Stay, files, chat, model
<1>3. CASE PluginFails
  BY <1>0, <1>3, GoneStep DEF PluginFails, Die
<1>4. CASE Resolve
  <2>1. CASE command = "run local"
    BY <1>0, <1>4, <2>1, StayStep DEF Resolve, To, Stay, files, chat, model
  <2>2. CASE command # "run local"
    <3>1. F!UseCached(Launch) \/ F!StartPull(Launch, command = "pull --force")
      BY <1>4, <2>2 DEF Resolve
    <3>2. at' = "file" /\ at = "plugins" /\ UNCHANGED <<command, plugins, transcript, chat, model>>
      BY <1>4, <2>2 DEF Resolve, To
    <3>3. FilesInv'
      BY <1>0, <3>1, FilesStay DEF F!Next
    <3>4. ChatInv' /\ ModelInv'
      BY <1>0, <3>2, ChatStays, ModelStays
    <3>5. fetch'[Launch] = "idle" => dst' # None
      BY <1>0, <3>1, <3>2 DEF F!UseCached, F!StartPull, F!Holds, F!Goto, F!End, FilesInv, F!TypeOK
    <3> QED
      BY <1>0, <3>2, <3>3, <3>4, <3>5 DEF IInv, chat, model
  <2> QED
    BY <2>1, <2>2
<1>5. CASE Fetch
  <2>1. F!Fetch(Launch) /\ at = "file" /\ UNCHANGED <<main, chat, model>>
    BY <1>5 DEF Fetch
  <2>2. FilesInv'
    BY <1>0, <2>1, FilesStay DEF F!Next
  <2>3. ChatInv' /\ ModelInv'
    BY <1>0, <2>1, ChatStays, ModelStays
  <2>4. fetch'[Launch] = "idle" /\ fetched'[Launch] = "path" => dst' # None
    BY <1>0, <2>1, FetchFinds
  <2> QED
    BY <1>0, <2>1, <2>2, <2>3, <2>4 DEF IInv, main, chat, model
<1>6. CASE FetchFailed
  BY <1>0, <1>6, GoneStep DEF FetchFailed, Die
<1>7. CASE Pulled
  BY <1>0, <1>7, GoneStep DEF Pulled, Die
<1>8. CASE Resolved
  BY <1>0, <1>8, StayStep DEF Resolved, To, Stay, files, chat, model
<1> QED
  BY <1>1, <1>2, <1>3, <1>4, <1>5, <1>6, <1>7, <1>8

\* The system and the user speak in tokens.
LEMMA TypedIsTokens == \A said \in Typed : said \in Seq(Token)
<1>1. MaxSaid \in Nat
  BY Sizes
<1>2. ASSUME NEW n \in Nat, NEW said \in [1..n -> Token]
      PROVE  said \in Seq(Token)
  OBVIOUS
<1> QED
  BY <1>1, <1>2 DEF Typed

\* The model and the conversation.
LEMMA ModelStep ==
  ASSUME IInv, \/ Load \/ LoadFails \/ Loaded \/ (\E said \in Typed : Say(said)) \/ TurnFails
               \/ Generate \/ TurnEnds \/ Leave \/ FreeModel \/ Exit \/ Kill
  PROVE  IInv'
<1> USE DEF Control, MainInv, FileFound, ModelReady, TranscriptKept
<1>0. FilesInv /\ ChatInv /\ ModelInv /\ Control
  BY DEF IInv
<1>1. CASE Load
  <2>1. L!Load /\ at = "load" /\ UNCHANGED <<main, files, chat>>
    BY <1>1 DEF Load
  <2>2. FilesInv' /\ ChatInv'
    BY <1>0, <2>1, FilesStay, ChatStays
  <2>3. ModelInv' /\ "context" \notin held'
    BY <1>0, <2>1, ModelStays
  <2> QED
    BY <1>0, <2>1, <2>2, <2>3 DEF IInv, main, files, chat
<1>2. CASE LoadFails
  BY <1>0, <1>2, GoneStep DEF LoadFails, Die
<1>3. CASE Loaded
  <2>1. transcript' \in Seq(Token)
    <3>1. transcript' = <<>> \/ transcript' \in Typed
      BY <1>3 DEF Loaded
    <3>2. <<>> \in Seq(Token)
      OBVIOUS
    <3> QED
      BY <3>1, <3>2, TypedIsTokens
  <2>2. /\ at = "load" /\ stage = "loaded" /\ at' = "ready"
        /\ UNCHANGED <<command, plugins>> /\ Stay
    BY <1>3 DEF Loaded
  <2>3. MainInv' /\ FileFound' /\ ModelReady'
    BY <1>0, <2>1, <2>2 DEF Stay, files, model
  <2>4. TranscriptKept'
    <3>1. turn' = "idle" /\ turns' = 0
      BY <1>0, <2>2 DEF Stay, chat
    <3> QED
      BY <2>2, <3>1
  <2> QED
    BY <2>2, <2>3, <2>4, StayStep
<1>4. ASSUME NEW said \in Typed, Say(said)
      PROVE  IInv'
  <2>1. /\ at = "ready" /\ at' = "turn" /\ transcript' = transcript \o said
        /\ G!StartTurn(transcript') /\ L!CreateContext /\ UNCHANGED <<command, plugins, files>>
    BY <1>4 DEF Say
  <2>2. transcript' \in Seq(Token)
    BY <1>0, <2>1, TypedIsTokens, ConcatProperties
  <2>3. FilesInv' /\ ChatInv' /\ prompt' = transcript'
    BY <1>0, <2>1, <2>2, FilesStay, TurnStarts DEF G!StartTurn
  <2>4. ModelInv' /\ stage' = "loaded"
    BY <1>0, <2>1, ModelServes
  <2> QED
    BY <1>0, <2>1, <2>2, <2>3, <2>4 DEF IInv, files
<1>5. CASE TurnFails
  BY <1>0, <1>5, GoneStep DEF TurnFails, Die
<1>6. CASE Generate
  <2>1. G!Step /\ at = "turn" /\ UNCHANGED <<main, files, model>>
    BY <1>6 DEF Generate
  <2>2. FilesInv' /\ ModelInv'
    BY <1>0, <2>1, FilesStay, ModelStays
  <2>3. ChatInv' /\ prompt' = prompt
    BY <1>0, <2>1, ChatStays
  <2> QED
    BY <1>0, <2>1, <2>2, <2>3 DEF IInv, main, files, model
<1>7. CASE TurnEnds
  <2>1. /\ at = "turn" /\ turn = "idle" /\ at' \in {"ready", "leaving"} /\ L!FreeContext
        /\ transcript' = Append(transcript \o text, EndOfTurn)
        /\ UNCHANGED <<command, plugins, files, chat>>
    BY <1>7 DEF TurnEnds
  <2>2. transcript' \in Seq(Token)
    <3>1. transcript \o text \in Seq(Token)
      BY <1>0, ConcatProperties DEF ChatInv, G!TypeOK
    <3>2. EndOfTurn \in Token
      BY CommandLineAssumption
    <3> QED
      BY <2>1, <3>1, <3>2
  <2>3. FilesInv' /\ ChatInv'
    BY <1>0, <2>1, FilesStay, ChatStays
  <2>4. ModelInv' /\ stage' = "loaded" /\ "context" \notin held'
    BY <1>0, <2>1, ModelServes
  <2>5. transcript' = Append(prompt' \o text', EndOfTurn) /\ turn' = "idle"
    BY <1>0, <2>1 DEF chat
  <2> QED
    BY <1>0, <2>1, <2>2, <2>3, <2>4, <2>5 DEF IInv, files, chat
<1>8. CASE Leave
  BY <1>0, <1>8, StayStep DEF Leave, To, Stay, files, chat, model
<1>9. CASE FreeModel
  <2>1. L!FreeModel /\ at = "leaving" /\ at' = "end"
        /\ UNCHANGED <<command, plugins, transcript, files, chat>>
    BY <1>9 DEF FreeModel, To
  <2>2. FilesInv' /\ ChatInv'
    BY <1>0, <2>1, FilesStay, ChatStays
  <2>3. ModelInv' /\ stage' = "none" /\ held' = {}
    BY <1>0, <2>1, ModelEnds
  <2> QED
    BY <1>0, <2>1, <2>2, <2>3 DEF IInv, files, chat
<1>10. CASE Exit
  BY <1>0, <1>10, GoneStep DEF Exit, Die
<1>11. CASE Kill
  BY <1>0, <1>11, GoneStep DEF Kill
<1> QED
  BY <1>1, <1>2, <1>3, <1>4, <1>5, <1>6, <1>7, <1>8, <1>9, <1>10, <1>11

\* Every step of every launch keeps the invariant.
LEMMA EveryStep == IInv /\ [Next]_vars => IInv'
<1> SUFFICES ASSUME IInv, [Next]_vars PROVE IInv'
  OBVIOUS
<1>1. CASE UNCHANGED vars
  <2>1. UNCHANGED <<main, files, chat, model>>
    BY <1>1 DEF vars
  <2>2. FilesInv' /\ ChatInv' /\ ModelInv'
    BY <2>1, FilesStay, ChatStays, ModelStays DEF IInv
  <2> QED
    BY <2>1, <2>2 DEF IInv, Control, MainInv, FileFound, ModelReady, TranscriptKept, main, files, chat, model
<1>2. CASE Next
  BY <1>2, FileStep, ModelStep DEF Next, Program
<1> QED
  BY <1>1, <1>2

----------------------------------------------------------------------------
(* The theorems.                                                           *)

\* Whatever is typed, fails or is killed, the invariant holds at every step of
\* every launch (cli/main.cpp, main and command_run).
THEOREM Invariance == Spec => []IInv
<1>1. Spec => Init /\ [][Next]_vars
  BY PTL DEF Spec
<1> QED
  BY <1>1, InitHolds, EveryStep, PTL

\* What pull_hf leaves under the model's name is complete at every instant,
\* and command_run converses with a complete model only.
THEOREM CacheIsTrusted == Spec => []CacheTrusted
<1>1. IInv => CacheTrusted
  BY DEF IInv, FilesInv, Control, FileFound, CacheTrusted, CachedIsComplete, RunsOnCompleteModel,
     F!CachedIsComplete, F!TypeOK
<1> QED
  BY Invariance, <1>1, PTL

\* generate samples after the whole transcript and all it printed, with the
\* tail of it as penalty window, for every batch, context and window size.
THEOREM WholeTranscriptIsSampled == Spec => []SamplesWholeTranscript
<1>1. IInv => SamplesWholeTranscript
  BY DEF IInv, ChatInv, SamplesWholeTranscript, SampledFromAll, RecentIsTail, G!SampledFromAll, G!RecentIsTail
<1> QED
  BY Invariance, <1>1, PTL

\* Every variable keeps its type, a load that is refused holds nothing and a
\* launch that ends has released its context and its model, in that order.
THEOREM LaunchesReleaseAll == Spec => []NothingLeaks
<1>1. IInv => NothingLeaks
  <2> SUFFICES ASSUME IInv PROVE NothingLeaks
    OBVIOUS
  <2>1. TypeOK
    BY DEF IInv, FilesInv, ChatInv, ModelInv, Control, MainInv, TypeOK
  <2>2. RefusedLoadHoldsNothing /\ ReleasedInOrder
    BY DEF IInv, ModelInv, Control, ModelReady, RefusedLoadHoldsNothing, ReleasedInOrder
  <2> QED
    BY <2>1, <2>2 DEF NothingLeaks
<1> QED
  BY Invariance, <1>1, PTL

\* What is said before comes first in what is said next.
LEMMA PrefixOfMore ==
  ASSUME NEW s \in Seq(Token), NEW t \in Seq(Token)
  PROVE  IsPrefix(s, s \o t)
<1>1. s \o t \in Seq(Token) /\ Len(s \o t) = Len(s) + Len(t) /\ Len(s) \in Nat /\ Len(t) \in Nat
  BY ConcatProperties
<1>2. SubSeq(s, 1, Len(s)) = SubSeq(s \o t, 1, Len(s))
  <2>1. CASE s = <<>>
    BY <2>1, <1>1, SubSeqEmpty
  <2>2. CASE s # <<>>
    <3>1. 1 \in 1..Len(s) /\ Len(s) \in 1..Len(s)
      BY <1>1, <2>2, EmptySeq
    <3> QED
      BY <3>1, SubSeqOfConcat1
  <2> QED
    BY <2>1, <2>2
<1> QED
  BY <1>1, <1>2 DEF IsPrefix

\* A cached model is given up for a complete one alone, and the prompt of a
\* turn begins with all that was said and answered before it.
THEOREM LaunchesForgetNothing == Spec => NothingForgotten
<1> DEFINE Kept == F!Complete(dst) /\ dst' # dst =>
                     \E p \in {Launch} : fetch[p] \in {"rename", "again"} /\ rc[p] = 0 /\ F!Complete(part)
           Continued == turns' = turns + 1 /\ turns > 0 => IsPrefix(prompt \o text, prompt')
<1>1. IInv /\ [Next]_vars => Kept
  <2> SUFFICES ASSUME IInv, [Next]_vars PROVE Kept
    OBVIOUS
  <2>1. F!Next \/ UNCHANGED files
    BY DEF Next, Program, Start, LoadPlugin, PluginFails, Resolve, Fetch, FetchFailed, Pulled, Resolved, Load,
       LoadFails, Loaded, Say, TurnFails, Generate, TurnEnds, Leave, FreeModel, Exit, Kill, Die, Stay, vars, F!Next
  <2> QED
    BY <2>1, FilesStay DEF IInv
<1>2. IInv /\ [Next]_vars => Continued
  <2> SUFFICES ASSUME IInv, [Next]_vars, turns' = turns + 1, turns > 0
               PROVE  IsPrefix(prompt \o text, prompt')
    OBVIOUS
  <2>1. turns \in Nat /\ prompt \in Seq(Token) /\ text \in Seq(Token)
    BY Sizes DEF IInv, ChatInv, G!TypeOK
  <2>2. turns' # turns /\ turns' # 0
    BY <2>1
  <2>3. PICK said \in Typed : Say(said)
    <3>1. ~Generate
      BY <2>2, ChatStays DEF Generate, IInv
    <3> QED
      BY <2>2, <3>1 DEF Next, Program, Start, LoadPlugin, PluginFails, Resolve, Fetch, FetchFailed, Pulled,
         Resolved, Load, LoadFails, Loaded, TurnFails, TurnEnds, Leave, FreeModel, Exit, Kill, Die, Stay, Gone,
         G!Forget, chat, vars
  <2>4. prompt' = Append(prompt \o text, EndOfTurn) \o said
    BY <2>3 DEF Say, G!StartTurn, IInv, Control, TranscriptKept
  <2>5. said \in Seq(Token) /\ EndOfTurn \in Token /\ prompt \o text \in Seq(Token)
    BY <2>1, TypedIsTokens, ConcatProperties, CommandLineAssumption
  <2>6. /\ Append(prompt \o text, EndOfTurn) = (prompt \o text) \o <<EndOfTurn>>
        /\ <<EndOfTurn>> \in Seq(Token)
    BY <2>5, AppendIsConcat
  <2>7. prompt' = (prompt \o text) \o (<<EndOfTurn>> \o said)
    BY <2>4, <2>5, <2>6, ConcatAssociative, SMTT(30)
  <2>8. <<EndOfTurn>> \o said \in Seq(Token)
    BY <2>5, <2>6, ConcatProperties
  <2> QED
    BY <2>5, <2>7, <2>8, PrefixOfMore
<1>3. Spec => [][Next]_vars
  BY PTL DEF Spec
<1> QED
  BY Invariance, <1>1, <1>2, <1>3, PTL DEF NothingForgotten, CacheKept, F!CacheKept, AnswersRemembered
=============================================================================
