------------------------------ MODULE Generate ------------------------------
(***************************************************************************)
(* The generation loop of the command line (cli/main.cpp, generate) and    *)
(* the calls it makes to libmercan: a fresh context for every turn, the    *)
(* prompt decoded in batches, then one token sampled, printed and decoded  *)
(* at a time.  The context is the one TokenHistory describes: a decode     *)
(* appends its whole batch, or fails and leaves the context as it was.     *)
(* Sampling may pick any token of the vocabulary.                          *)
(***************************************************************************)
EXTENDS Integers, SequencesExt

CONSTANTS
  Token,
  Stops,       \* end of sequence, <|im_start|> and <|im_end|>
  Capacity,    \* tokens a context holds
  BatchSize,   \* 512 in the code
  MaxTokens,   \* opt.max_tokens
  HistoryCap,  \* opt.repeat_last_n
  MaxTurns,    \* bound: turns of a session
  NoLogits

VARIABLES
  pc,       \* "idle", "prompt", "sample", "decode" or "dead"
  prompt,   \* prompt_tokens
  fed,      \* tokens of the prompt decoded so far
  context,  \* tokens the context holds
  logits,   \* the tokens the logits are about, or NoLogits
  text,     \* tokens printed this turn
  recent,   \* recent_tokens
  turns

vars == <<pc, prompt, fed, context, logits, text, recent, turns>>

Min2(a, b) == IF a < b THEN a ELSE b
Tail2(s, n) == SubSeq(s, Len(s) - Min2(n, Len(s)) + 1, Len(s))

Init ==
  /\ pc = "idle"
  /\ prompt = <<>>
  /\ fed = 0
  /\ context = <<>>
  /\ logits = NoLogits
  /\ text = <<>>
  /\ recent = <<>>
  /\ turns = 0

\* The process ends and the session with it.
Forget ==
  /\ pc' = "idle" /\ prompt' = <<>> /\ fed' = 0 /\ context' = <<>>
  /\ logits' = NoLogits /\ text' = <<>> /\ recent' = <<>> /\ turns' = 0

\* A turn: a new context, and the tokens of the transcript so far.
StartTurn(tokens) ==
  /\ pc = "idle"
  /\ turns < MaxTurns
  /\ turns' = turns + 1
  /\ prompt' = tokens
  /\ fed' = 0
  /\ context' = <<>>
  /\ logits' = NoLogits
  /\ text' = <<>>
  /\ recent' = <<>>
  /\ pc' = IF tokens = <<>> THEN "dead" ELSE "prompt"

\* mercan_decode: the batch fits and the backend computes it.
Decoded(batch) ==
  /\ Len(context) + Len(batch) <= Capacity
  /\ context' = context \o batch
  /\ logits' = context'

Batch == SubSeq(prompt, fed + 1, Min2(fed + BatchSize, Len(prompt)))

DecodePrompt ==
  /\ pc = "prompt"
  /\ fed < Len(prompt)
  /\ Decoded(Batch)
  /\ fed' = fed + Len(Batch)
  /\ UNCHANGED <<pc, prompt, text, recent, turns>>

\* Fault: a batch that cannot be decoded is tried again.
DecodePromptFailsRetry ==
  /\ pc = "prompt"
  /\ fed < Len(prompt)
  /\ UNCHANGED vars

\* Any failure while the prompt is decoded ends the program.
DecodePromptFails ==
  /\ pc = "prompt"
  /\ fed < Len(prompt)
  /\ pc' = "dead"
  /\ UNCHANGED <<prompt, fed, context, logits, text, recent, turns>>

\* The repetition penalty starts from the end of the prompt.
PromptDone ==
  /\ pc = "prompt"
  /\ fed = Len(prompt)
  /\ recent' = Tail2(prompt, HistoryCap)
  /\ pc' = "sample"
  /\ UNCHANGED <<prompt, fed, context, logits, text, turns>>

\* max_tokens is reached.
OutOfTokens ==
  /\ pc = "sample"
  /\ Len(text) = MaxTokens
  /\ pc' = "idle"
  /\ UNCHANGED <<prompt, fed, context, logits, text, recent, turns>>

SampleStop(next) ==
  /\ pc = "sample"
  /\ Len(text) < MaxTokens
  /\ next \in Stops
  /\ pc' = "idle"
  /\ UNCHANGED <<prompt, fed, context, logits, text, recent, turns>>

\* push_back, then erase the oldest when there is one too many.
Window(next) ==
  LET grown == Append(recent, next)
  IN  IF HistoryCap = 0 THEN recent
      ELSE IF Len(grown) > HistoryCap THEN Tail(grown) ELSE grown

\* The piece is printed before its token is decoded.
Sample(next) ==
  /\ pc = "sample"
  /\ Len(text) < MaxTokens
  /\ next \notin Stops
  /\ text' = Append(text, next)
  /\ recent' = Window(next)
  /\ pc' = "decode"
  /\ UNCHANGED <<prompt, fed, context, logits, turns>>

\* Fault: sampling goes on from the logits that are there.
DecodeNextIgnored ==
  /\ pc = "decode"
  /\ pc' = "sample"
  /\ UNCHANGED <<prompt, fed, context, logits, text, recent, turns>>

DecodeNext ==
  /\ pc = "decode"
  /\ Decoded(<<Last(text)>>)
  /\ pc' = "sample"
  /\ UNCHANGED <<prompt, fed, text, recent, turns>>

\* A failure ends the turn with what was printed.
DecodeNextFails ==
  /\ pc = "decode"
  /\ pc' = "idle"
  /\ UNCHANGED <<prompt, fed, context, logits, text, recent, turns>>

Step ==
  \/ DecodePrompt
  \/ DecodePromptFails
  \/ PromptDone
  \/ OutOfTokens
  \/ \E next \in Token : SampleStop(next) \/ Sample(next)
  \/ DecodeNext
  \/ DecodeNextFails

-----------------------------------------------------------------------------
(***************************************************************************)
(* Properties.                                                             *)
(***************************************************************************)

\* Every variable stays within its type.
TypeOK ==
  /\ pc \in {"idle", "prompt", "sample", "decode", "dead"}
  /\ prompt \in Seq(Token)
  /\ fed \in 0..Len(prompt)
  /\ context \in Seq(Token)
  /\ logits \in Seq(Token) \cup {NoLogits}
  /\ text \in Seq(Token)
  /\ recent \in Seq(Token)
  /\ turns \in 0..MaxTurns

\* A token is only ever sampled from logits about everything before it: the
\* whole prompt, in order, and all that was printed since.
SampledFromAll == pc = "sample" => logits = prompt \o text /\ context = logits

\* The repetition penalty looks at the last tokens of prompt and answer.
RecentIsTail ==
  pc \in {"sample", "decode"} => recent = Tail2(prompt \o text, HistoryCap)
=============================================================================
