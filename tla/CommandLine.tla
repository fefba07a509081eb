----------------------------- MODULE CommandLine -----------------------------
(***************************************************************************)
(* mercan pull and mercan run from the shell to the end of the program     *)
(* (cli/main.cpp, main and command_run): plugins, then the model's file    *)
(* (HfPull), then the model (ModelLifeCycle), then a conversation of turns *)
(* (Generate).  The transcript is text in the code and is tokenized anew   *)
(* for each turn; here it is kept as tokens.  One launch runs at a time;   *)
(* it may be killed anywhere and is followed by another on the same disk.  *)
(***************************************************************************)
EXTENDS Integers, SequencesExt, FiniteSets

CONSTANTS
  Launch,      \* the one process
  Inode, Size, None, MaxPulls,
  Token, Stops, EndOfTurn, Capacity, BatchSize, MaxTokens, HistoryCap, MaxTurns,
  Commands,    \* what is typed at the shell
  MaxPlugins,  \* bound: plugins of MERCAN_PLUGINS and --plugin
  MaxSaid      \* bound: tokens of the user's part of a turn

ASSUME CommandLineAssumption ==
  /\ {Size, Capacity, BatchSize} \subseteq Nat \ {0}
  /\ {MaxPulls, MaxTokens, HistoryCap, MaxTurns, MaxPlugins, MaxSaid} \subseteq Nat
  /\ None \notin Inode \cup Seq(Token)
  /\ Cardinality(Inode) >= 3
  /\ Stops \subseteq Token /\ EndOfTurn \in Stops
  /\ Commands \subseteq {"pull", "pull --force", "run", "run -p", "run local"}

VARIABLES
  at,          \* where the launch is
  command,
  plugins,     \* plugins still to load
  transcript,  \* tokens of the conversation so far
  dst, part, disk, fetch, fd, pos, rc, fetched, pulls,
  turn, prompt, fed, context, logits, text, recent, turns,
  stage, engine, held

F == INSTANCE HfPull WITH Proc <- {Launch}, pc <- fetch, result <- fetched
G == INSTANCE Generate WITH NoLogits <- None, pc <- turn
L == INSTANCE ModelLifeCycle

main == <<at, command, plugins, transcript>>
files == <<dst, part, disk, fetch, fd, pos, rc, fetched, pulls>>
chat == <<turn, prompt, fed, context, logits, text, recent, turns>>
model == <<stage, engine, held>>
vars == <<main, files, chat, model>>

Init ==
  /\ at = "shell" /\ command = None /\ plugins = 0 /\ transcript = <<>>
  /\ F!Init /\ G!Init /\ L!Nothing

\* The process is gone and its memory with it; the disk stays.
Gone ==
  /\ at' = "shell" /\ command' = None /\ plugins' = 0 /\ transcript' = <<>>
  /\ G!Forget /\ L!Lose

Die == Gone /\ UNCHANGED files
Stay == UNCHANGED <<files, chat, model>>

\* What a user or a system prompt says: tokens, the header of the turn first.
Typed == UNION {[1..n -> Token] : n \in 1..MaxSaid}

To(where) == at' = where /\ UNCHANGED <<command, plugins, transcript>>

----------------------------------------------------------------------------
(* Up to the model's file.                                                 *)

Start(typed, n) ==
  /\ at = "shell" /\ pulls < MaxPulls
  /\ at' = "plugins" /\ command' = typed /\ plugins' = n
  /\ UNCHANGED transcript /\ Stay

\* A plugin that is loaded already is as good as a loaded one.
LoadPlugin ==
  /\ at = "plugins" /\ plugins > 0
  /\ plugins' = plugins - 1
  /\ UNCHANGED <<at, command, transcript>> /\ Stay

PluginFails == at = "plugins" /\ plugins > 0 /\ Die

\* A model that names a file is that file; another is pulled, never forced.
Resolve ==
  /\ at = "plugins" /\ plugins = 0
  /\ IF command = "run local" THEN To("load") /\ Stay
     ELSE /\ To("file")
          /\ \/ command # "pull --force" /\ F!UseCached(Launch)
             \/ F!StartPull(Launch, command = "pull --force")
          /\ UNCHANGED <<chat, model>>

Fetch ==
  /\ at = "file"
  /\ F!Fetch(Launch)
  /\ UNCHANGED <<main, chat, model>>

FetchFailed == at = "file" /\ fetch[Launch] = "idle" /\ fetched[Launch] = "error" /\ Die

Pulled ==
  /\ at = "file" /\ fetch[Launch] = "idle" /\ fetched[Launch] = "path"
  /\ command \in {"pull", "pull --force"}
  /\ Die

Resolved ==
  /\ at = "file" /\ fetch[Launch] = "idle" /\ fetched[Launch] = "path"
  /\ command \in {"run", "run -p"}
  /\ To("load") /\ Stay

----------------------------------------------------------------------------
(* The model and the conversation.                                         *)

Load == at = "load" /\ L!Load /\ UNCHANGED <<main, files, chat>>

LoadFails == at = "load" /\ stage \in {"refused", "gave_up", "threw"} /\ Die

\* The system turn comes first, unless there is none.
Loaded ==
  /\ at = "load" /\ stage = "loaded"
  /\ at' = "ready"
  /\ transcript' \in {<<>>} \cup Typed
  /\ UNCHANGED <<command, plugins>> /\ Stay

\* Each turn has a context of its own, which is fed the whole transcript.
Say(said) ==
  /\ at = "ready"
  /\ at' = "turn" /\ transcript' = transcript \o said
  /\ G!StartTurn(transcript')
  /\ L!CreateContext
  /\ UNCHANGED <<command, plugins, files>>

\* No context, no tokens, or a prompt that cannot be decoded.
TurnFails ==
  \/ at = "ready" /\ turns < MaxTurns /\ Die
  \/ at = "turn" /\ turn = "dead" /\ Die

Generate == at = "turn" /\ G!Step /\ UNCHANGED <<main, files, model>>

\* Fault: the answer is not added to the transcript.
TurnEndsForgotten ==
  /\ at = "turn" /\ turn = "idle"
  /\ L!FreeContext
  /\ at' = IF command = "run -p" THEN "leaving" ELSE "ready"
  /\ UNCHANGED <<command, plugins, transcript, files, chat>>

TurnEnds ==
  /\ at = "turn" /\ turn = "idle"
  /\ L!FreeContext
  /\ at' = IF command = "run -p" THEN "leaving" ELSE "ready"
  /\ transcript' = Append(transcript \o text, EndOfTurn)
  /\ UNCHANGED <<command, plugins, files, chat>>

\* /exit, or the end of the input.
Leave ==
  /\ at = "ready" /\ command # "run -p"
  /\ To("leaving") /\ Stay

FreeModel ==
  /\ at = "leaving"
  /\ L!FreeModel
  /\ To("end")
  /\ UNCHANGED <<files, chat>>

Exit == at = "end" /\ Die

Kill ==
  /\ at # "shell"
  /\ Gone
  /\ IF fetch[Launch] = "idle" THEN UNCHANGED files ELSE F!Crash(Launch)

Program == \/ LoadPlugin \/ PluginFails \/ Resolve \/ FetchFailed \/ Pulled \/ Resolved
           \/ Load \/ LoadFails \/ Loaded \/ Generate \/ TurnFails \/ TurnEnds \/ FreeModel \/ Exit

Next == \/ \E typed \in Commands, n \in 0..MaxPlugins : Start(typed, n)
        \/ Fetch
        \/ \E said \in Typed : Say(said)
        \/ Leave
        \/ Kill
        \/ Program

\* The program runs on when it is not waiting for curl, and the prompt of -p
\* needs no user.  Nothing is assumed of curl: it is given a limit for the
\* connection and a number of retries, none for a transfer that stalls.
FetchOn == at = "file" /\ F!Progress(Launch) /\ UNCHANGED <<main, chat, model>>
SayPrompt == command = "run -p" /\ \E said \in Typed : Say(said)

Spec == Init /\ [][Next]_vars /\ WF_vars(Program) /\ WF_vars(FetchOn) /\ WF_vars(SayPrompt)

----------------------------------------------------------------------------
(* Properties.                                                             *)

\* Every variable stays within its type.
TypeOK ==
  /\ at \in {"shell", "plugins", "file", "load", "ready", "turn", "leaving", "end"}
  /\ command \in Commands \cup {None}
  /\ plugins \in 0..MaxPlugins
  /\ transcript \in Seq(Token)
  /\ F!TypeOK /\ G!TypeOK
  /\ stage \in L!Stages /\ engine \in {"none", "llama", "generic"} /\ held \subseteq L!Resources

\* A model under its final name is complete, whatever launch failed or was
\* killed on the way: later launches use it without another look.
CachedIsComplete == F!CachedIsComplete

\* The cached model makes way only for a complete replacement: a download that
\* fails or is killed, forced or not, leaves it where it is.
CacheKept == F!CacheKept

\* A conversation runs on a file that is there as a whole, from the moment it
\* is loaded to the end: resolve_model never returns after a failed pull.
RunsOnCompleteModel ==
  (at \in {"load", "ready", "turn", "leaving"} /\ command # "run local") => F!Complete(dst)

\* A token is only ever sampled from logits about everything before it: the
\* whole transcript, in order, and all that was printed since.
SampledFromAll == G!SampledFromAll

\* The repetition penalty looks at the last tokens of prompt and answer.
RecentIsTail == G!RecentIsTail

\* The prompt of a turn continues what was said and answered before it, also
\* when the answer broke off because a token could not be decoded.
AnswersRemembered ==
  [][turns' = turns + 1 /\ turns > 0 => IsPrefix(prompt \o text, prompt')]_vars

\* A load that is refused, by a check, by llama.cpp or by the tokenizer, holds
\* nothing afterwards.  (One the generic backend gives up leaks what it had.)
RefusedLoadHoldsNothing == stage = "refused" => held = {}

\* A launch that ends on its own has released all it acquired, and a context
\* never outlives the model it was made from.
ReleasedInOrder ==
  /\ at = "end" => held = {}
  /\ "context" \in held => stage = "loaded" /\ held \cap {"llama", "backend"} # {}

\* A launch ends, or waits for its user or for curl: no turn or load hangs,
\* and neither does a pull before its download or after it, whatever failed.
LaunchesEnd ==
  LET waits == \/ at = "shell"
               \/ at = "ready" /\ command # "run -p"
               \/ at = "file" /\ fetch[Launch] = "curl"
  IN  ~waits ~> waits

\* A model is trusted because it is cached: what is cached is complete at every
\* instant, and a conversation runs on a complete model.
CacheTrusted == CachedIsComplete /\ RunsOnCompleteModel

\* Tokens are sampled after everything said so far, with the tail of it as the
\* window of penalties, also across turns and batches.
SamplesWholeTranscript == SampledFromAll /\ RecentIsTail

\* Loads that are refused and launches that end release what they acquired, in
\* an order that leaves nothing dangling.
NothingLeaks == TypeOK /\ RefusedLoadHoldsNothing /\ ReleasedInOrder

\* A cached model is given up only for a complete replacement, and a transcript
\* keeps every answer.
NothingForgotten == CacheKept /\ AnswersRemembered
=============================================================================
