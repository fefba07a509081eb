--------------------------- MODULE ModelLifeCycle ---------------------------
(***************************************************************************)
(* What libmercan acquires and releases for a model and its context        *)
(* (runtime/libmercan/src/mercan.cpp, core/model_loader.cpp and the loader *)
(* of core/generic_backend.cpp).  A resource is a member of held.  What a  *)
(* model file says, and whether an allocation succeeds, may be anything.   *)
(***************************************************************************)
VARIABLES stage,   \* where mercan_model_load stands, or how it ended
          engine,  \* "llama" or "generic", once it is chosen
          held     \* resources acquired and not released

vars == <<stage, engine, held>>

Stages == {"none", "check", "choose", "llama", "read", "device", "fallback", "weights", "reopen", "tensors",
           "tokenizer", "loaded", "refused", "gave_up", "threw"}
GenericParts == {"gguf", "tensors", "backend", "fallback", "buffer", "file"}
Resources == GenericParts \cup {"metadata", "llama", "tokenizer", "context"}

Nothing == stage = "none" /\ engine = "none" /\ held = {}

\* The process ends and what it held with it.
Lose == stage' = "none" /\ engine' = "none" /\ held' = {}

Go(to) == stage' = to /\ UNCHANGED engine

\* The metadata probe closes its file when the call returns.
Refuse(kept) == Go("refused") /\ held' = kept \ {"metadata"}

OpenMetadata ==
  /\ stage = "none"
  /\ Go("check") /\ held' = held \cup {"metadata"}

\* Format, version, ABI, architecture and tokenizer, each checked in turn.
Reject ==
  /\ stage \in {"none", "check"}
  /\ Refuse(held)

\* An architecture with a graph callback of its own takes the generic engine.
Choose(e) ==
  /\ stage = "check"
  /\ engine' = e
  /\ stage' = IF e = "generic" THEN "read" ELSE "llama"
  /\ UNCHANGED held

LoadLlama ==
  /\ stage = "llama"
  /\ \/ Go("tokenizer") /\ held' = held \cup {"llama"}
     \/ Refuse(held)

----------------------------------------------------------------------------
(* mercan_generic_model_load.  Its unique_ptr deletes the record alone, so *)
(* what the record points to stays when the load gives up.                 *)

GiveUp ==
  /\ stage \in {"read", "device", "fallback", "weights", "reopen", "tensors"}
  /\ Go("gave_up")
  /\ held' = held \ {"metadata", "file"}

ReadHeader ==
  /\ stage = "read"
  /\ Go("device") /\ held' = held \cup {"gguf", "tensors"}

OpenDevice(gpu) ==
  /\ stage = "device"
  /\ Go(IF gpu THEN "fallback" ELSE "weights")
  /\ held' = held \cup {"backend"}

OpenFallback ==
  /\ stage = "fallback"
  /\ Go("weights") /\ held' = held \cup {"fallback"}

AllocateWeights ==
  /\ stage = "weights"
  /\ Go("reopen") /\ held' = held \cup {"buffer"}

ReopenFile ==
  /\ stage = "reopen"
  /\ Go("tensors") /\ held' = held \cup {"file"}

ReadTensors ==
  /\ stage = "tensors"
  /\ Go("tokenizer") /\ held' = held \ {"file"}

----------------------------------------------------------------------------
Done(more) == Go("loaded") /\ held' = (held \cup more) \ {"metadata"}

\* Fault: the model is not released when its tokenizer cannot be made.
MakeTokenizerOnly ==
  /\ stage = "tokenizer"
  /\ \/ Done({}) \/ Done({"tokenizer"})
     \/ Refuse(held)

\* A provider without create has no state; one that fails has the model
\* released.
MakeTokenizer ==
  /\ stage = "tokenizer"
  /\ \/ Done({}) \/ Done({"tokenizer"})
     \/ Refuse(held \ (GenericParts \cup {"llama"}))

\* A C++ exception ends the load; only the probe has a destructor that closes.
Throw ==
  /\ stage \in {"check", "llama", "read", "tensors", "tokenizer"}
  /\ Go("threw") /\ held' = held \ {"metadata"}

Load == \/ OpenMetadata \/ Reject \/ LoadLlama \/ GiveUp \/ ReadHeader \/ OpenFallback
        \/ AllocateWeights \/ ReopenFile \/ ReadTensors \/ MakeTokenizer \/ Throw
        \/ \E e \in {"llama", "generic"} : Choose(e)
        \/ \E gpu \in BOOLEAN : OpenDevice(gpu)

CreateContext ==
  /\ stage = "loaded"
  /\ held' = held \cup {"context"}
  /\ UNCHANGED <<stage, engine>>

FreeContext == held' = held \ {"context"} /\ UNCHANGED <<stage, engine>>

FreeModel ==
  /\ stage' = "none" /\ engine' = "none"
  /\ held' = held \ ({"tokenizer", "llama"} \cup GenericParts)
=============================================================================
