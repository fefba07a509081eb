---------------------------- MODULE TokenHistory ----------------------------
(***************************************************************************)
(* What a decode context promises its caller, with no cache, graph or      *)
(* layer in sight: the context holds the sequence of tokens accepted so    *)
(* far, one decode call either appends its whole batch or changes nothing, *)
(* and the logits a caller reads are those of the history as it stood      *)
(* after the last call that succeeded.  GenericDecode implements it.       *)
(***************************************************************************)
EXTENDS Naturals, Sequences

CONSTANTS
  Token,       \* the vocabulary
  Capacity,    \* tokens the context can hold (n_ctx)
  Predict(_),  \* the logits the network assigns after a history
  NoLogits     \* no decode has succeeded yet

VARIABLES
  history,     \* the tokens accepted so far
  request,     \* the batch of the call in progress, <<>> between calls
  logits,      \* what mercan_generic_logits shows
  reply        \* what the last call returned

vars == <<history, request, logits, reply>>

TypeOK ==
  /\ history \in Seq(Token)
  /\ request \in Seq(Token)
  /\ reply \in {"none", "ok", "error"}

Init ==
  /\ history = <<>>
  /\ request = <<>>
  /\ logits = NoLogits
  /\ reply = "none"

\* A caller hands over a batch.
Call ==
  /\ request = <<>>
  /\ request' \in Seq(Token) \ {<<>>}
  /\ UNCHANGED <<history, logits, reply>>

\* The call is refused before any work is done.
Refuse ==
  /\ request = <<>>
  /\ reply' = "error"
  /\ UNCHANGED <<history, request, logits>>

\* The whole batch is accepted, never a part of it.
Commit ==
  /\ request # <<>>
  /\ Len(history) + Len(request) <= Capacity
  /\ history' = history \o request
  /\ logits' = Predict(history')
  /\ request' = <<>>
  /\ reply' = "ok"

\* The call fails: as far as the caller can tell nothing happened.
Abort ==
  /\ request # <<>>
  /\ request' = <<>>
  /\ reply' = "error"
  /\ UNCHANGED <<history, logits>>

Next == Call \/ Refuse \/ Commit \/ Abort

Spec == Init /\ [][Next]_vars
=============================================================================
