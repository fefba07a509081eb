---------------------------- MODULE OneVocabulary ----------------------------
(***************************************************************************)
(* What the NDSRF004 bridge promises a process: whichever call comes first *)
(* fixes the surface vocabulary, nothing changes it afterwards, every      *)
(* accepted model is a model of that vocabulary, and all ids a caller is   *)
(* given were made with it.                                                *)
(***************************************************************************)
CONSTANTS Thread, Sha, Text, Empty, Failed, None

Ids == [vocab : Sha, text : Text]

VARIABLES
  vocab,   \* the vocabulary in force, Empty before the first call
  models,  \* vocabularies of the models accepted so far
  heard    \* thread |-> ids it holds

vars == <<vocab, models, heard>>

Init ==
  /\ vocab = Empty
  /\ models = {}
  /\ heard = [t \in Thread |-> None]

\* The first call settles the vocabulary, or settles that there is none.
Fix(v) ==
  /\ vocab = Empty
  /\ vocab' = v
  /\ UNCHANGED <<models, heard>>

Accept ==
  /\ vocab \in Sha
  /\ models' = models \cup {vocab}
  /\ UNCHANGED <<vocab, heard>>

Encode(t, x) ==
  /\ vocab \in Sha
  /\ heard' = [heard EXCEPT ![t] = [vocab |-> vocab, text |-> x]]
  /\ UNCHANGED <<vocab, models>>

Next ==
  \/ \E v \in Sha \cup {Failed} : Fix(v)
  \/ Accept
  \/ \E t \in Thread, x \in Text : Encode(t, x)

Spec == Init /\ [][Next]_vars
=============================================================================
