------------------------- MODULE StatelessEncoding --------------------------
(***************************************************************************)
(* What a caller of the surface encoder is promised: a batch returns ids of *)
(* its documents in their order, or an error when one of them is rejected. *)
(* The ids are those of a vocabulary the caller keeps, or once kept, where *)
(* it keeps the batch's, and do not depend otherwise on what was encoded   *)
(* before, on the worker or on the other documents.                        *)
(***************************************************************************)
EXTENDS SurfaceIds

CONSTANTS Option, Batches, Vocab, AddressOf, Idle, Error

VARIABLES options, batch, result

vars == <<options, batch, result>>

\* Vocabularies kept at one place.
At(place) == {v \in Vocab : AddressOf[v] = place}

Refused(b) ==
  \/ Len(b.docs) # Len(b.newlines)
  \/ \E i \in DOMAIN b.docs : Rejected(b.docs[i])

IsAnswered(o, b, ids) ==
  IF Refused(b) THEN ids = Error
  ELSE /\ ids = [i \in DOMAIN b.docs |-> ids[i]]
       /\ \A i \in DOMAIN b.docs :
            IsAnswer(o, At(AddressOf[b.vocab]), b.docs[i], b.newlines[i], ids[i])

Init ==
  /\ options \in Option
  /\ batch = Idle
  /\ result = <<>>

Begin(b) ==
  /\ batch = Idle
  /\ batch' = b
  /\ result' = <<>>
  /\ UNCHANGED options

\* Empty and inconsistent batches are answered at once.
Answer(b) ==
  /\ batch = Idle
  /\ UNCHANGED <<options, batch>>
  /\ IsAnswered(options, b, result')

Return ==
  /\ batch # Idle
  /\ batch' = Idle
  /\ UNCHANGED options
  /\ IsAnswered(options, batch, result')

Next == Return \/ \E b \in Batches : Begin(b) \/ Answer(b)

Spec == Init /\ [][Next]_vars
=============================================================================
