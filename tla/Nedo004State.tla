---------------------------- MODULE Nedo004State ----------------------------
(***************************************************************************)
(* The NDSRF004 bridge (runtime/nedo004-ffi/src/lib.rs): one process-wide  *)
(* OnceLock holding the surface vocabulary, filled either from a model     *)
(* file (nedo004_set_vocab) or lazily from the embedded asset by the first *)
(* call that needs it, and one output buffer per thread.  The callers are  *)
(* the vocabulary loader and tokenizer that nedolm-llama.patch adds to     *)
(* llama.cpp and SDK clients of the copying interface.                     *)
(*                                                                         *)
(* A vocabulary is known by its SHA-256; ids carry the vocabulary and the  *)
(* text they were made from, and Count says how many they are.             *)
(***************************************************************************)
EXTENDS Integers

CONSTANTS
  Thread,      \* threads of the host process
  Sha,         \* vocabulary assets
  Usable,      \* the assets that parse to a vocabulary of 32 000 pieces
  Embedded,    \* the assets a build may have linked into the library
  Text,        \* texts callers encode
  Unencodable, \* texts the tokenizer rejects
  Count,       \* vocabulary |-> text |-> number of ids
  Empty, Failed, None,
  Malformed,   \* an expected SHA that is not 64 characters
  NoAsset,     \* a model file without a vocabulary of its own
  BadIds,      \* ids outside every vocabulary
  Garbled,     \* what ids decode to under a vocabulary that did not make them
  MaxCalls     \* bound: calls one thread makes

Ids == [vocab : Sha, text : Text]

LoadCall == [op : {"load"}, asset : Sha \cup {NoAsset}, expected : Sha \cup {Malformed}]
QueryCall == [op : {"size"}]
TextCall == [op : {"fragment", "encode"}, text : Text, capacity : Nat]
DecodeCall == [op : {"decode"}, ids : Ids \cup {BadIds}, capacity : Nat]
Request == LoadCall \cup QueryCall \cup TextCall \cup DecodeCall

ASSUME Nedo004Assumption ==
  /\ Usable \subseteq Sha
  /\ Embedded \in (SUBSET Sha) \ {{}}
  /\ Unencodable \subseteq Text
  /\ Count \in [Sha -> [Text -> Nat]]
  /\ MaxCalls \in Nat
  /\ Empty \notin Sha
  /\ Failed \notin Sha
  /\ None \notin Sha \cup Request
  /\ Malformed \notin Sha \cup {Empty, Failed}
  /\ NoAsset \notin Sha
  /\ Empty # Failed
  /\ None \notin Thread
  /\ Garbled \notin Text

VARIABLES
  cell,        \* the OnceLock STATE: Empty, Failed or the vocabulary in force
  initializing, \* thread running the closure of get_or_init
  OUTPUT_IDS,   \* thread |-> its thread-local output buffer
  models,       \* vocabularies of the models loaded so far
  pc,           \* thread |-> where its call stands
  req,          \* thread |-> its call
  answer,       \* thread |-> result of its last call, once it returned
  held,         \* thread |-> ids it was given last
  calls         \* thread |-> calls made so far

vars == <<cell, initializing, OUTPUT_IDS, models, pc, req, answer, held, calls>>

Result == [code : -4..1, len : Nat, data : Ids \cup Text \cup {Garbled, None}]

Init ==
  /\ cell = Empty
  /\ initializing = None
  /\ OUTPUT_IDS = [t \in Thread |-> None]
  /\ models = {}
  /\ pc = [t \in Thread |-> "idle"]
  /\ req = [t \in Thread |-> None]
  /\ answer = [t \in Thread |-> None]
  /\ held = [t \in Thread |-> None]
  /\ calls = [t \in Thread |-> 0]

Goto(t, where) == pc' = [pc EXCEPT ![t] = where]

Return(t, code, len, data) ==
  /\ answer' = [answer EXCEPT ![t] = [code |-> code, len |-> len, data |-> data]]
  /\ Goto(t, "idle")

Call(t, r) ==
  /\ pc[t] = "idle"
  /\ calls[t] < MaxCalls
  /\ calls' = [calls EXCEPT ![t] = @ + 1]
  /\ req' = [req EXCEPT ![t] = r]
  /\ answer' = [answer EXCEPT ![t] = None]
  /\ Goto(t, IF r.op # "load" THEN "state" ELSE IF r.asset = NoAsset THEN "check" ELSE "peek")
  /\ UNCHANGED <<cell, initializing, OUTPUT_IDS, models, held>>

-----------------------------------------------------------------------------
(***************************************************************************)
(* Loading a model: nedo004_set_vocab when the file carries a vocabulary,  *)
(* then a comparison with the vocabulary in force.                         *)
(***************************************************************************)

\* make_state: the digest is the expected one and the asset parses.
MakeState(asset, expected) ==
  IF asset = expected /\ asset \in Usable THEN asset ELSE Failed

\* A caller that gets a code other than 0 gives the load up.
Refuse(t, code) ==
  /\ Return(t, code, 0, None)
  /\ UNCHANGED <<cell, initializing, OUTPUT_IDS, models, req, held, calls>>

MalformedSha(t) ==
  /\ pc[t] = "peek"
  /\ req[t].expected = Malformed
  /\ Refuse(t, -2)

\* STATE.get(): filled already, the bytes passed in are not looked at.
PeekSame(t) ==
  /\ pc[t] = "peek"
  /\ cell = req[t].expected
  /\ Goto(t, "check")
  /\ UNCHANGED <<cell, initializing, OUTPUT_IDS, models, req, answer, held, calls>>

PeekOther(t) ==
  /\ pc[t] = "peek"
  /\ req[t].expected # Malformed
  /\ cell \notin {Empty, req[t].expected}
  /\ Refuse(t, IF cell = Failed THEN -3 ELSE -4)

\* Empty, or another thread is filling it: prepare a candidate.
PeekEmpty(t) ==
  /\ pc[t] = "peek"
  /\ req[t].expected # Malformed
  /\ cell = Empty
  /\ Goto(t, "make")
  /\ UNCHANGED <<cell, initializing, OUTPUT_IDS, models, req, answer, held, calls>>

MakeFails(t) ==
  /\ pc[t] = "make"
  /\ MakeState(req[t].asset, req[t].expected) = Failed
  /\ Refuse(t, -3)

Make(t) ==
  /\ pc[t] = "make"
  /\ MakeState(req[t].asset, req[t].expected) # Failed
  /\ Goto(t, "set")
  /\ UNCHANGED <<cell, initializing, OUTPUT_IDS, models, req, answer, held, calls>>

\* STATE.set() waits for a closure another thread runs.
SetFirst(t) ==
  /\ pc[t] = "set"
  /\ initializing = None
  /\ cell = Empty
  /\ cell' = req[t].asset
  /\ Goto(t, "check")
  /\ UNCHANGED <<initializing, OUTPUT_IDS, models, req, answer, held, calls>>

\* Another call was first, with the same vocabulary.
SetSame(t) ==
  /\ pc[t] = "set"
  /\ initializing = None
  /\ cell = req[t].asset
  /\ Goto(t, "check")
  /\ UNCHANGED <<cell, initializing, OUTPUT_IDS, models, req, answer, held, calls>>

SetOther(t) ==
  /\ pc[t] = "set"
  /\ initializing = None
  /\ cell \notin {Empty, req[t].asset}
  /\ Refuse(t, -4)

(***************************************************************************)
(* state(): get_or_init.  One thread runs the closure, the others wait.    *)
(***************************************************************************)
Asking == {"check", "state"}

InitStart(t) ==
  /\ pc[t] \in Asking
  /\ cell = Empty
  /\ initializing = None
  /\ initializing' = t
  /\ UNCHANGED <<cell, OUTPUT_IDS, models, pc, req, answer, held, calls>>

\* Fault: the cell stays marked as being filled.
InitFinishHeld(t) ==
  /\ initializing = t
  /\ cell = Empty
  /\ \E asset \in Embedded : cell' = MakeState(asset, asset)
  /\ UNCHANGED <<initializing, OUTPUT_IDS, models, pc, req, answer, held, calls>>

\* A process gets here once: the choice of the asset is the build's.
InitFinish(t) ==
  /\ initializing = t
  /\ \E asset \in Embedded : cell' = MakeState(asset, asset)
  /\ initializing' = None
  /\ UNCHANGED <<OUTPUT_IDS, models, pc, req, answer, held, calls>>

\* Fault: a model is accepted without the comparison.
AcceptUnchecked(t) ==
  /\ pc[t] = "check"
  /\ cell \in Sha
  /\ models' = models \cup {req[t].expected}
  /\ Return(t, 0, 0, None)
  /\ UNCHANGED <<cell, initializing, OUTPUT_IDS, req, held, calls>>

\* The SHA in the file is the one nedo004_vocab_sha256 reports.
Accept(t) ==
  /\ pc[t] = "check"
  /\ cell \in Sha
  /\ cell = req[t].expected
  /\ models' = models \cup {req[t].expected}
  /\ Return(t, 0, 0, None)
  /\ UNCHANGED <<cell, initializing, OUTPUT_IDS, req, held, calls>>

\* The caller throws on a null or different SHA; 1 stands for its exception.
Mismatch(t) ==
  /\ pc[t] = "check"
  /\ cell \notin {Empty, req[t].expected}
  /\ Refuse(t, 1)

-----------------------------------------------------------------------------
(***************************************************************************)
(* Encoding and decoding.                                                  *)
(***************************************************************************)
Size(t) ==
  /\ pc[t] = "state"
  /\ req[t].op = "size"
  /\ cell # Empty
  /\ Return(t, 0, IF cell \in Sha THEN 32000 ELSE 0, None)
  /\ UNCHANGED <<cell, initializing, OUTPUT_IDS, models, req, held, calls>>

\* Fault: the buffer belongs to the process instead of the thread.
EncodeShared(t) ==
  /\ pc[t] = "state"
  /\ req[t].op \in {"fragment", "encode"}
  /\ cell \in Sha
  /\ req[t].text \notin Unencodable
  /\ OUTPUT_IDS' = [u \in Thread |-> [vocab |-> cell, text |-> req[t].text]]
  /\ Goto(t, "encoded")
  /\ UNCHANGED <<cell, initializing, models, req, answer, held, calls>>

\* nedo004_encode leaves the ids in the thread's buffer.
Encode(t) ==
  /\ pc[t] = "state"
  /\ req[t].op \in {"fragment", "encode"}
  /\ cell \in Sha
  /\ req[t].text \notin Unencodable
  /\ OUTPUT_IDS' = [OUTPUT_IDS EXCEPT ![t] = [vocab |-> cell, text |-> req[t].text]]
  /\ Goto(t, "encoded")
  /\ UNCHANGED <<cell, initializing, models, req, answer, held, calls>>

\* It returns null and a length of 0 when there is no vocabulary or the text
\* is rejected.  llama.cpp takes that for a fragment without tokens.
EncodeFails(t) ==
  /\ pc[t] = "state"
  /\ req[t].op \in {"fragment", "encode"}
  /\ \/ cell = Failed
     \/ cell \in Sha /\ req[t].text \in Unencodable
  /\ Refuse(t, IF req[t].op = "encode" THEN -2 ELSE 0)

\* llama.cpp reads the ids through the pointer into the buffer.
TakeFragment(t) ==
  /\ pc[t] = "encoded"
  /\ req[t].op = "fragment"
  /\ held' = [held EXCEPT ![t] = OUTPUT_IDS[t]]
  /\ Return(t, 0, Count[OUTPUT_IDS[t].vocab][OUTPUT_IDS[t].text], OUTPUT_IDS[t])
  /\ UNCHANGED <<cell, initializing, OUTPUT_IDS, models, req, calls>>

CopyIds(t) ==
  /\ pc[t] = "encoded"
  /\ req[t].op = "encode"
  /\ req[t].capacity >= Count[OUTPUT_IDS[t].vocab][OUTPUT_IDS[t].text]
  /\ held' = [held EXCEPT ![t] = OUTPUT_IDS[t]]
  /\ Return(t, 0, Count[OUTPUT_IDS[t].vocab][OUTPUT_IDS[t].text], OUTPUT_IDS[t])
  /\ UNCHANGED <<cell, initializing, OUTPUT_IDS, models, req, calls>>

IdsTooMany(t) ==
  /\ pc[t] = "encoded"
  /\ req[t].op = "encode"
  /\ req[t].capacity < Count[OUTPUT_IDS[t].vocab][OUTPUT_IDS[t].text]
  /\ Return(t, -4, Count[OUTPUT_IDS[t].vocab][OUTPUT_IDS[t].text], None)
  /\ UNCHANGED <<cell, initializing, OUTPUT_IDS, models, req, held, calls>>

\* Decoding concatenates the pieces of the vocabulary in force.
Decoded(ids) == IF ids.vocab = cell THEN ids.text ELSE Garbled

DecodeFails(t) ==
  /\ pc[t] = "state"
  /\ req[t].op = "decode"
  /\ \/ cell = Failed
     \/ cell \in Sha /\ req[t].ids = BadIds
  /\ Refuse(t, IF cell = Failed THEN -2 ELSE -3)

\* A text is 1 byte long here: what matters is whether the buffer holds it.
Decode(t) ==
  /\ pc[t] = "state"
  /\ req[t].op = "decode"
  /\ cell \in Sha
  /\ req[t].ids # BadIds
  /\ IF req[t].capacity < 1
     THEN Return(t, -4, 1, None)
     ELSE Return(t, 0, 1, Decoded(req[t].ids))
  /\ UNCHANGED <<cell, initializing, OUTPUT_IDS, models, req, held, calls>>

Progress(t) ==
  \/ MalformedSha(t)
  \/ PeekSame(t)
  \/ PeekOther(t)
  \/ PeekEmpty(t)
  \/ MakeFails(t)
  \/ Make(t)
  \/ SetFirst(t)
  \/ SetSame(t)
  \/ SetOther(t)
  \/ InitStart(t)
  \/ InitFinish(t)
  \/ Accept(t)
  \/ Mismatch(t)
  \/ Size(t)
  \/ Encode(t)
  \/ EncodeFails(t)
  \/ TakeFragment(t)
  \/ CopyIds(t)
  \/ IdsTooMany(t)
  \/ DecodeFails(t)
  \/ Decode(t)

\* A caller asks with no buffer first, then with what it was told to bring.
Capacity(t) == {0} \cup (IF answer[t] = None THEN {} ELSE {answer[t].len})

Requests(t) ==
  LoadCall \cup QueryCall
    \cup [op : {"fragment", "encode"}, text : Text, capacity : Capacity(t)]
    \cup [op : {"decode"}, ids : {BadIds} \cup ({held[t]} \ {None}), capacity : Capacity(t)]

Next == \E t \in Thread : (\E r \in Requests(t) : Call(t, r)) \/ Progress(t)

Spec == Init /\ [][Next]_vars

\* A thread inside the library runs on; new calls are the callers' affair.
FairSpec == Spec /\ \A t \in Thread : WF_vars(Progress(t))

-----------------------------------------------------------------------------
(***************************************************************************)
(* Properties.                                                             *)
(***************************************************************************)

\* Every variable stays within its type.
TypeOK ==
  /\ cell \in Sha \cup {Empty, Failed}
  /\ initializing \in Thread \cup {None}
  /\ OUTPUT_IDS \in [Thread -> Ids \cup {None}]
  /\ models \subseteq Sha
  /\ pc \in [Thread -> {"idle", "peek", "make", "set", "check", "state", "encoded"}]
  /\ req \in [Thread -> Request \cup {None}]
  /\ answer \in [Thread -> Result \cup {None}]
  /\ held \in [Thread -> Ids \cup {None}]
  /\ calls \in [Thread -> 0..MaxCalls]

\* Every model loaded in the process is served by its own vocabulary, now and
\* for as long as it lives, although set_vocab, the lazy initialisation and
\* model files without a vocabulary race for the one cell.
LoadedModelsServed == \A m \in models : cell = m

\* What a thread reads out of the buffer is the encoding of its own text under
\* the vocabulary in force, whatever the other threads encode meanwhile.
OwnEncoding ==
  \A t \in Thread : pc[t] = "idle" /\ req[t] # None /\ answer[t] # None =>
    (req[t].op \in {"fragment", "encode"} /\ answer[t].data # None =>
       answer[t].data = [vocab |-> cell, text |-> req[t].text])

\* Ids decode to the text they were made from, however long they were kept.
RoundTrip ==
  \A t \in Thread : pc[t] = "idle" /\ req[t] # None /\ answer[t] # None =>
    (req[t].op = "decode" /\ answer[t].data # None => answer[t].data = req[t].ids.text)

\* The length a size query reports is the length a later fetch needs: nothing
\* any thread does in between changes it.
ReportedLengthStays ==
  \A t \in Thread : pc[t] = "idle" /\ req[t] # None /\ answer[t] # None =>
    (req[t].op = "encode" /\ answer[t].code = -4 =>
       cell \in Sha /\ answer[t].len = Count[cell][req[t].text])

\* Every call returns: a set waits only for an initialisation that ends.
CallsReturn == \A t \in Thread : pc[t] # "idle" ~> pc[t] = "idle"

\* The bridge keeps its promise to the process.
Promise == INSTANCE OneVocabulary WITH vocab <- cell, heard <- held
ImplementsOneVocabulary == Promise!Spec

\* llama.cpp reports a fragment that could not be tokenized.
FailedFragmentReported ==
  \A t \in Thread : pc[t] = "idle" /\ req[t] # None /\ answer[t] # None =>
    (req[t].op = "fragment" /\ answer[t].code = 0 => answer[t].data # None)

\* What a caller got stays true for the models that are loaded: each is served
\* by the vocabulary it agreed with, ids decode to the text they were made of,
\* and the length reported is that of the ids kept for the thread.
AnswersStayTrue == TypeOK /\ LoadedModelsServed /\ OwnEncoding /\ RoundTrip /\ ReportedLengthStays
=============================================================================
