-------------------------- MODULE Nedo004StateProofs --------------------------
(***************************************************************************)
(* Proofs about Nedo004State, for every set of threads, vocabularies and   *)
(* texts and every number of calls.                                        *)
(***************************************************************************)
EXTENDS Nedo004State, TLAPS

-----------------------------------------------------------------------------
(***************************************************************************)
(* The inductive invariant.                                                *)
(***************************************************************************)

\* What a call is follows from where it stands.
CallFits ==
  /\ \A t \in Thread : pc[t] \in {"peek", "make", "set", "check"} => req[t] \in LoadCall
  /\ \A t \in Thread : pc[t] \in {"peek", "make", "set"} => req[t].asset \in Sha
  /\ \A t \in Thread : pc[t] = "state" => req[t] \in QueryCall \cup TextCall \cup DecodeCall
  /\ \A t \in Thread : pc[t] = "encoded" => req[t] \in TextCall

\* A thread about to fill the cell has validated its candidate.
SetPrepared ==
  \A t \in Thread : pc[t] = "set" => req[t].asset = req[t].expected /\ req[t].asset \in Sha

\* The closure of get_or_init runs only while the cell is empty.
InitRunsOnEmpty == initializing # None => cell = Empty

\* Nothing is served from an empty cell.
BufferMade ==
  \A t \in Thread : pc[t] = "encoded" =>
    cell \in Sha /\ OUTPUT_IDS[t] = [vocab |-> cell, text |-> req[t].text]

\* Ids a caller keeps, or hands back for decoding, were made with the
\* vocabulary in force.
KeptIdsMade ==
  /\ \A t \in Thread : held[t] # None => held[t].vocab = cell /\ cell \in Sha
  /\ \A t \in Thread : req[t] \in DecodeCall /\ req[t].ids # BadIds =>
       req[t].ids.vocab = cell /\ cell \in Sha

ModelsServed == \A m \in models : cell = m

\* What a finished call left in answer.
AnswerFits ==
  \A t \in Thread : pc[t] = "idle" /\ req[t] # None /\ answer[t] # None =>
    /\ req[t] \in TextCall /\ answer[t].data # None =>
         cell \in Sha /\ answer[t].data = [vocab |-> cell, text |-> req[t].text]
    /\ req[t] \in DecodeCall /\ answer[t].data # None => answer[t].data = req[t].ids.text
    /\ req[t] \in TextCall /\ answer[t].code = -4 =>
         cell \in Sha /\ answer[t].len = Count[cell][req[t].text]

IInv ==
  /\ TypeOK
  /\ CallFits
  /\ SetPrepared
  /\ InitRunsOnEmpty
  /\ BufferMade
  /\ KeptIdsMade
  /\ ModelsServed
  /\ AnswerFits

-----------------------------------------------------------------------------
(***************************************************************************)
(* Steps that several actions share.                                       *)
(***************************************************************************)

USE Nedo004Assumption

\* Giving a call up disturbs nothing but the thread's own answer, which names
\* no ids and, for an encoding, is not the code for a short buffer.
LEMMA RefuseKeeps ==
  ASSUME IInv, NEW t \in Thread, NEW code \in -4..1, Refuse(t, code),
         pc[t] # "idle", req[t] \in TextCall => code # -4
  PROVE  IInv'
<1>1. TypeOK'
  BY DEF IInv, TypeOK, Refuse, Return, Goto, Result
<1>2. CallFits' /\ SetPrepared' /\ InitRunsOnEmpty' /\ BufferMade'
  BY DEF IInv, TypeOK, CallFits, SetPrepared, InitRunsOnEmpty, BufferMade, Refuse, Return, Goto
<1>3. KeptIdsMade' /\ ModelsServed'
  BY DEF IInv, KeptIdsMade, ModelsServed, Refuse
<1>4. AnswerFits'
  BY DEF IInv, TypeOK, AnswerFits, Refuse, Return, Goto
<1>q. QED BY <1>1, <1>2, <1>3, <1>4 DEF IInv

\* Moving on to the next check of the same load.
LEMMA GotoKeeps ==
  ASSUME IInv, NEW t \in Thread, NEW where \in {"make", "set", "check"}, Goto(t, where),
         pc[t] \in {"peek", "make", "set"},
         where = "set" => req[t].asset = req[t].expected,
         UNCHANGED <<cell, initializing, OUTPUT_IDS, models, req, answer, held, calls>>
  PROVE  IInv'
<1>1. TypeOK'
  BY DEF IInv, TypeOK, Goto
<1>2. CallFits' /\ SetPrepared'
  BY DEF IInv, TypeOK, CallFits, SetPrepared, Goto
<1>3. InitRunsOnEmpty' /\ BufferMade' /\ KeptIdsMade' /\ ModelsServed' /\ AnswerFits'
  BY DEF IInv, TypeOK, InitRunsOnEmpty, BufferMade, KeptIdsMade, ModelsServed, AnswerFits, Goto
<1>q. QED BY <1>1, <1>2, <1>3 DEF IInv

\* Filling the empty cell: nobody holds anything made from it yet.
LEMMA FillKeeps ==
  ASSUME IInv, cell = Empty, cell' \in Sha \cup {Failed}, initializing' = None,
         UNCHANGED <<OUTPUT_IDS, models, req, answer, held, calls>>,
         \/ UNCHANGED pc
         \/ \E t \in Thread : pc[t] = "set" /\ Goto(t, "check")
  PROVE  IInv'
<1>1. TypeOK'
  BY DEF IInv, TypeOK, Goto
<1>2. CallFits' /\ SetPrepared' /\ InitRunsOnEmpty'
  BY DEF IInv, TypeOK, CallFits, SetPrepared, InitRunsOnEmpty, Goto
<1>3. BufferMade' /\ KeptIdsMade' /\ ModelsServed'
  BY DEF IInv, TypeOK, BufferMade, KeptIdsMade, ModelsServed, Goto
<1>4. AnswerFits'
  BY DEF IInv, TypeOK, AnswerFits, Goto
<1>q. QED BY <1>1, <1>2, <1>3, <1>4 DEF IInv

LEMMA CallKeeps ==
  ASSUME IInv, NEW t \in Thread, NEW r \in Requests(t), Call(t, r)
  PROVE  IInv'
<1>1. Capacity(t) \subseteq Nat
  BY DEF IInv, TypeOK, Result, Capacity
<1>2. /\ r \in Request
      /\ r.op # "load" => r \in QueryCall \cup TextCall \cup DecodeCall
      /\ r.op = "load" => r \in LoadCall
  BY <1>1 DEF IInv, TypeOK, Requests, Request, LoadCall, QueryCall, TextCall, DecodeCall
<1>3. r \in DecodeCall /\ r.ids # BadIds => r.ids = held[t] /\ held[t] # None
  BY DEF Requests, LoadCall, QueryCall, TextCall, DecodeCall
<1>4. r \in LoadCall /\ r.asset # NoAsset => r.asset \in Sha
  BY DEF LoadCall
<1>5. TypeOK'
  BY <1>2 DEF IInv, TypeOK, Call, Goto
<1>6. CallFits' /\ SetPrepared' /\ InitRunsOnEmpty' /\ BufferMade'
  BY <1>2, <1>4 DEF IInv, TypeOK, CallFits, SetPrepared, InitRunsOnEmpty, BufferMade, Call, Goto
<1>7. KeptIdsMade' /\ ModelsServed'
  BY <1>3 DEF IInv, TypeOK, KeptIdsMade, ModelsServed, Call
<1>8. AnswerFits'
  BY DEF IInv, TypeOK, AnswerFits, Call, Goto
<1>q. QED BY <1>5, <1>6, <1>7, <1>8 DEF IInv

\* An answer other than a refusal, given by a thread inside a call.
LEMMA AnswerKeeps ==
  ASSUME IInv, NEW t \in Thread, pc[t] # "idle",
         NEW code \in -4..1, NEW len \in Nat, NEW data \in Ids \cup Text \cup {Garbled, None},
         Return(t, code, len, data),
         req[t] \in TextCall /\ data # None =>
           cell \in Sha /\ data = [vocab |-> cell, text |-> req[t].text],
         req[t] \in DecodeCall /\ data # None => data = req[t].ids.text,
         req[t] \in TextCall /\ code = -4 => cell \in Sha /\ len = Count[cell][req[t].text],
         NEW h \in Ids \cup {None}, held' = [held EXCEPT ![t] = h],
         h # None => h.vocab = cell /\ cell \in Sha,
         models' \subseteq Sha, \A m \in models' : cell = m,
         UNCHANGED <<cell, initializing, OUTPUT_IDS, req, calls>>
  PROVE  IInv'
<1>1. TypeOK'
  BY DEF IInv, TypeOK, Return, Goto, Result
<1>2. CallFits' /\ SetPrepared' /\ InitRunsOnEmpty' /\ BufferMade'
  BY DEF IInv, TypeOK, CallFits, SetPrepared, InitRunsOnEmpty, BufferMade, Return, Goto
<1>3. KeptIdsMade' /\ ModelsServed'
  BY DEF IInv, TypeOK, KeptIdsMade, ModelsServed
<1>4. AnswerFits'
  BY DEF IInv, TypeOK, AnswerFits, Return, Goto
<1>q. QED BY <1>1, <1>2, <1>3, <1>4 DEF IInv

-----------------------------------------------------------------------------
(***************************************************************************)
(* The invariant.                                                          *)
(***************************************************************************)

LEMMA InitHolds == Init => IInv
BY DEF Init, IInv, TypeOK, CallFits, SetPrepared, InitRunsOnEmpty, BufferMade,
       KeptIdsMade, ModelsServed, AnswerFits, Request

\* Loading: the branches of nedo004_set_vocab and the comparison after it.
LEMMA LoadKeeps ==
  ASSUME IInv, NEW t \in Thread,
         \/ MalformedSha(t) \/ PeekSame(t) \/ PeekOther(t) \/ PeekEmpty(t)
         \/ MakeFails(t) \/ Make(t) \/ SetFirst(t) \/ SetSame(t) \/ SetOther(t)
         \/ Accept(t) \/ Mismatch(t)
  PROVE  IInv'
<1>1. pc[t] \in {"peek", "make", "set", "check"} => req[t] \in LoadCall /\ req[t] \notin TextCall
  BY DEF IInv, CallFits, LoadCall, TextCall
<1>2. CASE MalformedSha(t)
  BY <1>1, <1>2, RefuseKeeps DEF MalformedSha
<1>3. CASE PeekSame(t)
  BY <1>3, GotoKeeps DEF PeekSame
<1>4. CASE PeekOther(t)
  BY <1>1, <1>4, RefuseKeeps DEF PeekOther
<1>5. CASE PeekEmpty(t)
  BY <1>5, GotoKeeps DEF PeekEmpty
<1>6. CASE MakeFails(t)
  BY <1>1, <1>6, RefuseKeeps DEF MakeFails
<1>7. CASE Make(t)
  BY <1>7, GotoKeeps DEF Make, MakeState
<1>8. CASE SetFirst(t)
  <2>1. req[t].asset \in Sha
    BY <1>8 DEF SetFirst, IInv, SetPrepared
  <2>q. QED BY <1>8, <2>1, FillKeeps DEF SetFirst
<1>9. CASE SetSame(t)
  BY <1>9, GotoKeeps DEF SetSame
<1>10. CASE SetOther(t)
  BY <1>1, <1>10, RefuseKeeps DEF SetOther
<1>11. CASE Accept(t)
  <2>1. pc[t] = "check" /\ req[t] \in LoadCall /\ cell = req[t].expected /\ cell \in Sha
    BY <1>1, <1>11 DEF Accept
  <2>2. req[t] \notin TextCall /\ req[t] \notin DecodeCall
    BY <2>1 DEF LoadCall, TextCall, DecodeCall
  <2>4. held[t] \in Ids \cup {None} /\ held' = [held EXCEPT ![t] = held[t]]
    BY <1>11 DEF Accept, IInv, TypeOK
  <2>5. held[t] # None => held[t].vocab = cell /\ cell \in Sha
    BY DEF IInv, KeptIdsMade
  <2>6. models' \subseteq Sha /\ \A m \in models' : cell = m
    BY <1>11, <2>1 DEF Accept, IInv, TypeOK, ModelsServed
  <2>7. pc[t] # "idle" /\ 0 \in -4..1 /\ 0 \in Nat /\ 0 # -4 /\ None \in Ids \cup Text \cup {Garbled, None}
    BY <2>1
  <2>8. Return(t, 0, 0, None) /\ UNCHANGED <<cell, initializing, OUTPUT_IDS, req, calls>>
    BY <1>11 DEF Accept
  <2>q. QED BY <2>2, <2>4, <2>5, <2>6, <2>7, <2>8, AnswerKeeps
<1>12. CASE Mismatch(t)
  BY <1>1, <1>12, RefuseKeeps DEF Mismatch
<1>q. QED BY <1>2, <1>3, <1>4, <1>5, <1>6, <1>7, <1>8, <1>9, <1>10, <1>11, <1>12

\* The lazy initialisation.
LEMMA LazyInitKeeps ==
  ASSUME IInv, NEW t \in Thread, InitStart(t) \/ InitFinish(t)
  PROVE  IInv'
<1>1. CASE InitStart(t)
  <2>1. TypeOK' /\ CallFits' /\ SetPrepared' /\ InitRunsOnEmpty'
    BY <1>1 DEF InitStart, IInv, TypeOK, CallFits, SetPrepared, InitRunsOnEmpty
  <2>2. BufferMade' /\ KeptIdsMade' /\ ModelsServed' /\ AnswerFits'
    BY <1>1 DEF InitStart, IInv, BufferMade, KeptIdsMade, ModelsServed, AnswerFits
  <2>q. QED BY <2>1, <2>2 DEF IInv
<1>2. CASE InitFinish(t)
  <2>1. cell = Empty /\ cell' \in Sha \cup {Failed}
    BY <1>2 DEF InitFinish, MakeState, IInv, InitRunsOnEmpty
  <2>q. QED BY <1>2, <2>1, FillKeeps DEF InitFinish
<1>q. QED BY <1>1, <1>2

\* Encoding fills the thread's own buffer.
LEMMA EncodeKeeps ==
  ASSUME IInv, NEW t \in Thread, Encode(t)
  PROVE  IInv'
<1>1. req[t] \in TextCall /\ req[t].text \in Text
  BY DEF Encode, IInv, CallFits, QueryCall, TextCall, DecodeCall
<1>2. TypeOK'
  BY <1>1 DEF Encode, IInv, TypeOK, Goto, Ids
<1>3. CallFits' /\ SetPrepared' /\ InitRunsOnEmpty'
  BY <1>1 DEF Encode, IInv, TypeOK, CallFits, SetPrepared, InitRunsOnEmpty, Goto
<1>4. BufferMade'
  BY DEF Encode, IInv, TypeOK, BufferMade, Goto
<1>5. KeptIdsMade' /\ ModelsServed' /\ AnswerFits'
  BY DEF Encode, IInv, TypeOK, KeptIdsMade, ModelsServed, AnswerFits, Goto
<1>q. QED BY <1>2, <1>3, <1>4, <1>5 DEF IInv

\* Handing the buffer over, or saying how much room its ids need.
LEMMA DeliverKeeps ==
  ASSUME IInv, NEW t \in Thread, TakeFragment(t) \/ CopyIds(t) \/ IdsTooMany(t)
  PROVE  IInv'
<1> DEFINE ids == OUTPUT_IDS[t]
           n == Count[ids.vocab][ids.text]
<1>1. /\ pc[t] = "encoded" /\ req[t] \in TextCall /\ cell \in Sha
      /\ ids = [vocab |-> cell, text |-> req[t].text]
  BY DEF IInv, CallFits, BufferMade, TakeFragment, CopyIds, IdsTooMany
<1>2. req[t].text \in Text /\ req[t] \notin DecodeCall
  BY <1>1 DEF TextCall, DecodeCall
<1>3. ids \in Ids /\ ids.vocab = cell /\ n = Count[cell][req[t].text] /\ n \in Nat
  BY <1>1, <1>2 DEF Ids
<1>4. models' \subseteq Sha /\ \A m \in models' : cell = m
  BY DEF TakeFragment, CopyIds, IdsTooMany, IInv, TypeOK, ModelsServed
<1>5. /\ 0 \in -4..1 /\ -4 \in -4..1 /\ 0 # -4
      /\ {ids, None} \subseteq Ids \cup Text \cup {Garbled, None}
  BY <1>3
<1>6. UNCHANGED <<cell, initializing, OUTPUT_IDS, req, calls>>
  BY DEF TakeFragment, CopyIds, IdsTooMany
<1> HIDE DEF ids, n
<1>7. CASE TakeFragment(t) \/ CopyIds(t)
  <2>1. Return(t, 0, n, ids) /\ held' = [held EXCEPT ![t] = ids]
    BY <1>7 DEF TakeFragment, CopyIds, ids, n
  <2>q. QED BY <1>1, <1>2, <1>3, <1>4, <1>5, <1>6, <2>1, AnswerKeeps
<1>8. CASE IdsTooMany(t)
  <2>1. Return(t, -4, n, None)
    BY <1>8 DEF IdsTooMany, ids, n
  <2>2. held[t] \in Ids \cup {None} /\ held' = [held EXCEPT ![t] = held[t]]
    BY <1>8 DEF IdsTooMany, IInv, TypeOK
  <2>3. held[t] # None => held[t].vocab = cell /\ cell \in Sha
    BY DEF IInv, KeptIdsMade
  <2>q. QED BY <1>1, <1>2, <1>3, <1>4, <1>5, <1>6, <2>1, <2>2, <2>3, AnswerKeeps
<1>q. QED BY <1>7, <1>8

\* Calls answered straight from the cell.
LEMMA QueryKeeps ==
  ASSUME IInv, NEW t \in Thread,
         Size(t) \/ EncodeFails(t) \/ DecodeFails(t) \/ Decode(t)
  PROVE  IInv'
<1>1. pc[t] = "state" /\ req[t] \in QueryCall \cup TextCall \cup DecodeCall
  BY DEF IInv, CallFits, Size, EncodeFails, DecodeFails, Decode
<1>2. /\ req[t].op = "size" => req[t] \notin TextCall /\ req[t] \notin DecodeCall
      /\ req[t].op = "decode" => req[t] \in DecodeCall /\ req[t] \notin TextCall
  BY <1>1 DEF QueryCall, TextCall, DecodeCall
<1>3. CASE EncodeFails(t)
  BY <1>1, <1>3, RefuseKeeps DEF EncodeFails
<1>4. CASE DecodeFails(t)
  BY <1>1, <1>2, <1>4, RefuseKeeps DEF DecodeFails
<1>5. held[t] \in Ids \cup {None} /\ held = [held EXCEPT ![t] = held[t]]
  BY DEF IInv, TypeOK
<1>6. held[t] # None => held[t].vocab = cell /\ cell \in Sha
  BY DEF IInv, KeptIdsMade
<1>7. models \subseteq Sha /\ \A m \in models : cell = m
  BY DEF IInv, TypeOK, ModelsServed
<1>8. 0 \in -4..1 /\ -4 \in -4..1 /\ 0 # -4 /\ None \in Ids \cup Text \cup {Garbled, None}
  OBVIOUS
<1>9. CASE Size(t)
  <2>1. PICK n \in Nat : Return(t, 0, n, None)
    BY <1>9 DEF Size
  <2>2. UNCHANGED <<cell, initializing, OUTPUT_IDS, models, req, held, calls>>
    BY <1>9 DEF Size
  <2>3. req[t] \notin TextCall /\ req[t] \notin DecodeCall
    BY <1>2, <1>9 DEF Size
  <2>q. QED BY <1>1, <1>5, <1>6, <1>7, <1>8, <2>1, <2>2, <2>3, AnswerKeeps
<1>10. CASE Decode(t)
  <2>1. UNCHANGED <<cell, initializing, OUTPUT_IDS, models, req, held, calls>>
    BY <1>10 DEF Decode
  <2>2. req[t] \in DecodeCall /\ req[t] \notin TextCall
    BY <1>2, <1>10 DEF Decode
  <2>3. CASE Return(t, -4, 1, None)
    BY <1>1, <1>5, <1>6, <1>7, <1>8, <2>1, <2>2, <2>3, AnswerKeeps
  <2>4. CASE Return(t, 0, 1, Decoded(req[t].ids))
    <3>1. req[t].ids \in Ids
      BY <1>10, <2>2 DEF Decode, DecodeCall
    <3>2. Decoded(req[t].ids) = req[t].ids.text /\ req[t].ids.text \in Text
      BY <1>10, <2>2, <3>1 DEF Decode, Decoded, IInv, KeptIdsMade, Ids
    <3>q. QED BY <1>1, <1>5, <1>6, <1>7, <1>8, <2>1, <2>2, <2>4, <3>2, AnswerKeeps, ZenonT(30)
  <2>q. QED BY <1>10, <2>3, <2>4 DEF Decode
<1>q. QED BY <1>3, <1>4, <1>9, <1>10

LEMMA NextKeeps == IInv /\ [Next]_vars => IInv'
<1> SUFFICES ASSUME IInv, [Next]_vars PROVE IInv'
  OBVIOUS
<1>1. CASE UNCHANGED vars
  BY <1>1 DEF vars, IInv, TypeOK, CallFits, SetPrepared, InitRunsOnEmpty, BufferMade,
              KeptIdsMade, ModelsServed, AnswerFits
<1>2. ASSUME NEW t \in Thread, NEW r \in Requests(t), Call(t, r) PROVE IInv'
  BY <1>2, CallKeeps
<1>3. ASSUME NEW t \in Thread, Progress(t) PROVE IInv'
  BY <1>3, LoadKeeps, LazyInitKeeps, EncodeKeeps, DeliverKeeps, QueryKeeps DEF Progress
<1>q. QED BY <1>1, <1>2, <1>3 DEF Next

\* The inductive invariant holds in every state the bridge reaches.
THEOREM Invariance == Spec => []IInv
BY InitHolds, NextKeeps, PTL DEF Spec

\* Every variable stays within its type: in particular no vocabulary that is
\* not an asset, and no model of one, is ever recorded.
THEOREM TypeCorrect == Spec => []TypeOK
<1>1. IInv => TypeOK
  BY DEF IInv
<1>q. QED BY <1>1, Invariance, PTL

\* However loads, lazy initialisations and model files without a vocabulary
\* race for the cell, each loaded model is served by its own vocabulary.
THEOREM ModelsAreServed == Spec => []LoadedModelsServed
<1>1. IInv => LoadedModelsServed
  BY DEF IInv, ModelsServed, LoadedModelsServed
<1>q. QED BY <1>1, Invariance, PTL

\* The ids a call delivers are those of its own text under the vocabulary in
\* force, whatever the other threads encode.
THEOREM EncodingIsOwn == Spec => []OwnEncoding
<1>1. ASSUME IInv PROVE OwnEncoding
  <2> SUFFICES ASSUME NEW t \in Thread, pc[t] = "idle", req[t] # None, answer[t] # None,
                      req[t].op \in {"fragment", "encode"}, answer[t].data # None
               PROVE  answer[t].data = [vocab |-> cell, text |-> req[t].text]
    BY DEF OwnEncoding
  <2>1. req[t] \in TextCall
    BY <1>1 DEF IInv, TypeOK, Request, LoadCall, QueryCall, TextCall, DecodeCall
  <2>q. QED BY <1>1, <2>1 DEF IInv, AnswerFits
<1>q. QED BY <1>1, Invariance, PTL

\* Ids kept for any time decode to the text they were made from.
THEOREM DecodingIsFaithful == Spec => []RoundTrip
<1>1. ASSUME IInv PROVE RoundTrip
  <2> SUFFICES ASSUME NEW t \in Thread, pc[t] = "idle", req[t] # None, answer[t] # None,
                      req[t].op = "decode", answer[t].data # None
               PROVE  answer[t].data = req[t].ids.text
    BY DEF RoundTrip
  <2>1. req[t] \in DecodeCall
    BY <1>1 DEF IInv, TypeOK, Request, LoadCall, QueryCall, TextCall, DecodeCall
  <2>q. QED BY <1>1, <2>1 DEF IInv, AnswerFits
<1>q. QED BY <1>1, Invariance, PTL

\* A size query stays right: the fetch that follows it needs what it reported.
THEOREM SizeQueryStays == Spec => []ReportedLengthStays
<1>1. ASSUME IInv PROVE ReportedLengthStays
  <2> SUFFICES ASSUME NEW t \in Thread, pc[t] = "idle", req[t] # None, answer[t] # None,
                      req[t].op = "encode", answer[t].code = -4
               PROVE  cell \in Sha /\ answer[t].len = Count[cell][req[t].text]
    BY DEF ReportedLengthStays
  <2>1. req[t] \in TextCall
    BY <1>1 DEF IInv, TypeOK, Request, LoadCall, QueryCall, TextCall, DecodeCall
  <2>q. QED BY <1>1, <2>1 DEF IInv, AnswerFits
<1>q. QED BY <1>1, Invariance, PTL

-----------------------------------------------------------------------------
(***************************************************************************)
(* The bridge implements OneVocabulary.                                    *)
(***************************************************************************)

LEMMA RefinementStep == IInv /\ [Next]_vars => [Promise!Next]_(Promise!vars)
<1> SUFFICES ASSUME IInv, [Next]_vars, ~UNCHANGED <<cell, models, held>>
             PROVE  Promise!Next
  BY DEF Promise!vars
<1>1. PICK t \in Thread :
         \/ SetFirst(t) \/ InitFinish(t) \/ Accept(t) \/ TakeFragment(t) \/ CopyIds(t)
  BY DEF Next, Progress, vars, Call, MalformedSha, PeekSame, PeekOther, PeekEmpty, MakeFails,
         Make, SetSame, SetOther, InitStart, Mismatch, Size, Encode, EncodeFails, IdsTooMany,
         DecodeFails, Decode, Refuse
<1>2. CASE SetFirst(t)
  <2>1. cell' \in Sha
    BY <1>2 DEF SetFirst, IInv, SetPrepared
  <2>q. QED BY <1>2, <2>1 DEF SetFirst, Promise!Next, Promise!Fix
<1>3. CASE InitFinish(t)
  <2>1. cell = Empty /\ cell' \in Sha \cup {Failed} /\ UNCHANGED <<models, held>>
    BY <1>3 DEF InitFinish, MakeState, IInv, InitRunsOnEmpty
  <2>q. QED BY <2>1 DEF Promise!Next, Promise!Fix
<1>4. CASE Accept(t)
  BY <1>4 DEF Accept, Promise!Next, Promise!Accept
<1>5. CASE TakeFragment(t) \/ CopyIds(t)
  <2>1. /\ pc[t] = "encoded" /\ req[t] \in TextCall /\ cell \in Sha
        /\ OUTPUT_IDS[t] = [vocab |-> cell, text |-> req[t].text]
    BY <1>5 DEF IInv, CallFits, BufferMade, TakeFragment, CopyIds
  <2>2. req[t].text \in Text
    BY <2>1 DEF TextCall
  <2>3. Promise!Encode(t, req[t].text)
    BY <1>5, <2>1 DEF TakeFragment, CopyIds, Promise!Encode
  <2>q. QED BY <2>2, <2>3 DEF Promise!Next
<1>q. QED BY <1>1, <1>2, <1>3, <1>4, <1>5

\* The first call settles the vocabulary, nothing replaces it, and all models
\* and ids belong to it.
THEOREM Refinement == Spec => ImplementsOneVocabulary
<1>1. Init => Promise!Init
  BY DEF Init, Promise!Init
<1>q. QED BY <1>1, RefinementStep, Invariance, PTL
          DEF Spec, ImplementsOneVocabulary, Promise!Spec

\* Models are served, encodings are their caller's, decodings are faithful and
\* reported lengths stay, for every number of threads and vocabularies.
THEOREM AnswersAreTrue == Spec => []AnswersStayTrue
BY TypeCorrect, ModelsAreServed, EncodingIsOwn, DecodingIsFaithful, SizeQueryStays, PTL
   DEF AnswersStayTrue
=============================================================================
