------------------------ MODULE CloudRequestsProofs ------------------------
(***************************************************************************)
(* Proofs about CloudRequests, for any instances, threads, kinds, sizes    *)
(* and bounds, and wherever instances are allocated.                       *)
(***************************************************************************)
EXTENDS CloudRequests, SequenceTheorems, TLAPS

\* What the threads may have of a key, and what a request may be signed with.
KeyCopies == [secret : Instances \cup {NoKey, EmptyKey}, validInstance : Instances \cup {NoKey}]
Ops == {"get", "put", "delete", "create", "part", "complete", "abort"}
Requests == {Null} \cup
  [key : Instances \cup {NoKey, EmptyKey}, declared : Int, carried : Int]
MessageRecords ==
  [of : Instances, op : Ops, bytes : Requests, attached : Int, again : BOOLEAN]

Types ==
  /\ kind \in [Instances -> AllKinds]
  /\ key \in [Instances -> Instances \cup {NoKey, EmptyKey}]
  /\ keys \in [Threads -> KeyCopies]
  /\ upload \in [Instances -> [size : Nat, parts : Nat, outstanding : Int, failed : BOOLEAN]]

\* An instance has its own keys or none; only those of GCP and Azure are made up.
OwnKey ==
  \A i \in Instances : /\ key[i] \in {i, NoKey, EmptyKey}
                       /\ IsAWS(i) => key[i] # EmptyKey

\* The keys a thread has are those of an instance that was at the address that
\* the thread remembers.
Belongs(k) == k.secret # NoKey => k.secret \in Instances /\ k.validInstance = AddressOf[k.secret]
KeysBelong == \A t \in Threads : Belongs(keys[t])

\* Who signed a request of AWS was at the address of its instance.
Signed(m) ==
  IsAWS(m.of) /\ m.bytes # Null =>
    m.bytes.key \in Instances /\ AddressOf[m.bytes.key] = AddressOf[m.of]

\* What the callbacks of an upload built is a request.
CanSign(m) ==
  kind[m.of] = "AWS" /\ key[m.of] = m.of /\ m.op \in {"part", "complete", "abort"} /\ ~m.again
    => m.bytes # Null

Good == {m \in MessageRecords : Signed(m) /\ CanSign(m)}

IInv == Types /\ OwnKey /\ KeysBelong /\ messages \in Seq(Good)

-----------------------------------------------------------------------------
(* Sequences of messages                                                   *)

LEMMA SeqOfMore ==
  ASSUME NEW S, NEW T, S \subseteq T, NEW s \in Seq(S)
  PROVE  s \in Seq(T)
BY ElementOfSeq, LenProperties

\* What is left when a message is over.
LEMMA Rest ==
  ASSUME NEW S, NEW s \in Seq(S), NEW m \in DOMAIN s
  PROVE  RemoveAt(s, m) \in Seq(S)
<1>1. m \in 1..Len(s) /\ Len(s) \in Nat
  BY LenProperties
<1>2. SubSeq(s, 1, m - 1) \in Seq(S)
  <2>1. \A i \in 1..(m - 1) : s[i] \in S
    BY <1>1, ElementOfSeq
  <2> QED BY <1>1, <2>1, SubSeqProperties
<1>3. SubSeq(s, m + 1, Len(s)) \in Seq(S)
  <2>1. \A i \in (m + 1)..Len(s) : s[i] \in S
    BY <1>1, ElementOfSeq
  <2> QED BY <1>1, <2>1, SubSeqProperties
<1> QED BY <1>2, <1>3, ConcatProperties DEF RemoveAt

-----------------------------------------------------------------------------
(* Keys                                                                    *)

LEMMA OwnKeysFacts ==
  ASSUME Types, OwnKey, NEW i \in Instances, IsAWS(i)
  PROVE  OwnKeys(i) \in KeyCopies /\ Belongs(OwnKeys(i))
BY KeyAssumption, AddressAssumption DEF Types, OwnKey, OwnKeys, Belongs, KeyCopies

\* Fetching leaves keys of the kind that were there, and gives AWS valid ones.
LEMMA FetchedFacts ==
  ASSUME Types, OwnKey, NEW i \in Instances, NEW k \in KeyCopies, Belongs(k)
  PROVE  /\ Fetched(k, i) \in KeyCopies /\ Belongs(Fetched(k, i))
         /\ IsAWS(i) /\ key[i] = i => ValidKeys(Fetched(k, i), i)
<1>1. IsAWS(i) => OwnKeys(i) \in KeyCopies /\ Belongs(OwnKeys(i))
  BY OwnKeysFacts
<1>2. IsAWS(i) /\ key[i] = i => ValidKeys(OwnKeys(i), i)
  BY KeyAssumption DEF OwnKeys, ValidKeys
<1> QED BY <1>1, <1>2 DEF Fetched, ValidKeys

-----------------------------------------------------------------------------
(* The builders                                                            *)

LEMMA BuiltRequest ==
  ASSUME Types, OwnKey, NEW i \in Instances, NEW k \in KeyCopies, NEW op \in Ops, NEW n \in Int
  PROVE  Build(k, i, op, n) \in Requests
<1>1. Null \in Requests
  BY DEF Requests
<1>2. \A by \in Instances \cup {NoKey, EmptyKey}, c \in Int : Bytes(by, n, c) \in Requests
  BY DEF Requests, Bytes
<1>3. BuildAWS(k, i, n) \in Requests
  BY <1>1, <1>2 DEF BuildAWS, SignedAWS, KeyCopies
<1>4. key[i] \in Instances \cup {NoKey, EmptyKey}
  BY DEF Types
<1>5. BuildGCP(i, op, n) \in Requests /\ UploadGCP(i, op, n) \in Requests
  BY <1>1, <1>2, <1>4 DEF BuildGCP, UploadGCP
<1>6. BuildAzure(i, n) \in Requests /\ UploadAzure(i, op, n) \in Requests
  BY <1>1, <1>2, <1>4 DEF BuildAzure, UploadAzure
<1>7. BuildHTTP(n) \in Requests
  BY <1>2 DEF BuildHTTP
<1> QED BY <1>1, <1>3, <1>5, <1>6, <1>7 DEF Build

\* AWS signs only with the keys that the thread has for the instance.
LEMMA SignedByAddress ==
  ASSUME Types, NEW i \in Instances, NEW k \in KeyCopies, Belongs(k), NEW n \in Int,
         BuildAWS(k, i, n) # Null
  PROVE  BuildAWS(k, i, n).key \in Instances /\ AddressOf[BuildAWS(k, i, n).key] = AddressOf[i]
<1>1. ValidKeys(k, i) /\ BuildAWS(k, i, n) = Bytes(k.secret, n, 0)
  BY DEF BuildAWS, SignedAWS
<1>2. BuildAWS(k, i, n).key = k.secret
  BY <1>1 DEF Bytes
<1> QED BY <1>1, <1>2 DEF ValidKeys, Belongs

LEMMA ValidKeysSign ==
  ASSUME NEW i \in Instances, NEW k \in KeyCopies, NEW n \in Int,
         kind[i] = "AWS", ValidKeys(k, i)
  PROVE  BuildAWS(k, i, n) # Null
<1>1. BuildAWS(k, i, n) = Bytes(k.secret, n, 0)
  BY DEF BuildAWS, SignedAWS
<1>2. "key" \in DOMAIN Bytes(k.secret, n, 0) /\ "key" \notin DOMAIN Null
  BY DEF Bytes, Null
<1> QED BY <1>1, <1>2

\* A message built with the keys of a thread is a good one; in a callback they
\* are fetched first.
LEMMA GoodMessage ==
  ASSUME Types, OwnKey, NEW i \in Instances, NEW k \in KeyCopies, Belongs(k),
         NEW op \in Ops, NEW n \in Int,
         op \in {"part", "complete", "abort"} /\ IsAWS(i) /\ key[i] = i => ValidKeys(k, i)
  PROVE  Message(k, i, op, n) \in Good
<1> DEFINE m == Message(k, i, op, n)
<1>1. /\ m.of = i /\ m.op = op /\ m.bytes = Build(k, i, op, n) /\ m.again = FALSE
      /\ m \in MessageRecords
  BY BuiltRequest DEF Message, MessageRecords
<1>2. IsAWS(i) => m.bytes = BuildAWS(k, i, n)
  BY <1>1 DEF Build, IsAWS
<1>3. Signed(m)
  BY <1>1, <1>2, SignedByAddress DEF Signed
<1>4. CanSign(m)
  BY <1>1, <1>2, ValidKeysSign DEF CanSign, IsAWS
<1> HIDE DEF m
<1> QED BY <1>1, <1>3, <1>4 DEF Good, m

-----------------------------------------------------------------------------
(* Invariance                                                              *)

LEMMA InitIInv == Init => IInv
<1> SUFFICES ASSUME Init PROVE IInv
  OBVIOUS
<1>1. Types
  BY KindAssumption DEF Init, Types, KeyCopies, NoUpload
<1>2. OwnKey
  BY KeyAssumption DEF Init, OwnKey, NoKey, EmptyKey
<1>3. KeysBelong
  BY DEF Init, KeysBelong, Belongs
<1>4. messages \in Seq(Good)
  BY EmptySeq DEF Init
<1> QED BY <1>1, <1>2, <1>3, <1>4 DEF IInv

\* A good message stays one.
LEMMA GoodKept ==
  ASSUME UNCHANGED <<kind, key>>
  PROVE  Good' = Good
BY DEF Good, Signed, CanSign, IsAWS

\* The keys of a thread that is not concerned are as they were.
LEMMA KeysSet ==
  ASSUME Types, KeysBelong, NEW t \in Threads, NEW k \in KeyCopies, Belongs(k),
         keys' = [keys EXCEPT ![t] = k]
  PROVE  keys' \in [Threads -> KeyCopies] /\ KeysBelong'
BY DEF Types, KeysBelong, Belongs

LEMMA ConstructStep ==
  ASSUME IInv, NEW t \in Threads, NEW i \in Instances, Construct(t, i) PROVE IInv'
<1>1. UNCHANGED <<kind, key, messages, upload>> /\ Good' = Good
  BY GoodKept DEF Construct
<1>2. keys' \in [Threads -> KeyCopies] /\ KeysBelong'
  <2>1. CASE IsAWS(i) /\ key[i] # NoKey
    BY <2>1, OwnKeysFacts, KeysSet DEF IInv, Construct
  <2>2. CASE ~(IsAWS(i) /\ key[i] # NoKey)
    BY <2>2 DEF IInv, Construct, Types, KeysBelong, Belongs
  <2> QED BY <2>1, <2>2
<1> QED BY <1>1, <1>2 DEF IInv, Types, OwnKey, IsAWS

\* Keys are made up for GCP and Azure only.
LEMMA InitSecretStep ==
  ASSUME IInv, NEW i \in Instances, InitSecret(i) PROVE IInv'
<1>1. /\ UNCHANGED <<kind, keys, messages, upload>>
      /\ key' = [key EXCEPT ![i] = EmptyKey] /\ ~IsAWS(i)
  BY DEF InitSecret, IsAWS
<1>2. Types' /\ KeysBelong'
  BY <1>1 DEF IInv, Types, KeysBelong, Belongs
<1>3. OwnKey'
  BY <1>1 DEF IInv, OwnKey, Types, IsAWS
<1>4. Good \subseteq Good'
  <2> SUFFICES ASSUME NEW m \in Good PROVE Signed(m)' /\ CanSign(m)'
    BY DEF Good
  <2>1. m.of \in Instances /\ Signed(m) /\ CanSign(m)
    BY DEF Good, MessageRecords
  <2>2. kind[m.of] = "AWS" => m.of # i
    BY <1>1 DEF IsAWS
  <2> QED BY <1>1, <2>1, <2>2 DEF Signed, CanSign, IsAWS, IInv, Types
<1> QED BY <1>1, <1>2, <1>3, <1>4, SeqOfMore DEF IInv

LEMMA AddRequestStep ==
  ASSUME IInv, NEW t \in Threads, NEW i \in Instances, NEW op \in {"get", "put", "delete"},
         NEW n \in Sizes \cup {0}, AddRequest(t, i, op, n)
  PROVE  IInv'
<1>1. UNCHANGED <<kind, key, keys, upload>> /\ Good' = Good
  BY GoodKept DEF AddRequest
<1>2. Message(keys[t], i, op, n) \in Good
  <2>1. op \in Ops /\ op \notin {"part", "complete", "abort"} /\ n \in Int
    BY SizeAssumption DEF Ops
  <2>2. keys[t] \in KeyCopies /\ Belongs(keys[t])
    BY DEF IInv, Types, KeysBelong
  <2> QED BY <2>1, <2>2, GoodMessage DEF IInv
<1>3. messages' \in Seq(Good)
  BY <1>2, AppendProperties DEF IInv, AddRequest
<1> QED BY <1>1, <1>3 DEF IInv, Types, OwnKey, KeysBelong, Belongs, IsAWS

LEMMA PartsNumber == ASSUME NEW n \in Sizes PROVE Parts(n) \in Nat
<1>1. n \in Nat /\ MultipartUploadSize \in Nat \ {0} /\ PartsModulus \in Nat \ {0}
  BY SizeAssumption
<1>2. n \div MultipartUploadSize \in Int
  BY <1>1
<1> QED BY <1>1, <1>2 DEF Parts

LEMMA StartUploadStep ==
  ASSUME IInv, NEW t \in Threads, NEW i \in Instances, NEW n \in Sizes, StartUpload(t, i, n)
  PROVE  IInv'
<1>1. UNCHANGED <<kind, key, keys>> /\ Good' = Good
  BY GoodKept DEF StartUpload
<1>2. Message(keys[t], i, "create", 0) \in Good
  <2>1. keys[t] \in KeyCopies /\ Belongs(keys[t])
    BY DEF IInv, Types, KeysBelong
  <2> QED BY <2>1, GoodMessage DEF IInv, Ops
<1>3. messages' \in Seq(Good)
  BY <1>2, AppendProperties DEF IInv, StartUpload
<1>4. Types'
  <2>1. n \in Nat /\ Parts(n) \in Nat
    BY SizeAssumption, PartsNumber
  <2> QED BY <1>1, <2>1 DEF IInv, Types, StartUpload
<1> QED BY <1>1, <1>3, <1>4 DEF IInv, OwnKey, KeysBelong, Belongs, IsAWS

LEMMA EndStep ==
  ASSUME IInv, NEW t \in Threads, NEW m \in DOMAIN messages, End(t, m) PROVE IInv'
<1>1. UNCHANGED <<kind, key, keys, upload>> /\ Good' = Good
  BY GoodKept DEF End
<1>2. messages' \in Seq(Good)
  BY Rest DEF IInv, End, Over
<1> QED BY <1>1, <1>2 DEF IInv, Types, OwnKey, KeysBelong, Belongs, IsAWS

\* What a callback on thread t starts from: the keys it fetched sign for its
\* instance.
LEMMA CallbackFacts ==
  ASSUME IInv, NEW t \in Threads, NEW m \in DOMAIN messages, NEW i, NEW k,
         i = messages[m].of, k = Fetched(keys[t], i)
  PROVE  /\ i \in Instances /\ k \in KeyCopies /\ Belongs(k)
         /\ \A op \in Ops, n \in Int : Message(k, i, op, n) \in Good
<1>1. messages[m] \in Good
  BY ElementOfSeq, LenProperties DEF IInv
<1>2. i \in Instances
  BY <1>1 DEF Good, MessageRecords
<1>3. keys[t] \in KeyCopies /\ Belongs(keys[t])
  BY DEF IInv, Types, KeysBelong
<1>4. k \in KeyCopies /\ Belongs(k) /\ (IsAWS(i) /\ key[i] = i => ValidKeys(k, i))
  BY <1>2, <1>3, FetchedFacts DEF IInv
<1>5. \A op \in Ops, n \in Int : Message(k, i, op, n) \in Good
  BY <1>2, <1>4, GoodMessage DEF IInv
<1> QED BY <1>2, <1>4, <1>5

LEMMA UploadPartsStep ==
  ASSUME IInv, NEW t \in Threads, NEW m \in DOMAIN messages, UploadParts(t, m) PROVE IInv'
<1>1. PICK i : i = messages[m].of
  OBVIOUS
<1>2. PICK k : k = Fetched(keys[t], i)
  OBVIOUS
<1> DEFINE parts == [p \in 1..upload[i].parts |-> Message(k, i, "part", PartSize(i, p))]
<1>3. /\ UNCHANGED <<kind, key, upload>> /\ Good' = Good
      /\ keys' = [keys EXCEPT ![t] = k] /\ messages' = Over(m) \o parts
  BY <1>1, <1>2, GoodKept DEF UploadParts
<1>4. /\ i \in Instances /\ k \in KeyCopies /\ Belongs(k)
      /\ \A op \in Ops, n \in Int : Message(k, i, op, n) \in Good
  BY <1>1, <1>2, CallbackFacts
<1>5. upload[i].parts \in Nat /\ upload[i].size \in Nat
  BY <1>4 DEF IInv, Types
<1>6. \A p \in 1..upload[i].parts : PartSize(i, p) \in Int
  BY <1>5, SizeAssumption DEF PartSize
<1>7. parts \in Seq(Good)
  BY <1>4, <1>5, <1>6 DEF Ops
<1>8. messages' \in Seq(Good)
  BY <1>3, <1>7, Rest, ConcatProperties DEF IInv, Over
<1>9. keys' \in [Threads -> KeyCopies] /\ KeysBelong'
  BY <1>3, <1>4, KeysSet DEF IInv
<1> QED BY <1>3, <1>8, <1>9 DEF IInv, Types, OwnKey, IsAWS

LEMMA PartEndsStep ==
  ASSUME IInv, NEW t \in Threads, NEW m \in DOMAIN messages, NEW ok \in BOOLEAN,
         PartEnds(t, m, ok)
  PROVE  IInv'
<1>1. PICK i : i = messages[m].of
  OBVIOUS
<1>2. PICK k : k = Fetched(keys[t], i)
  OBVIOUS
<1>3. PICK u : u = [upload[i] EXCEPT !.outstanding = @ - 1, !.failed = @ \/ ~ok]
  OBVIOUS
<1>4. /\ UNCHANGED <<kind, key>> /\ Good' = Good
      /\ keys' = [keys EXCEPT ![t] = k] /\ upload' = [upload EXCEPT ![i] = u]
  BY <1>1, <1>2, <1>3, GoodKept DEF PartEnds
<1>5. messages' = IF u.outstanding > 0 THEN Over(m)
                  ELSE Append(Over(m), Message(k, i, IF u.failed THEN "abort" ELSE "complete",
                                               IF u.failed THEN 0 ELSE 1))
  BY <1>1, <1>2, <1>3 DEF PartEnds
<1>6. /\ i \in Instances /\ k \in KeyCopies /\ Belongs(k)
      /\ \A op \in Ops, n \in Int : Message(k, i, op, n) \in Good
  BY <1>1, <1>2, CallbackFacts
<1>7. Over(m) \in Seq(Good)
  BY Rest DEF IInv, Over
<1>8. messages' \in Seq(Good)
  <2>1. (IF u.failed THEN "abort" ELSE "complete") \in Ops /\ (IF u.failed THEN 0 ELSE 1) \in Int
    BY DEF Ops
  <2> QED BY <1>5, <1>6, <1>7, <2>1, AppendProperties
<1>9. keys' \in [Threads -> KeyCopies] /\ KeysBelong'
  BY <1>4, <1>6, KeysSet DEF IInv
<1>10. upload' \in [Instances -> [size : Nat, parts : Nat, outstanding : Int, failed : BOOLEAN]]
  <2>1. upload[i] \in [size : Nat, parts : Nat, outstanding : Int, failed : BOOLEAN]
    BY <1>6 DEF IInv, Types
  <2>2. PICK f \in BOOLEAN : f = (upload[i].failed \/ ~ok)
    OBVIOUS
  <2>3. u = [upload[i] EXCEPT !.outstanding = @ - 1, !.failed = f]
    BY <1>3, <2>2, Zenon
  <2>4. PICK o \in Int : o = upload[i].outstanding - 1
    BY <2>1
  <2>5. u = [upload[i] EXCEPT !.outstanding = o, !.failed = f]
    BY <2>3, <2>4, Zenon
  <2>6. u \in [size : Nat, parts : Nat, outstanding : Int, failed : BOOLEAN]
    BY <2>1, <2>5, Zenon
  <2> QED BY <1>4, <2>6 DEF IInv, Types
<1> QED BY <1>4, <1>8, <1>9, <1>10 DEF IInv, Types, OwnKey, IsAWS

\* Signed again without the keys: a good message still, though a null one.
LEMMA ResignStep ==
  ASSUME IInv, NEW t \in Threads, NEW m \in DOMAIN messages, Resign(t, m) PROVE IInv'
<1>1. PICK i : i = messages[m].of
  OBVIOUS
<1>2. PICK b : b = BuildAWS(keys[t], i, messages[m].bytes.declared)
  OBVIOUS
<1>3. /\ UNCHANGED <<kind, key, keys, upload>> /\ Good' = Good /\ IsAWS(i)
      /\ messages' = [messages EXCEPT ![m].bytes = b, ![m].again = TRUE]
      /\ messages[m].bytes # Null
  BY <1>1, <1>2, GoodKept DEF Resign, Sendable
<1>4. messages[m] \in Good /\ messages[m] \in MessageRecords /\ i \in Instances
  BY <1>1, ElementOfSeq, LenProperties DEF IInv, Good, MessageRecords
<1>5. messages[m].bytes.declared \in Int
  BY <1>3, <1>4 DEF MessageRecords, Requests
<1>6. keys[t] \in KeyCopies /\ Belongs(keys[t])
  BY DEF IInv, Types, KeysBelong
<1>7. b \in Requests
  BY <1>2, <1>5, <1>6 DEF BuildAWS, SignedAWS, Bytes, Requests, KeyCopies
<1> DEFINE new == [messages[m] EXCEPT !.bytes = b, !.again = TRUE]
<1>8. new \in Good
  <2>1. new \in MessageRecords /\ new.of = i /\ new.bytes = b /\ new.again = TRUE
    BY <1>1, <1>4, <1>7 DEF MessageRecords
  <2>2. Signed(new)
    BY <1>2, <1>4, <1>5, <1>6, <2>1, SignedByAddress DEF Signed, IInv
  <2>3. CanSign(new)
    BY <2>1 DEF CanSign
  <2> HIDE DEF new
  <2> QED BY <2>1, <2>2, <2>3 DEF Good
<1>9. messages' = [messages EXCEPT ![m] = new]
  BY <1>3
<1> HIDE DEF new
<1>10. messages' \in Seq(Good)
  BY <1>8, <1>9, ExceptSeq, LenProperties DEF IInv
<1> QED BY <1>3, <1>10 DEF IInv, Types, OwnKey, KeysBelong, Belongs, IsAWS

LEMMA StepIInv == IInv /\ [Next]_vars => IInv'
<1> SUFFICES ASSUME IInv, [Next]_vars PROVE IInv'
  OBVIOUS
<1>1. ASSUME UNCHANGED <<kind, key, keys, messages, upload>> PROVE IInv'
  BY <1>1, GoodKept DEF IInv, Types, OwnKey, KeysBelong, Belongs, IsAWS
<1>2. ASSUME NEW i \in Instances, Destroy(i) PROVE IInv'
  BY <1>1, <1>2 DEF Destroy
<1>3. CASE UNCHANGED vars
  BY <1>1, <1>3 DEF vars
<1> QED
  BY <1>2, <1>3, ConstructStep, InitSecretStep, AddRequestStep, StartUploadStep, EndStep,
     UploadPartsStep, PartEndsStep, ResignStep
     DEF Next

LEMMA Inductive == Spec => []IInv
BY InitIInv, StepIInv, PTL DEF Spec

-----------------------------------------------------------------------------
(* Theorems                                                                *)

LEMMA MessagesGood ==
  ASSUME IInv, NEW m \in DOMAIN messages
  PROVE  messages[m] \in MessageRecords /\ Signed(messages[m]) /\ CanSign(messages[m])
<1>1. messages[m] \in Good
  BY ElementOfSeq, LenProperties DEF IInv
<1> QED BY <1>1 DEF Good

\* Wherever instances are allocated, one after the other at the same address
\* too: a request of AWS is signed with keys of an instance that was at the
\* address of its own.
SignedAtOwnAddress ==
  \A m \in DOMAIN messages :
    IsAWS(messages[m].of) /\ messages[m].bytes # Null =>
      AddressOf[messages[m].bytes.key] = AddressOf[messages[m].of]

THEOREM RequestsSignedAtOwnAddress == Spec => []SignedAtOwnAddress
<1>1. IInv => SignedAtOwnAddress
  BY MessagesGood DEF SignedAtOwnAddress, Signed
<1> QED BY <1>1, Inductive, PTL

\* As long as no instance is allocated where another one was, that is the
\* instance itself, whatever keys the threads fetched before.
THEOREM RequestsSignedWithOwnKeys ==
  ASSUME \A i, j \in Instances : AddressOf[i] = AddressOf[j] => i = j
  PROVE  Spec => []SignedWithOwnKeys
<1>1. IInv => SignedWithOwnKeys
  <2> SUFFICES ASSUME IInv, NEW m \in DOMAIN messages,
                      IsAWS(messages[m].of), messages[m].bytes # Null
               PROVE  messages[m].bytes.key = messages[m].of
    BY DEF SignedWithOwnKeys
  <2> QED BY MessagesGood DEF Signed, MessageRecords
<1> QED BY <1>1, Inductive, PTL

\* The requests that the callbacks of an upload build on the loops' threads are
\* never null for an instance of AWS with keys, whoever's keys are left there.
THEOREM UploadCallbacksCanSign == Spec => []CallbacksCanSign
<1>1. IInv => CallbacksCanSign
  BY MessagesGood DEF CallbacksCanSign, CanSign
<1> QED BY <1>1, Inductive, PTL
=============================================================================
