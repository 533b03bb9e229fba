--------------------------- MODULE CloudRequests ---------------------------
(***************************************************************************)
(* The requests of cloud::Transaction and the providers that build them:   *)
(* AWS (MinIO is one), GCP, Azure and plain HTTP.                          *)
(*                                                                         *)
(* A provider builds the bytes of a request when it is added to a          *)
(* transaction, in the callbacks of a multipart upload, which run on the   *)
(* threads of the event loops, and again when a failed request is signed   *)
(* anew.  AWS signs with keys that are copied to each thread and belong to *)
(* one instance at a time; without them a builder returns a null pointer.  *)
(* GCP and Azure keep their keys in the instance.                          *)
(*                                                                         *)
(* Paths, ranges, headers and signatures are left out: of the bytes only   *)
(* who signed them, the Content-Length they declare and how much of the    *)
(* body they carry.                                                        *)
(***************************************************************************)
EXTENDS Integers, SequencesExt

CONSTANTS
  Instances,            \* providers a program may construct
  Threads,              \* its threads, those of the event loops among them
  Kinds,                \* the kinds of provider to consider
  AddressOf,            \* where an instance is allocated
  Sizes,                \* sizes of objects
  MultipartUploadSize,  \* multipartUploadSize() of the cloud providers
  PartsModulus,         \* 2^16: the number of parts is a uint16_t
  MaxMessages,          \* bound: messages under way when a request is added
  MaxResigned           \* bound: failures after which a request is signed again

AllKinds == {"AWS", "Express", "GCP", "Azure", "HTTP"}
NoKey == "no key"
EmptyKey == "empty key"
Null == [null |-> TRUE]

ASSUME KindAssumption == Kinds \subseteq AllKinds
ASSUME AddressAssumption == AddressOf \in [Instances -> Instances]
ASSUME KeyAssumption == {NoKey, EmptyKey} \cap Instances = {}
ASSUME SizeAssumption ==
  /\ Sizes \subseteq Nat /\ MultipartUploadSize \in Nat \ {0}
  /\ PartsModulus \in Nat \ {0}
ASSUME BoundAssumption == MaxMessages \in Nat /\ MaxResigned \in Nat

VARIABLES
  kind,       \* the class of an instance; Express is AWS with zonal set
  life,       \* whether an instance is new, live or gone
  key,        \* its own keys: _globalSecret of AWS, _secret of GCP and Azure
  keys,       \* _secret and _validInstance of AWS, per thread
  messages,   \* the messages built and not yet over
  upload,     \* the upload of an instance, if it has one
  resigned    \* failures after which a request was signed again

vars == <<kind, life, key, keys, messages, upload, resigned>>

IsAWS(i) == kind[i] \in {"AWS", "Express"}
NoUpload == [size |-> 0, parts |-> 0, outstanding |-> 0, failed |-> FALSE]

\* With keys given, or without: then AWS would ask the metadata service.
Init ==
  /\ kind \in [Instances -> Kinds]
  /\ life = [i \in Instances |-> "new"]
  /\ key \in {f \in [Instances -> Instances \cup {NoKey}] :
                \A i \in Instances : f[i] \in {i, NoKey}}
  /\ keys = [t \in Threads |-> [secret |-> NoKey, validInstance |-> NoKey]]
  /\ messages = <<>>
  /\ upload = [i \in Instances |-> NoUpload]
  /\ resigned = 0

-----------------------------------------------------------------------------
(* The keys of AWS; k is what a thread has of them                         *)

OwnKeys(i) == [secret |-> key[i], validInstance |-> AddressOf[i]]

\* Constructed on thread t, where no live instance has its address.
Construct(t, i) ==
  /\ life[i] = "new"
  /\ \A j \in Instances : life[j] = "live" => AddressOf[j] # AddressOf[i]
  /\ life' = [life EXCEPT ![i] = "live"]
  /\ keys' = IF IsAWS(i) /\ key[i] # NoKey THEN [keys EXCEPT ![t] = OwnKeys(i)] ELSE keys
  /\ UNCHANGED <<kind, key, messages, upload, resigned>>

\* Once none of its messages is left; the threads keep what they have.
Destroy(i) ==
  /\ life[i] = "live"
  /\ \A m \in DOMAIN messages : messages[m].of # i
  /\ life' = [life EXCEPT ![i] = "gone"]
  /\ UNCHANGED <<kind, key, keys, messages, upload, resigned>>

\* Mutant: whose keys they are is not looked at.
ValidKeysOfAnyone(k, i) == k.secret # NoKey
ValidKeys(k, i) == k.secret # NoKey /\ k.validInstance = AddressOf[i]

\* Nothing ever sets the keys of a session.
ValidSession(k, i) == FALSE

\* What getSecret makes of k.  Mutant: only a thread without keys fetches them.
FetchedWhenNone(k, i) == IF IsAWS(i) /\ k.secret = NoKey THEN OwnKeys(i) ELSE k
Fetched(k, i) ==
  IF IsAWS(i) /\ (k.secret = NoKey \/ k.validInstance # AddressOf[i]) THEN OwnKeys(i) ELSE k

-----------------------------------------------------------------------------
(* The builders                                                            *)

Bytes(by, declared, carried) == [key |-> by, declared |-> declared, carried |-> carried]

\* AWS::buildRequest: the header only, the data to put goes separately.
SignedAWS(k, n) == Bytes(k.secret, n, 0)
BuildAWS(k, i, n) ==
  IF ValidKeys(k, i) /\ (kind[i] = "Express" => ValidSession(k, i))
  THEN SignedAWS(k, n) ELSE Null

\* Signing throws without a private key, and the builder has no request then.
SignsGCP(i) == key[i] \notin {NoKey, EmptyKey}

\* get, put (a part too) and delete: what is put is copied behind the header.
BuildGCP(i, op, n) ==
  IF SignsGCP(i) THEN Bytes(key[i], n, IF op \in {"put", "part"} THEN n ELSE 0) ELSE Null

\* To create an upload or to complete it; to abort it is a delete.
UploadGCP(i, op, n) ==
  IF SignsGCP(i) THEN Bytes(key[i], n, IF op = "complete" THEN n ELSE 0) ELSE Null

\* An empty key signs.  What is put is not copied.
BuildAzure(i, n) == IF key[i] = NoKey THEN Null ELSE Bytes(key[i], n, 0)

\* Blocks, and their list, which is copied behind the header.
UploadAzure(i, op, n) ==
  IF key[i] = NoKey THEN Null ELSE Bytes(key[i], n, IF op = "complete" THEN n ELSE 0)

\* No uploads in parts.
BuildHTTP(n) == Bytes(NoKey, n, 0)

\* Azure and HTTP inherit a request to abort that is always null.
Build(k, i, op, n) ==
  CASE IsAWS(i) -> BuildAWS(k, i, n)
    [] kind[i] = "GCP" /\ op \in {"create", "complete"} -> UploadGCP(i, op, n)
    [] kind[i] = "GCP" /\ op \notin {"create", "complete"} -> BuildGCP(i, op, n)
    [] kind[i] = "Azure" /\ op \in {"get", "put", "delete"} -> BuildAzure(i, n)
    [] kind[i] = "Azure" /\ op \in {"create", "part", "complete"} -> UploadAzure(i, op, n)
    [] kind[i] = "HTTP" /\ op \in {"get", "put", "delete"} -> BuildHTTP(n)
    [] OTHER -> Null

\* setPutRequestData is called for every put, part and completion.
Message(k, i, op, n) ==
  [of |-> i, op |-> op, bytes |-> Build(k, i, op, n),
   attached |-> IF op \in {"put", "part", "complete"} THEN n ELSE 0,
   again |-> FALSE]

-----------------------------------------------------------------------------
(* Transaction: adding requests                                            *)

\* execute() initialises the keys first: GCP and Azure make up empty ones.
InitSecret(i) ==
  /\ life[i] = "live" /\ kind[i] \in {"GCP", "Azure"} /\ key[i] = NoKey
  /\ key' = [key EXCEPT ![i] = EmptyKey]
  /\ UNCHANGED <<kind, life, keys, messages, upload, resigned>>

Multipart(i, n) == kind[i] # "HTTP" /\ n > MultipartUploadSize

\* getObjectRequest, putObjectRequest and deleteObjectRequest: they return
\* false, and add nothing, when the builder has no request.
AddRequest(t, i, op, n) ==
  /\ life[i] = "live" /\ Len(messages) < MaxMessages
  /\ IF op = "put" THEN ~Multipart(i, n) ELSE n = 0
  /\ Message(keys[t], i, op, n).bytes # Null
  /\ messages' = Append(messages, Message(keys[t], i, op, n))
  /\ UNCHANGED <<kind, life, key, keys, upload, resigned>>

\* The parts of an object, in 16 bits.
Parts(n) ==
  (n \div MultipartUploadSize + (IF n % MultipartUploadSize > 0 THEN 1 ELSE 0)) % PartsModulus

\* putObjectRequestMultiPart: its test for a null pointer looks at the message
\* and not at the request.
StartUpload(t, i, n) ==
  /\ life[i] = "live" /\ upload[i] = NoUpload
  /\ Multipart(i, n)
  /\ Len(messages) < MaxMessages
  /\ upload' = [upload EXCEPT ![i] = [size |-> n, parts |-> Parts(n),
                                      outstanding |-> Parts(n), failed |-> FALSE]]
  /\ messages' = Append(messages, Message(keys[t], i, "create", 0))
  /\ UNCHANGED <<kind, life, key, keys, resigned>>

-----------------------------------------------------------------------------
(* Messages on the thread t of an event loop                               *)

\* A null request is not sent: the thread would read through the null pointer.
Sendable(m) == messages[m].bytes # Null
Over(m) == RemoveAt(messages, m)

\* No callback of the library, or one that builds no request.
End(t, m) ==
  /\ Sendable(m) /\ messages[m].op # "part"
  /\ messages' = Over(m)
  /\ UNCHANGED <<kind, life, key, keys, upload, resigned>>

\* The upload is created: its parts are built, with this thread's keys.
PartSize(i, p) ==
  IF p # upload[i].parts THEN MultipartUploadSize
  ELSE upload[i].size - (p - 1) * MultipartUploadSize
UploadParts(t, m) ==
  LET i == messages[m].of
      k == Fetched(keys[t], i)
  IN /\ Sendable(m) /\ messages[m].op = "create"
     /\ keys' = [keys EXCEPT ![t] = k]
     /\ messages' = Over(m) \o [p \in 1..upload[i].parts |-> Message(k, i, "part", PartSize(i, p))]
     /\ UNCHANGED <<kind, life, key, upload, resigned>>

\* A part has ended: the last one builds the request that completes the upload,
\* or aborts it.  Mutant: with the keys the thread happens to have.
PartEndsAsItIs(t, m, ok) ==
  LET i == messages[m].of
      u == [upload[i] EXCEPT !.outstanding = @ - 1, !.failed = @ \/ ~ok]
  IN /\ Sendable(m) /\ messages[m].op = "part"
     /\ UNCHANGED keys
     /\ upload' = [upload EXCEPT ![i] = u]
     /\ messages' = IF u.outstanding > 0 THEN Over(m)
                    ELSE Append(Over(m), Message(keys[t], i, IF u.failed THEN "abort" ELSE "complete",
                                                 IF u.failed THEN 0 ELSE 1))
     /\ UNCHANGED <<kind, life, key, resigned>>
PartEnds(t, m, ok) ==
  LET i == messages[m].of
      k == Fetched(keys[t], i)
      u == [upload[i] EXCEPT !.outstanding = @ - 1, !.failed = @ \/ ~ok]
  IN /\ Sendable(m) /\ messages[m].op = "part"
     /\ keys' = [keys EXCEPT ![t] = k]
     /\ upload' = [upload EXCEPT ![i] = u]
     /\ messages' = IF u.outstanding > 0 THEN Over(m)
                    ELSE Append(Over(m), Message(k, i, IF u.failed THEN "abort" ELSE "complete",
                                                 IF u.failed THEN 0 ELSE 1))
     /\ UNCHANGED <<kind, life, key, resigned>>

\* HTTPMessage::reset after an HTTP error: only AWS signs anew, and the result
\* replaces the request, whatever it is.
Resign(t, m) ==
  LET i == messages[m].of IN
  /\ Sendable(m) /\ resigned < MaxResigned
  /\ IsAWS(i)
  /\ messages' = [messages EXCEPT ![m].bytes = BuildAWS(keys[t], i, messages[m].bytes.declared),
                                  ![m].again = TRUE]
  /\ resigned' = resigned + 1
  /\ UNCHANGED <<kind, life, key, keys, upload>>

Next ==
  \/ \E t \in Threads, i \in Instances :
       \/ Construct(t, i)
       \/ \E op \in {"get", "put", "delete"}, n \in Sizes \cup {0} : AddRequest(t, i, op, n)
       \/ \E n \in Sizes : StartUpload(t, i, n)
  \/ \E i \in Instances : Destroy(i) \/ InitSecret(i)
  \/ \E t \in Threads, m \in DOMAIN messages :
       \/ End(t, m) \/ UploadParts(t, m) \/ Resign(t, m)
       \/ \E ok \in BOOLEAN : PartEnds(t, m, ok)

Spec == Init /\ [][Next]_vars

-----------------------------------------------------------------------------
(* Properties                                                              *)

TypeOK ==
  /\ kind \in [Instances -> Kinds]
  /\ life \in [Instances -> {"new", "live", "gone"}]
  /\ key \in [Instances -> Instances \cup {NoKey, EmptyKey}]
  /\ keys \in [Threads -> [secret : Instances \cup {NoKey, EmptyKey},
                           validInstance : Instances \cup {NoKey}]]
  /\ \A m \in DOMAIN messages : messages[m].of \in Instances

\* Whatever instances at distinct addresses and whatever threads there are, and in
\* whatever order they fetch keys, a request of AWS is signed with the keys of its own
\* instance.  Where addresses are used again it fails (MCCloudRequests_reuse.cfg).
SignedWithOwnKeys ==
  \A m \in DOMAIN messages :
    IsAWS(messages[m].of) /\ messages[m].bytes # Null => messages[m].bytes.key = messages[m].of

\* An upload that was created can go on: the requests its callbacks build on the
\* threads of the loops, where other instances may have left their keys, are
\* never null for an instance with keys.
CallbacksCanSign ==
  \A m \in DOMAIN messages :
    LET i == messages[m].of IN
    kind[i] = "AWS" /\ key[i] = i /\ messages[m].op \in {"part", "complete", "abort"}
      /\ ~messages[m].again => messages[m].bytes # Null

\* The parts of an upload are its object.
PartsCoverObject ==
  \A i \in Instances : upload[i] # NoUpload => upload[i].parts > 0

\* The document on putData: the provider makes the header, the body is referred
\* to and sent from there: no more and no less than Content-Length says.
FramedOnce ==
  \A m \in DOMAIN messages :
    messages[m].bytes # Null =>
      messages[m].bytes.carried + messages[m].attached = messages[m].bytes.declared

\* The README: requests can be retried and signed again.
ResignedHasBytes ==
  \A m \in DOMAIN messages : messages[m].again => messages[m].bytes # Null

\* The comment at _validInstance: there may be several instances of AWS.
InstancesWorkTogether ==
  \A t \in Threads, i \in Instances :
    life[i] = "live" /\ kind[i] = "AWS" /\ key[i] = i /\ keys[t].secret # NoKey =>
      ValidKeys(keys[t], i)

=============================================================================
