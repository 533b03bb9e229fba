# MyBlob in TLA+

MyBlob is a C++ client library for cloud object stores: a user builds requests
with a `Transaction`, a `TaskedSendReceiver` per thread drives them through
non-blocking sockets, and every request is a small state machine that connects,
sends and receives with retries. These modules model that asynchronous path from
the queue up to the multipart upload, with TLS, both sockets, the requests of the
cloud providers and the blocking transfers beside it; they check it with TLC on
small instances and prove what the queue, the connection pool, the session cache
and the sharing of receivers and buffers promise for every instance.

Paths are relative to the repository root (`src/`). Line numbers without a file
are of the file named in the section.

## 1. The system

| Part | Files | State | Operations |
|---|---|---|---|
| Request queue | `include/utils/ring_buffer.hpp` | slots, reserved and committed counters and a spin lock for each side | `insert`, `insertAll`, `consume`, each waiting or not |
| Event loop | `src/network/tasked_send_receiver.cpp` | own queue, tasks under way, unread completions, stop flag, first exception | `sendSync`, `sendReceive`, `stop`, `reset` |
| Group and handles | same | cache of receivers, queue, pool of result buffers | `getHandle`, move, assignment, destructor, `send`, `reuse` |
| Poll socket | `src/network/poll_socket.cpp` | requests by descriptor, the answers of the last poll and an index into them | `send`, `recv`, `send_to`, `recv_to`, `submit`, `complete` |
| io_uring socket | `src/network/io_uring_socket.cpp` | the kernel's two rings | the same |
| Request state machine | `src/network/http_message.cpp`, `message_task.cpp`, `message_result.cpp` | state, failure counter and bits, offsets, buffers, the connection held | `execute`, `reset` |
| HTTPS and TLS layer | `src/network/https_message.cpp`, `tls_connection.cpp` | the same, with a handshake and two BIO buffers | `execute`, `reset`, `process`, `shutdown` |
| TLS session cache | `src/network/tls_context.cpp` | an array of addresses and sessions | `cacheSession`, `dropSession`, `reuseSession` |
| Connection pool | `src/network/connection_mannager.cpp`, `connection.cpp` | slots, idle map, connections | `getConnection`, `returnConnection`, `closeIdleConnections`, `closeAll` |
| HTTP framing | `src/network/http_helper.cpp`, `http_request.cpp`, `http_response.cpp` | the parsed header | `detect`, `finished`, `deserialize` |
| Transaction, multipart upload | `src/cloud/transaction.cpp`, `include/cloud/transaction.hpp` | per upload: state, outstanding parts, eTags, error; counters of the transaction | request builders, `processSync`, `processAsync`, the callbacks |
| Providers | `src/cloud/{aws,gcp,azure,minio,http_provider}.cpp` | keys: of the instance, and for AWS one copy per thread | build, sign and re-sign requests |
| Blocking client | `src/network/http_client.cpp`, `src/cloud/provider.cpp` | a socket, or a borrowed connection | `get`, `download`, `downloadWithRetry`, `sendRequest`, `recvResponse` |
| Signers, caches, helpers | `src/cloud/*_signer.cpp`, `cache.cpp`, `throughput_cache.cpp`, `include/utils/*` | none that the rest reads, but `DataVector`'s buffers | |

How they interact. Clients put `OriginalMessage` pointers into the group's ring;
the threads that run `sendReceive` take them out, make a task of each and call its
`execute`, which takes a connection from the receiver's own pool and leaves one
I/O with the receiver's own socket. When the socket answers, the loop calls
`execute` again. A message that ends calls its callback on the loop's thread; the
callbacks of a multipart upload build the next requests there, and write the state
that `processAsync`, on the user's thread, reads to know what to submit next. The
ring, the cache of receivers, the pool of buffers, the atomics of the upload and the
stop flag are what threads share; connections, TLS sessions, socket and tasks belong
to the receiver that one thread has at a time.

What is hard about it. The ring is lock-free between its two sides and batches
wrap round it. The pool counts slots although connections leave their slots. A
retry must leave nothing of the attempt before, and a buffer nothing of the message
before. One loop multiplexes many messages over an index into the answers of a poll,
and the same counter decides when a single invocation is over. A TLS operation is
spread over many I/Os. Parts of an upload end on several threads at once, each with
keys of its own, and a batch may be rejected after the states already say that it was
sent. Timeouts, partial transfers, EAGAIN, full buffers, refused submissions, failing
handshakes and exceptions can come at every step. `PROJECT.json` lists these hazards
by line.

What makes each part correct:

- Queue: linearizable and first-in first-out, whole batches or nothing, refusals
  and empty answers only when true at one instant; no slot read and written at once.
- Pool: one owner for a connection, no closed connection reused, a cap that caps.
- Message: a finished message holds one whole response; sends are in order; a
  connection given back open has nothing unread on it; what fails is counted, so that
  the message ends.
- TLS: the socket sees the TLS stream in order and once; a connection TLS was on goes
  back closed; a session is offered to its server only, and freed exactly once.
- Loop: one callback for each message, no completion without its task, none lost; it
  ends when told to, or when all work is done; what the kernel has stays alive.
- Group: a receiver has one holder, a buffer one owner; a callback reads its own bytes.
- Upload: Complete only with every part; Abort if one failed, naming it; no request
  twice; one callback for the user at most, and one for each upload when `processSync`
  is through; no upload forgotten between two of its steps.
- Requests: signed with the keys of the provider they go to, with one body.
- Transfers: the answer of the host that was asked; no slot lost; every call ends, if servers answer or close.

## 2. The modules

| Module | Models | Builds on |
|---|---|---|
| `BoundedQueue` | what the ring promises, the abstract specification | |
| `RingBuffer` | `utils::RingBuffer` | implements `BoundedQueue`; `RingBufferProofs` |
| `ConnectionPool` | `network::ConnectionManager` | `ConnectionPoolProofs` |
| `HttpMessage` | `network::HTTPMessage` with the framing, the failure bits and the result buffer | `HttpMessageProofs` |
| `HttpsMessage` | `network::HTTPSMessage` and `network::TLSConnection` | extends `HttpMessage`; `HttpMessageProofs` |
| `TlsSessions` | `network::TLSContext` and the layers that use it | `TlsSessionsProofs` |
| `EventLoop` | `TaskedSendReceiver::sendReceive` composed with `network::PollSocket` | `LoopProofs` |
| `UringLoop` | the same loop composed with `network::IOUringSocket` | extends `EventLoop`; `LoopProofs` |
| `Receivers` | `TaskedSendReceiverGroup`, its handles, the buffers that go round | `ReceiversProofs` |
| `Upload` | what a multipart upload promises, the abstract specification | |
| `Transaction` | `processSync`, `processAsync`, the callbacks of a multipart upload | implements `Upload`; `TransactionProofs` |
| `CloudRequests` | the builders of `Transaction` and of the five providers, and their keys | `CloudRequestsProofs` |
| `Transfers` | `Provider::download` and `HttpClient` | extends `ConnectionPool`; `ConnectionPoolProofs` |

`MC<Module>` gives the constants that TLC needs and the symmetry sets; each `.cfg`
is one instance. Definitions keep the source's names. Definitions under the word
"Mutant" are altered forms of one that follows: each checked property has one that
breaks it, and `PROJECT.json` says which.

### RingBuffer

One step is one access to memory that another thread may touch then. The holder of
a side's lock is alone with that side's "pending" counter, so its use is folded
into the load of the other side's committed counter next to it (lines 61-66 and
80-86: `Fits`, `Reserve`). Writing a batch is one step per slot, because a consumer
may run between two. `wait` of an operation is an argument: without it `Full` and
`NothingThere` answer, with it they drop the lock and go round again. A single
`insert` is a batch of one. The counters are 64 bits and count operations since
the start; they are naturals here. Refinement: the queue is the slots between the
consumers' and the producers' committed counters, so the linearization points are
`CommitInsert` and `CommitSeen`, and a failing operation's is its load of the
other counter.

### ConnectionPool

`pool_` is a vector of `unique_ptr` and a lent connection leaves an empty pointer
behind. Which empty slot is used is of no consequence, so the vector is the set of
connections in slots and the number of empty slots. A lookup is one step, split by
its outcome: `TakeIdle` (48-64), `TakeFilled` (66-77), `Create`, `CreateFails`,
`Exhausted` (79-106). `Kept` is the scan that a full pool makes for closed
connections. The holder may disconnect (`HTTPMessage::reset` does) and return, or
lose the connection without a return when its task is destroyed. Time is a choice:
any subset of the idle connections may have expired. `closeIdleConnections` is
modelled although nothing in `src/` calls it. `getStats` changes nothing (its
`in_use_connections` is always 0, since a lent connection is in no slot).

### HttpMessage and HttpsMessage

One step is one pass of the loop in `execute`. Sizes are units: enough to tell a
partial header from a whole one, header from data, and part of a response from all
of it. `buffer` says, place by place, which unit of which connection it holds, so
that a splice of two attempts is visible; `wire`, `response`, `taken` and `broken`
are the peer and the connection as they really are. A server may answer with
success with and without a body, an error with a body, or a header the parser does
not support. `Fail` covers the error branches, all of which end in `reset`; the
limit is compared before it is counted, as `failures++ > failuresMax` is. A header
that has not arrived completely is a parse exception and so a failure (176-181).
`SubmitReceive` has the three outcomes of lines 201-229 for a caller's buffer: it
is full, the resize throws, or the receive is submitted. Only io_uring refuses
submissions; `MayRefuse` says whether this happens.

`HttpsMessage` keeps the fields, the buffer and the reset of that machine, as the
subclass does, and puts the TLS layer between it and the socket. One step is one call
of an OpenSSL operation or one completed I/O of `TLSConnection::process`: it moves
what SSL has written from the memory BIO to a buffer, writes that part by part, and
then receives once if SSL asked for input. What SSL decides (how much it writes, when
it wants input, when it refuses) is a choice; `Flights` messages of the server make
a handshake.

### TlsSessions

The cache is an array indexed by some bits of the peer's address, each entry a pair
of the whole address and a session, empty if the address is 0. Several layers of one
receiver fill, overwrite and drop entries; `refs` counts the references OpenSSL would.
`SeenAs` is the address that the code reads from `getpeername`: of an IPv6 peer it
reads another field, which is 0.

### EventLoop and UringLoop

One step is a piece of the loop up to the next point at which another thread's
store or another message matters: the head of the loop and the completion it
reads, the intake of one message, the submission. `execute` is abstracted to its
three outcomes for the loop: one more I/O is left with the socket, the message
ended, an exception left. A message has one connection and one I/O at a time (this
is `IoOnHeldConnection` of HttpMessage), so it stands for its descriptor too.
`PollAnswers` chooses what `poll()` found and in which order the swap-and-pop scan
met it; it discards the answers that were not read, as line 81 does. `MaySlow` is a
`poll()` that ends with nothing to answer. With `Local` the queue is the receiver's
own and nobody fills it while the loop runs; otherwise clients insert at any time.

`UringLoop` replaces the poll socket: an I/O is a submission entry, and for all but
large sends a second one for a timeout linked to it. The kernel answers both, in
either order, and only the I/O's answer has a request in its `user_data`. `submit`
reports the entries, the timeouts among them, and the loop counts those; `complete`
waits. `failed` notes that a submission failed and the loop was left by an exception.

### Receivers

The state is what the threads of a group share and what a handle hands on: which
receiver each handle holds, the cache, the receivers (alive, with or without
connection manager, in which loop, own queue, tasks), the group's queue, the pool of
vectors, each message's result and what each vector holds. `Release`, `ReleaseToFull`,
`MoveInto` and `MoveOver` are the destructor and the moves; `NewGroup` destroys the
group and its pool. A handle that holds nothing may also not exist. The queues are
rings whose operations take effect at one instant, which is `RingBuffer`'s refinement.
`Take` is the intake of one message with its vector (`VectorFor`); `Receive`, `Finish`,
`Abort` and `Throw` are what `execute` does to it, in any order between the receivers.
A vector is named after the message it was constructed with; `memory` says whether it
has capacity and whose bytes it holds. `seen` is what the callback finds.

### Transaction

A callback step is one access to what threads share: eTag or error, aborted state,
the `fetch_sub`, the final message, the announcement (lines 254-338 of the
header). The user's step is one upload of the loop in `processAsync`; the
rollback after a rejected `group.send` has its load and its store apart, because
callbacks run in between. In `processSync` the user's thread is the loop: it runs
one callback at a time and only inside the call. `messages[parts]`, the slot that
first holds nothing and later Complete or Abort, is `final`: submitting it while it
is null ends in a loop that dereferences null, which is where the model stops.
A request is answered by `Answer` with or without `success()`. Refinement: `Upload` only
knows what the service answered, whether the upload is to be completed or aborted, and
what the user's callback got. A request is answered when it is no longer in flight as
often as it was sent; the verdict is the final message; so the linearization points are
`Answer`, the store of the final message and the call of the callback. A rejected send
ends the refinement (`Undisturbed`), since the rollback may hand in a null message.

### CloudRequests

A request is the bytes that a builder made: who signed them, the Content-Length they
declare and the body they carry, or a null pointer. Builders run when a request is
added, in the callbacks of an upload on any thread (`PartEnds`, `UploadParts`), and
when a failed request is signed again (`Resign`). AWS's keys are thread-local copies
with the instance they are valid for (`Fetched`, `ValidKeys`); GCP's and Azure's are
in the instance. `AddressOf` is where an instance is allocated, since validity is a
comparison of addresses. The number of parts is taken modulo `PartsModulus`, 2^16 in
the code. Keys do not expire: nothing in `src/` fetches new ones.

### Transfers

One call runs at a time, as the pool has no locks, against servers that answer in
three pieces and may hang up at any time. `Borrow` composes the lookup of the pool
with the call; `RecvThrows` with its loss (`Drop`), since the exception of
`HttpHelper::finished` destroys the connection; `Return` with its return, whatever was
answered. A pooled connection is non-blocking, a socket of `get` is blocking.
`downloadWithRetry` repeats after 5xx and 429, and 500 is also what the client answers
itself. The TLS variant of `get` reads the raw socket (`recvResponse(sockfd)`), so its
outcomes are those of a peer that answers no HTTP.

## 3. What is checked

| Run | Instance | States | Shows |
|---|---|---|---|
| `ring` | 1 producer, 2 consumers, 2 slots, 2 values, batches of 0-3, 3 insertions | 3*10^5 | no slot race, refinement of `BoundedQueue`, accepted elements are consumed though one consumer may starve and a batch may never fit |
| `pool` | 5 identities, 3 keys, maximum 4, sweeps and losses | 7*10^3 | single ownership, open reuse, a slot for each return, the cap |
| `http` | header 2, data 2, receive 2; own buffer or a caller's of 2; 4 responses; limits 2 and 0; EAGAIN without end; refusals | 7*10^4 | whole answers, ordered sends, I/O on the held connection, drained returns, room for every receive, termination unless EAGAIN goes on for ever or a submission was refused |
| `https` | request 1 + 3, 2 flights, 3 responses, limits 1 and 0, EAGAIN without end, refusals, a TLS layer that may be refused at each step | 1.3*10^5 | the TLS stream in order and once, whole answers, closed returns, termination unless a write breaks, EAGAIN or a write's timeout goes on for ever, or a submission was refused |
| `sessions` | 3 layers, 3 IPv4 servers, 2 entries, 3 sessions | 4*10^5 | sessions offered to their server only, exact references |
| `loop` | 3 messages, 2 tasks at a time, 3 I/Os each, exceptions, stop, empty polls | 10^5 | one callback each, completions have tasks, messages end unless an answer is lost, a stopped loop ends |
| `loop_lost` | 2 messages, nothing slow, no exception | | `AcceptedIsEnded` is violated (below) |
| `uring` | 2 messages, 2 tasks at a time, 2 I/Os each, exceptions, stop, 2 single invocations | 7*10^4 | what the kernel has and what is unread is of live tasks, also across invocations and resets; what a loop has taken ends |
| `receivers` | 3 receivers, 3 handles, 3 messages, one with a caller's buffer, queues of 2, exceptions | 5*10^5 | one holder for a receiver, one owner for a vector, callbacks read their own bytes |
| `upload` | 2 uploads of 2 parts by `processSync`, or 1 by `processAsync` with 2 threads and a rejected send | 10^5 | refinement of `Upload`; Complete means all parts, Abort names a failed part, one callback at most, success is real; no upload is forgotten by the transaction (a loop that leaves a request unanswered or never returns still hangs it) |
| `cloud` | 2 instances of any kinds, with and without keys, 2 threads, objects of 1 and 3 with parts of 2 | 3*10^5 | requests signed with their instance's keys; callbacks have keys to sign with |
| `transfers` | 3 calls, 2 hosts, a pool of 1, 2 attempts | 2*10^5 | answers of the host that was asked, slots accounted for, every call ends if servers answer or close |

Why the bounds are enough. A ring of two slots is full, empty and wrapped with
batches of one and two at both offsets, and a batch of three never fits. Four
connections for three keys leave one key with two connections, so that a return
displaces another while the pool is full. Two units of everything in a message
give a partial and a full transfer of each kind; a limit of two separates the
first failure, the last that is retried and the first that is not, and the
connect limit of zero the two limits that share the counter. A TLS request of four
units with a BIO of two needs several rounds, two flights a handshake that reads
twice. Two entries make two of three servers collide. Two tasks and three
messages give a completion, an intake and a lost answer at the same time; two single
invocations give a second loop that finds what the first left. Three receivers and a
cache of two overflow the cache, three messages and a pool of two the pool, and one
vector goes through all messages. Two uploads of two parts give two threads in
one upload and in two. Two instances on two threads take each other's place on a
thread. A pool of one makes every call of the other host meet the first host's
connection. The bounds that are not the program's are `MaxInserted`, `MaxHoles`,
`MaxTries` (never reached: the retry limit is lower), `MaxIo` (a message of the loops
ends after that many I/Os: they take `Terminates` for granted, with its exceptions), `MaxEntries`,
`MaxRejects`, `MaxSessions`, `MaxMessages`, `MaxResigned`, `MaxCalls` and the sizes of
the sets. Deadlock is not checked where the program stops for good: a pool after
`closeAll`, a message that ended, a loop nobody enters, a transaction that is done.

Fairness, and why the code justifies it:

- `RingBuffer`: a thread inside an operation takes its next step (weak fairness),
  and an event loop polls the queue on each turn. Nothing is assumed of who gets a
  spin lock.
- `HttpMessage`, `HttpsMessage`: `execute` does not wait; every I/O ends, since
  receives and small sends carry a timeout and large sends rely on TCP keep-alive.
  EAGAIN is one way to end and may come every time: the code counts it against no limit,
  and io_uring answers it at once for the non-blocking socket of a silent peer, which
  cancels the linked timeout. So no bound cuts it off in the models: `again` alternates,
  which makes the same I/O once more a step and an endless repetition a behaviour, and
  `MaxHoles` limits only how many of the places it leaves in an own buffer are kept apart.
  `Terminates` and `HttpsEnds` except it by name (`EndlessAgain`, `HttpsEndlessAgain`),
  the latter with `poll()`'s timeout of a write, which the TLS layer treats alike; without
  the exception TLC refutes them (`SilenceIsLimited`, `HttpsSilenceIsLimited`, below).
- `EventLoop`: the loop's thread runs, its owner enters it, and a request that is
  with the socket is answered if `submit` is called again and again (strong
  fairness for each request, for its timeout expires).
- `UringLoop`: the loop runs, its owner enters it, and the kernel answers each I/O,
  since a timeout is linked to it or TCP gives the connection up.
- `Transaction`: a call goes on, the user calls `processAsync` again, and callbacks run
  to their end. Nothing is assumed of the loops: a request may never be answered, since
  an answer may be lost (`loop_lost`), an exception drops other tasks and a message may
  never end; and the loop may never return to `processSync` (`MCUringLoop_refuted`).
  `UploadsEnd` excepts an upload that has a request unanswered for ever, and a call that
  stays in the loop for ever. What it says is that the transaction itself loses no
  upload: whenever its requests are answered, it takes the next step, up to the callback.
- `Transfers`: the calling thread runs, and a server answers or closes in the end.
  The code has no timeout there: `timeoutSeconds` is never read, and a `recv` of `get`
  waits as long as the server does.

### Where the code and its description disagree

One run expects a violation. `loop_lost` (`AcceptedIsEnded`): `PollSocket::submit`
clears the answers of the poll before, but the loop reads one answer per round. With
two requests answered by one poll the second is lost, its message never ends and the
counter stays above zero: the loop spins for ever, although `transaction.cpp:164`
waits there for all I/O.

More disagreements have a formula and a configuration next to the runs. TLC violates
each formula; where a configuration names several, one is active and its comment
lists the others.

| Configuration | Formula | What happens |
|---|---|---|
| `MCConnectionPool_sweep` | `EmptySlotIsLent` | a sweep drops an idle connection without its slot, which is lost (no caller in `src/` today) |
| `MCHttpMessage_refuted` | `ReturnedIsSound` | a connection whose send failed goes back to the pool after an early error response (comment at `http_message.cpp:168`) |
| | `FinishedIsSuccess` | a request that fails once, is retried and finishes with 2xx is not `success()`: the failure bits of the first attempt stay (the guide says `state_ == Finished`) |
| | `EndedHoldsNothing` | a response too long for the caller's buffer ends the message with its connection unreturned |
| | `RefusedIsRetried` | a refused submission is never retried: nothing will complete |
| | `SilenceIsLimited` | timeouts are failures and limited (`message_task.hpp:39`), but a peer whose silence shows as EAGAIN is asked again for ever; an own buffer grows each time |
| `MCHttpsMessage_broken` | `BrokenEnds` | after a write error other than EAGAIN the layer submits the rest again at once, and nothing counts it |
| | `HttpsSilenceIsLimited` | the same of EAGAIN under TLS, and of a peer that stops reading: `poll()`'s timeout of a write is submitted again, uncounted |
| `MCTlsSessions_v6` | `OfferedToItsPeer` | IPv6 servers are all seen as 0 and share sessions with empty entries |
| `MCEventLoop_early` | `ReturnsWhenDone` | one poll in which nothing became ready ends a single invocation with messages under way (`tasked_send_receiver.hpp:128`) |
| | `ReusedIsClean` | a reset receiver's socket keeps pointers to requests of destroyed tasks |
| `MCEventLoop_stop` | `StopIsHeeded` | a `stop()` just before the loop is entered is undone |
| `MCUringLoop_refuted` | `AcceptedIsEnded` | timeouts are counted as submissions and not as completions: the counter stays above zero and the loop waits in `complete()` while accepted messages lie in the queue |
| | `UringStopEndsLoop` | for the same reason a stopped loop does not end |
| `MCReceivers_refuted` | `ResultStays` | a finished message's vector goes to the pool: `getResult()` after `execute()`, as in `README.md:162`, finds none |
| | `RunsWithManager` | a receiver that rethrew an exception is cached without its connection manager; the next holder's loop dereferences null |
| | `WritesNoForeignBuffer` | a caller's receive buffer goes to the pool too, and another message receives into it |
| | `NoneStranded` | an assignment to a handle does not look whether the full cache took the receiver: it stays allocated and is never used again |
| `MCTransaction_full` | `ValidatingIsReady` | after a rejected `group.send` the rollback touches all uploads, not those that were gathered: one in Default becomes Validating, and the next call submits a null message |
| `MCCloudRequests_refuted` | `FramedOnce` | GCP and Azure copy the body behind the header and the transaction hands it over as data to put: it is sent twice |
| | `PartsCoverObject` | the number of parts is cut to 16 bits |
| | `ResignedHasBytes` | a failed request signed again on a thread without keys becomes a null pointer |
| | `InstancesWorkTogether` | two AWS instances on one thread take the keys from each other |
| `MCCloudRequests_reuse` | `SignedWithOwnKeys` | an instance built where a destroyed one was takes the thread's keys for its own |
| `MCTransfers_refuted` | `AnswerIsOwn` | a pooled socket does not block: a call ends with a 500 before its answer came, and the next call to that host reads it |
| | `SuccessIsWhole` | an answer cut off in its body is returned with its 200 |
| | `NeverExhausted` | idle connections of other hosts fill the pool, and nothing evicts them |

`MCRingBuffer_two` (two producers) and `MCTransaction_two` (two uploads by
`processAsync` on two threads, no rejection) are larger passing instances that take
longer.

Read, but not stated as a formula: the guide's transition "Sending | Socket 错误 |
InitSending（重试）或 Aborted" is a transition to InitReceiving in the code; the guide
gives `failuresMax` as 3, the code as 32; `PollSocket` stores the `-1` of `send()`
and `recv()` where io_uring stores `-errno`, so that an EAGAIN of the poll socket is
taken for an error and counted; `sendRequest` calls `::send` without `MSG_NOSIGNAL`.

## 4. What is proved

Checked by TLAPS for every value of the constants that satisfies the named
assumptions of each module.

`RingBufferProofs`: `TypeCorrect`, `CountersStayInOrder`, `SlotAccessIsRaceFree`
and `RingBufferImplementsQueue`. The counters alone are not inductive. `IInv` adds
that each lock has one holder (`Exclusion`), that between reservation and commit
exactly the holder's batch is reserved (`InsertSide`) and between claim and commit
exactly one element claimed (`SeenSide`), that what was written of a batch and
what a consumer read is what the slots hold (`SlotsHold`), and that a running
insertion carries one of the argument vectors (`ArgumentsHeld`). The arithmetic
is one lemma, `SlotsDiffer`: positions less than `Size` apart have different
slots. Each step then maps to a step of `BoundedQueue` or to a stutter, the commits
by equality of sequences element by element.

`ConnectionPoolProofs`: `TypeCorrect`, `ConnectionsHaveOneOwner`,
`ReusedConnectionsAreOpen`, `DisplacedConnectionFindsSlot` and
`ConnectionsAreCapped`. `IInv` adds `ClosedIsHeld` (only a lent connection can be
closed, which is why the scan of a full pool finds nothing to erase) and
`SlotsWithinCap` (the slots, filled or empty, do not exceed the maximum). That
connections are capped then follows by counting: every lent or idle connection
has an empty slot to itself (`SlotForEveryone`), so live connections do not exceed
slots. The counting lemmas are the cardinality facts of `FiniteSetTheorems`.

`TlsSessionsProofs`: `SessionTypes`, `SessionsGoHome` and `ReferencesAreExact`, the
last two under `SeenApart`: distinct servers are seen under distinct addresses, none
of them 0. This holds of IPv4 and is what fails for IPv6 in `MCTlsSessions_v6`.
`SInv` says of which server the session of each layer (`CurrentIsOfPeer`) and of each
filled entry (`CachedIsOfPeer`) is, so that an entry that matches an address holds a
session of that address. `RInv` adds `Counted`: the references of a session are the
layers that have it and the entries that hold it. Each step moves one of them, and
the counting lemmas say what that does to the two cardinalities.

`ReceiversProofs`: `ReceiversTypeCorrect`, `ReceiversLentOnce`, `VectorsHaveOneOwner`
and `CallbacksReadTheirOwn`. `LentOnce` is inductive with the types. The vectors need
more: `Placed`, that a message is in the group's queue, in one receiver's queue or
among one receiver's tasks, and that its status says which; `HasVector`, that a message
has its vector until it ends, so that no step follows the null pointer that
`moveDataVector` leaves; and `ReceivesAlone`, that what is in the vector of a message
that has begun to receive is its own. `CallbackReadsOwn` then holds because a message
that finishes has received, and one that is aborted before has been cleared. The lemma
per kind of step (`OwnersTake`, `OwnersReceive`, `OwnersEnd`, `OwnersStay`) says what
it does to vector, pool and bytes; `TailFacts` and `AppendFacts` are the two facts on
queues of distinct elements.

`HttpMessageProofs`: `HttpTypeCorrect` and every safety property of the run `http`:
`AnswersAreWhole`, `SendsGoInOrder`, `IoIsOnHeldConnection`, `RequestsHaveRoom` and
`ConnectionsGoHome`. `IInv` adds `Phases` (what each state of the machine has: the
connection is the last one obtained, no header is parsed before a response is awaited,
an answer or a connection returned open means the end), `Sends` (the submitted part
starts at the peer's unit and ends within the request) and `Receives` (the buffer holds
exactly what was taken from this connection, and behind it room for the receive that is
under way). `DataFacts` says what arrives where, `SubmitReceiveFacts` the four ways a
submission of a receive can go, and `ResetStep` covers every failure.

`LoopProofs`, of `EventLoop`: `EventLoopTypeCorrect`, `MessagesFinishOnce` and
`FirstInvocationKnowsItsCompletions`. `Lifecycle` adds to `FinishedOnce` that a message
is in the queue once and only while it is queued, and that what has a task is active.
For the completions `Answers` adds that a completion is given out once and that before
the first call the socket knows nothing. The theorem is about the first invocation of a
receiver because a later one does meet requests of an earlier one, which
`MCEventLoop_early.cfg` shows.

`LoopProofs`, of `UringLoop`: `UringMessagesFinishOnce` and `KernelOnlyHasLiveTasks`,
over any number of invocations. The argument is the count: `AllCounted` says that the
loop waits for at least as many completions as I/Os are outstanding, so an invocation
that ends at zero leaves nothing with the kernel (`Quiescent`) and the next reset
destroys no task that the kernel still writes to. It needs `AnsweredOnce` and `OneIo`, that a task has one
I/O, prepared, in the kernel or answered. The count may be too high, since the answers of
timeouts are not counted down; that costs liveness and not this. The assumption
`NoDataAssumption` says that a null `user_data` is no request.

`HttpMessageProofs`, of `HttpsMessage`: `HttpsTypeCorrect`, `HttpsStreamInOrder`,
`HttpsAnswersAreWhole` and `HttpsConnectionsClosed`, every safety property of the run
`https`. The invariant `HInv` has a part for each of the three that work together.
`Stream`: while a message is under way, what SSL has written is on the wire, in the
layer's buffer or in the BIO, and the pending request is for the rest of the buffer; so a
write resumes where the peer's stream ends and a read begins with nothing left to write.
`Session`: what was received and not yet read belongs to a handshake that is not complete
or to the answer, and nothing is received while the request is being written.
`Answer`: the buffer holds what was taken of the answer, place by place. An operation of
SSL either leaves its output in the BIO (`StaysInBio`) or goes through `process`
(`Processed`), a completed write is `RestStep`, every failure `HttpsResetStep`.

`TransactionProofs`: `UploadTypeCorrect`, `RequestsSubmittedOnce`, `AbortsNameFailedPart`,
`CompletesHaveAllParts`, `ValidatingUploadsAreReady`, `CallbacksAreCalledOnce`,
`SuccessesAreReal`, `TransactionImplementsUpload` and `UndisturbedRefinement`. The
invariant says of each message of an upload that it is unsent, in flight, with one thread
that runs its callback, or through (`Single`); then `outstanding` is the number of parts
that no thread has counted down yet, a cardinality, and the thread that takes the last
one is alone when it decides. The state of an upload says which of its messages were
sent, and `completed` is the number of uploads reported. The part whose error is kept is
one that failed (`Errors`), even after a rejected send. All else holds until the first
one, because the rollback changes uploads whose requests are in flight; `TypeOK` is
stated for that time too, since `outstanding` may wrap after it.

`CloudRequestsProofs`: `RequestsSignedAtOwnAddress`, `RequestsSignedWithOwnKeys` and
`UploadCallbacksCanSign`. The invariant is `KeysBelong`: the keys a thread has are those
of an instance that was at the address the thread remembers. Addresses are
all that the code compares, so without an assumption a request is signed with keys of an
instance at the address of its own, and with its own instance's if no two instances were
at one address, the hypothesis of the second theorem. `MCCloudRequests_reuse.cfg` shows
that this assumption is needed.

`ConnectionPoolProofs`, of `Transfers`: `TransfersUsePool`, `AnswersComeFromHost`,
`LostSlotsAreExceptions` and `TransfersDisplaceNothing`. A transfer is an owner as the
pool expects one: every step is a step of `ConnectionPool` or leaves its variables alone,
so the theorems above hold of it too. `TransferInv` adds that what is under way on a
connection are pieces of answers of the host it is connected to (`Streams`), that only
the running call has a connection and none is displaced (`Calm`), and that a slot is a
lent or an idle connection or was lost with an exception (`Accounted`).

Model-checked only: liveness, whose proofs need fairness and ENABLED (`AcceptedIsConsumed`,
`Terminates`, `HttpsEnds`, `EndsUnlessLost`, `StopEndsLoop`, `TakenIsEnded`, `UploadsEnd`,
`TransfersEnd`). Every other property of a passing run is a theorem. Not provable here:
what recursive definitions compute for all inputs, since the library's induction rules
take an operator as a parameter.

## 5. What is not modelled, and what comes next

Not modelled:

- `Cache` and `ThroughputCache`: nothing looks anything up in them. `enableThroughputCache`
  stores one that is never read, and `addCache` drops its argument.
- Signers, request and response text, chunked framing: functions of text. The models
  choose their outcome (parsed, incomplete, refused) or keep what properties tell apart
  (who signed, lengths, bodies).
- Of `Transaction`: the iterators over messages, which keep no state, and a vector of uploads
  that grows while callbacks of another thread index it (`transaction.hpp:234`).
- Of io_uring: a submission queue that is full, and an entry that is reused with the
  `user_data` of another. Of the blocking client: the signal that a `send` to a closed
  socket raises.
- Expiry of keys and the metadata services, since nothing in `src/` requests them.
- TCP options, configuration values, measurements, encodings and the scope guard
  (bytes and numbers without control flow); the tests, examples and documents, which
  were read for what they promise.

What is worth doing next, in this order:

1. An abstract request (accepted, ended once) that `EventLoop` and `UringLoop` implement.
2. `Receivers` composed with `EventLoop`, so that what an invocation leaves behind and
   what a reset forgets are one model.
