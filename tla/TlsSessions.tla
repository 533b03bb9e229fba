---------------------------- MODULE TlsSessions ----------------------------
(***************************************************************************)
(* network::TLSContext: the TLS sessions that the messages of one receiver *)
(* share, and the TLS layers that take them out and put them in.           *)
(*                                                                         *)
(* The cache is an array indexed by some bits of the peer's address.  An   *)
(* entry is a pair of the whole address and a pointer to a session, and    *)
(* counts as empty if the address is 0.  Sessions are counted references   *)
(* of OpenSSL: SSL_get1_session and SSL_set_session add one,               *)
(* SSL_SESSION_free and SSL_free give one back.                            *)
(*                                                                         *)
(* The address is read as if it were of IPv4: of an IPv6 peer the code     *)
(* sees another field, which is 0.  SeenAs is what it sees.                *)
(***************************************************************************)
EXTENDS Integers, FiniteSets

CONSTANTS
  Layers,       \* TLS layers that may be there at a time
  Peers,        \* servers
  SeenAs,       \* the address that getpeername() gives the code
  CacheSize,    \* cacheSize
  MaxSessions   \* bound: sessions negotiated

ASSUME PeersAssumption == SeenAs \in [Peers -> Nat]
ASSUME CacheAssumption == CacheSize \in Nat \ {0}
ASSUME SessionsAssumption == MaxSessions \in Nat
ASSUME LayersAssumption == IsFiniteSet(Layers)

Sessions == 1..MaxSessions
Index == 0..(CacheSize - 1)
NoSession == 0      \* the null pointer
NoPeer == "no peer"

ASSUME NoPeerAssumption == NoPeer \notin Peers

VARIABLES
  first, second,   \* _sessionCache: address and session of each entry
  peer,            \* the server at the other end of a layer's socket
  phase,           \* of a layer: none, started, connected, half closed or over
  offered,         \* the session set on a layer before its handshake
  current,         \* the session a layer has
  negotiated,      \* sessions negotiated so far; the newest is the largest
  origin,          \* the server a session was negotiated with
  refs             \* its references

entries == <<first, second>>
layers == <<peer, phase, offered, current>>
vars == <<entries, layers, negotiated, origin, refs>>

Init ==
  /\ first = [x \in Index |-> 0] /\ second = [x \in Index |-> NoSession]
  /\ peer = [l \in Layers |-> NoPeer] /\ phase = [l \in Layers |-> "none"]
  /\ offered = [l \in Layers |-> NoSession] /\ current = [l \in Layers |-> NoSession]
  /\ negotiated = 0
  /\ origin = [s \in Sessions |-> NoPeer]
  /\ refs = [s \in Sessions |-> 0]

\* addr & cacheMask
Entry(p) == SeenAs[p] % CacheSize

\* SSL_SESSION_free, and up_ref; both accept the null pointer.
Free(r, s) == IF s = NoSession THEN r ELSE [r EXCEPT ![s] = @ - 1]
UpRef(r, s) == IF s = NoSession THEN r ELSE [r EXCEPT ![s] = @ + 1]

-----------------------------------------------------------------------------
(* Layers                                                                  *)

\* TLSContext::reuseSession.  Mutant: whatever is in the entry.
ReusableOfAnyone(p) == second[Entry(p)]
Reusable(p) == IF first[Entry(p)] = SeenAs[p] THEN second[Entry(p)] ELSE NoSession

\* TLSConnection::init of a new layer; the peer may be gone already, and then
\* getpeername fails.
InitLayer(l, p, gone) ==
  LET s == IF gone THEN NoSession ELSE Reusable(p) IN
  /\ phase[l] = "none"
  /\ phase' = [phase EXCEPT ![l] = "started"]
  /\ peer' = [peer EXCEPT ![l] = p]
  /\ offered' = [offered EXCEPT ![l] = s] /\ current' = [current EXCEPT ![l] = s]
  /\ refs' = UpRef(refs, s)
  /\ UNCHANGED <<entries, negotiated, origin>>

\* The server takes up the session it was offered ...
Resumed(l) ==
  /\ phase[l] = "started" /\ offered[l] # NoSession
  /\ phase' = [phase EXCEPT ![l] = "connected"]
  /\ UNCHANGED <<entries, peer, offered, current, negotiated, origin, refs>>

\* ... or negotiates another.
Negotiated(l) ==
  /\ phase[l] = "started" /\ negotiated < MaxSessions
  /\ negotiated' = negotiated + 1
  /\ phase' = [phase EXCEPT ![l] = "connected"]
  /\ current' = [current EXCEPT ![l] = negotiated']
  /\ offered' = [offered EXCEPT ![l] = NoSession]
  /\ origin' = [origin EXCEPT ![negotiated'] = peer[l]]
  /\ refs' = [Free(refs, current[l]) EXCEPT ![negotiated'] = 1]
  /\ UNCHANGED <<entries, peer>>

\* TLSConnection::destroy: with SSL_free, the layer gives back its session.
Destroy(l) ==
  /\ phase[l] # "none"
  /\ phase' = [phase EXCEPT ![l] = "none"] /\ peer' = [peer EXCEPT ![l] = NoPeer]
  /\ offered' = [offered EXCEPT ![l] = NoSession]
  /\ current' = [current EXCEPT ![l] = NoSession]
  /\ refs' = Free(refs, current[l])
  /\ UNCHANGED <<entries, negotiated, origin>>

-----------------------------------------------------------------------------
(* The end of a session: TLSConnection::shutdown                           *)

\* TLSContext::cacheSession: not of a layer that resumed one.  Mutant: the
\* session that was in the entry is not given back.
CacheSessionOver(l) ==
  LET p == peer[l] IN
  IF offered[l] # NoSession THEN UNCHANGED <<entries, refs>>
  ELSE /\ refs' = UpRef(refs, current[l])
       /\ first' = [first EXCEPT ![Entry(p)] = SeenAs[p]]
       /\ second' = [second EXCEPT ![Entry(p)] = current[l]]
CacheSession(l) ==
  LET p == peer[l] IN
  IF offered[l] # NoSession THEN UNCHANGED <<entries, refs>>
  ELSE /\ refs' = UpRef(IF first[Entry(p)] # 0 THEN Free(refs, second[Entry(p)]) ELSE refs,
                        current[l])
       /\ first' = [first EXCEPT ![Entry(p)] = SeenAs[p]]
       /\ second' = [second EXCEPT ![Entry(p)] = current[l]]

\* TLSContext::dropSession: whoever's session is in the entry.  The pointer
\* stays.
DropSession(l) ==
  LET x == Entry(peer[l]) IN
  IF first[x] = 0 THEN UNCHANGED <<entries, refs>>
  ELSE /\ first' = [first EXCEPT ![x] = 0]
       /\ refs' = Free(refs, second[x])
       /\ UNCHANGED second

\* The first SSL_shutdown counts as a failure and is repeated at once; the
\* second one finishes, fails or waits for the peer's close_notify.
ShutdownWaits(l) ==
  /\ phase[l] = "connected"
  /\ phase' = [phase EXCEPT ![l] = "half closed"]
  /\ UNCHANGED <<entries, peer, offered, current, negotiated, origin, refs>>

ShutdownFinished(l, gone) ==
  /\ phase[l] \in {"connected", "half closed"}
  /\ phase' = [phase EXCEPT ![l] = "over"]
  /\ IF gone THEN UNCHANGED <<entries, refs>> ELSE CacheSession(l)
  /\ UNCHANGED <<peer, offered, current, negotiated, origin>>

ShutdownAborted(l, gone) ==
  /\ phase[l] \in {"connected", "half closed"}
  /\ phase' = [phase EXCEPT ![l] = "over"]
  /\ IF gone THEN UNCHANGED <<entries, refs>> ELSE DropSession(l)
  /\ UNCHANGED <<peer, offered, current, negotiated, origin>>

Next ==
  \E l \in Layers :
    \/ \E p \in Peers, gone \in BOOLEAN : InitLayer(l, p, gone)
    \/ Resumed(l) \/ Negotiated(l) \/ Destroy(l)
    \/ ShutdownWaits(l)
    \/ \E gone \in BOOLEAN : ShutdownFinished(l, gone) \/ ShutdownAborted(l, gone)

Spec == Init /\ [][Next]_vars

-----------------------------------------------------------------------------
(* Properties                                                              *)

TypeOK ==
  /\ first \in [Index -> Nat] /\ second \in [Index -> 0..MaxSessions]
  /\ peer \in [Layers -> Peers \cup {NoPeer}]
  /\ phase \in [Layers -> {"none", "started", "connected", "half closed", "over"}]
  /\ offered \in [Layers -> 0..MaxSessions] /\ current \in [Layers -> 0..MaxSessions]
  /\ negotiated \in 0..MaxSessions
  /\ origin \in [Sessions -> Peers \cup {NoPeer}]
  /\ refs \in [Sessions -> Int]

\* Hosts share entries and layers overwrite and drop each other's: yet a server
\* is only ever offered a session that was negotiated with it.
OfferedToItsPeer ==
  \A l \in Layers : offered[l] # NoSession => origin[offered[l]] = peer[l]

\* The references of a session are the layers that have it and the entries that
\* count as filled: none is freed while in use, and none is kept for ever.
RefsAreExact ==
  \A s \in Sessions :
    refs[s] = Cardinality({l \in Layers : current[l] = s})
                + Cardinality({x \in Index : first[x] # 0 /\ second[x] = s})

=============================================================================
