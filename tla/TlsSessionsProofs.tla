------------------------- MODULE TlsSessionsProofs -------------------------
(***************************************************************************)
(* Proofs about TlsSessions, for any layers, servers, cache and bound.     *)
(***************************************************************************)
EXTENDS TlsSessions, FiniteSetTheorems, TLAPS

\* The code can tell servers apart: it sees an address of each, and no two the
\* same.  That is so for IPv4.
SeenApart ==
  /\ \A p \in Peers : SeenAs[p] # 0
  /\ \A p, q \in Peers : SeenAs[p] = SeenAs[q] => p = q

\* Only sessions that were negotiated are anywhere, and what is offered is what
\* the layer has.
KnownSessions ==
  /\ \A l \in Layers : current[l] <= negotiated /\ offered[l] \in {NoSession, current[l]}
  /\ \A x \in Index : second[x] <= negotiated

LayersHavePeers == \A l \in Layers : phase[l] # "none" => peer[l] \in Peers

\* The session of a layer was negotiated with the layer's server, and that of a
\* filled entry with a server that is seen as the entry's address.
CurrentIsOfPeer ==
  \A l \in Layers : current[l] # NoSession => origin[current[l]] = peer[l]
CachedIsOfPeer ==
  \A x \in Index : first[x] # 0 /\ second[x] # NoSession =>
    origin[second[x]] \in Peers /\ SeenAs[origin[second[x]]] = first[x]

SInv == TypeOK /\ KnownSessions /\ LayersHavePeers /\ CurrentIsOfPeer /\ CachedIsOfPeer

-----------------------------------------------------------------------------
LEMMA EntryIsIndex ==
  ASSUME NEW p \in Peers
  PROVE  Entry(p) \in Index
BY PeersAssumption, CacheAssumption DEF Entry, Index

LEMMA CountsStayInt ==
  ASSUME NEW r \in [Sessions -> Int], NEW s \in 0..MaxSessions
  PROVE  Free(r, s) \in [Sessions -> Int] /\ UpRef(r, s) \in [Sessions -> Int]
BY SessionsAssumption DEF Free, UpRef, Sessions, NoSession

\* The sessions that are anywhere, as numbers.
LEMMA SessionNumbers ==
  ASSUME SInv
  PROVE  /\ negotiated \in Nat /\ negotiated <= MaxSessions
         /\ \A l \in Layers : current[l] \in Nat /\ current[l] <= negotiated
         /\ \A x \in Index : second[x] \in Nat /\ second[x] <= negotiated
<1>1. negotiated \in 0..MaxSessions
  BY DEF SInv, TypeOK
<1>2. \A l \in Layers : current[l] \in 0..MaxSessions /\ current[l] <= negotiated
  BY DEF SInv, TypeOK, KnownSessions
<1>3. \A x \in Index : second[x] \in 0..MaxSessions /\ second[x] <= negotiated
  BY DEF SInv, TypeOK, KnownSessions
<1> QED BY <1>1, <1>2, <1>3, SessionsAssumption

LEMMA NoSessionIsNumber == NoSession \in 0..MaxSessions
BY SessionsAssumption DEF NoSession

LEMMA InitEstablishes == Init => SInv
BY SessionsAssumption, CacheAssumption
   DEF Init, SInv, TypeOK, KnownSessions, LayersHavePeers, CurrentIsOfPeer, CachedIsOfPeer,
       NoSession, Sessions, Index

\* A new layer: the entry of its server is taken only if the address is that of
\* the server.
LEMMA InitLayerKeeps ==
  ASSUME SeenApart, SInv, NEW l \in Layers, NEW p \in Peers, NEW gone \in BOOLEAN,
         InitLayer(l, p, gone)
  PROVE  SInv'
<1> DEFINE s == IF gone THEN NoSession ELSE Reusable(p)
<1>1. Entry(p) \in Index
  BY EntryIsIndex
<1>2. s \in 0..MaxSessions /\ s <= negotiated
  <2>1. negotiated \in 0..MaxSessions
    BY DEF SInv, TypeOK
  <2>2. second[Entry(p)] \in 0..MaxSessions /\ second[Entry(p)] <= negotiated
    BY <1>1 DEF SInv, TypeOK, KnownSessions
  <2>3. s \in {0, second[Entry(p)]}
    BY DEF Reusable, NoSession
  <2> HIDE DEF s
  <2> QED BY <2>1, <2>2, <2>3, SessionsAssumption
<1>3. s # NoSession => origin[s] = p
  BY <1>1, PeersAssumption
     DEF SInv, TypeOK, CachedIsOfPeer, Reusable, SeenApart, NoSession
<1>4. refs' \in [Sessions -> Int]
  BY <1>2, CountsStayInt DEF InitLayer, SInv, TypeOK
<1>5. /\ phase' = [phase EXCEPT ![l] = "started"] /\ peer' = [peer EXCEPT ![l] = p]
      /\ offered' = [offered EXCEPT ![l] = s] /\ current' = [current EXCEPT ![l] = s]
      /\ UNCHANGED <<entries, negotiated, origin>>
  BY DEF InitLayer
<1> HIDE DEF s
<1>6. TypeOK'
  BY <1>2, <1>4, <1>5 DEF SInv, TypeOK, entries
<1>7. KnownSessions'
  BY <1>2, <1>5 DEF SInv, TypeOK, KnownSessions, entries
<1>8. LayersHavePeers'
  BY <1>5 DEF SInv, TypeOK, LayersHavePeers
<1>9. CurrentIsOfPeer'
  BY <1>3, <1>5 DEF SInv, TypeOK, CurrentIsOfPeer
<1>10. CachedIsOfPeer'
  BY <1>5 DEF SInv, CachedIsOfPeer, entries
<1> QED BY <1>6, <1>7, <1>8, <1>9, <1>10 DEF SInv

\* A new session: it is nobody else's.
LEMMA NegotiatedKeeps ==
  ASSUME SInv, NEW l \in Layers, Negotiated(l)
  PROVE  SInv'
<1> DEFINE n == negotiated + 1
<1>0. negotiated \in 0..MaxSessions /\ negotiated < MaxSessions
  BY DEF Negotiated, SInv, TypeOK
<1>1. n \in Sessions /\ n \in 0..MaxSessions
  BY <1>0, SessionsAssumption DEF Sessions
<1>2. /\ negotiated' = n /\ phase' = [phase EXCEPT ![l] = "connected"]
      /\ current' = [current EXCEPT ![l] = n] /\ offered' = [offered EXCEPT ![l] = NoSession]
      /\ origin' = [origin EXCEPT ![n] = peer[l]]
      /\ refs' = [Free(refs, current[l]) EXCEPT ![n] = 1]
      /\ UNCHANGED <<entries, peer>>
  BY DEF Negotiated
<1>3. peer[l] \in Peers
  BY DEF Negotiated, SInv, LayersHavePeers
<1>4. \A k \in Layers : current[k] \in 0..MaxSessions /\ current[k] # n
  <2>1. \A k \in Layers : current[k] \in 0..MaxSessions /\ current[k] <= negotiated
    BY DEF SInv, TypeOK, KnownSessions
  <2> QED BY <1>0, <2>1
<1>5. \A x \in Index : second[x] # n
  <2>1. \A x \in Index : second[x] \in 0..MaxSessions /\ second[x] <= negotiated
    BY DEF SInv, TypeOK, KnownSessions
  <2> QED BY <1>0, <2>1
<1>6. refs' \in [Sessions -> Int]
  <2>1. Free(refs, current[l]) \in [Sessions -> Int]
    BY CountsStayInt DEF SInv, TypeOK
  <2> QED BY <1>1, <1>2, <2>1
<1>12. n = negotiated + 1
  OBVIOUS
<1> HIDE DEF n
<1>7. TypeOK'
  <2>1. /\ first' \in [Index -> Nat] /\ second' \in [Index -> 0..MaxSessions]
        /\ peer' \in [Layers -> Peers \cup {NoPeer}]
        /\ phase' \in [Layers -> {"none", "started", "connected", "half closed", "over"}]
    BY <1>2 DEF SInv, TypeOK, entries
  <2>2. offered' \in [Layers -> 0..MaxSessions] /\ current' \in [Layers -> 0..MaxSessions]
    BY <1>1, <1>2, NoSessionIsNumber DEF SInv, TypeOK
  <2>3. negotiated' \in 0..MaxSessions /\ origin' \in [Sessions -> Peers \cup {NoPeer}]
    BY <1>1, <1>2, <1>3 DEF SInv, TypeOK
  <2> QED BY <1>6, <2>1, <2>2, <2>3 DEF TypeOK
<1>8. KnownSessions'
  <2>1. \A k \in Layers : /\ current'[k] = IF k = l THEN n ELSE current[k]
                          /\ offered'[k] = IF k = l THEN NoSession ELSE offered[k]
    <3>1. current \in [Layers -> 0..MaxSessions] /\ offered \in [Layers -> 0..MaxSessions]
      BY DEF SInv, TypeOK
    <3> QED BY <1>2, <3>1
  <2>2. \A k \in Layers : offered[k] \in {NoSession, current[k]}
    BY DEF SInv, KnownSessions
  <2>3. \A k \in Layers : current'[k] <= n
    BY <1>12, <2>1, SessionNumbers
  <2>4. \A x \in Index : second'[x] <= n
    BY <1>2, <1>12, SessionNumbers DEF entries
  <2>5. negotiated' = n
    BY <1>2
  <2>6. \A k \in Layers : offered'[k] \in {NoSession, current'[k]}
    BY <2>1, <2>2
  <2> QED BY <2>3, <2>4, <2>5, <2>6 DEF KnownSessions
<1>9. LayersHavePeers'
  BY <1>2, <1>3 DEF SInv, TypeOK, LayersHavePeers
<1>10. CurrentIsOfPeer'
  <2> SUFFICES ASSUME NEW k \in Layers, current'[k] # NoSession
               PROVE  origin'[current'[k]] = peer'[k]
    BY DEF CurrentIsOfPeer
  <2>1. CASE k = l
    BY <1>1, <1>2, <2>1 DEF SInv, TypeOK
  <2>2. CASE k # l
    <3>1. current'[k] = current[k] /\ current[k] \in Sessions /\ current[k] # n
      <4>1. current'[k] = current[k]
        BY <1>2, <2>2 DEF SInv, TypeOK
      <4> QED BY <1>4, <4>1, SessionsAssumption DEF NoSession, Sessions
    <3>2. origin[current[k]] = peer[k]
      BY <3>1 DEF SInv, CurrentIsOfPeer
    <3> QED BY <1>2, <3>1, <3>2 DEF SInv, TypeOK
  <2> QED BY <2>1, <2>2
<1>11. CachedIsOfPeer'
  <2> SUFFICES ASSUME NEW x \in Index, first[x] # 0, second[x] # NoSession
               PROVE  origin'[second[x]] = origin[second[x]]
    BY <1>2 DEF SInv, CachedIsOfPeer, entries
  <2>1. second[x] \in Sessions
    BY SessionNumbers, SessionsAssumption DEF NoSession, Sessions
  <2> QED BY <1>2, <1>5, <2>1 DEF SInv, TypeOK
<1> QED BY <1>7, <1>8, <1>9, <1>10, <1>11 DEF SInv

LEMMA DestroyKeeps ==
  ASSUME SInv, NEW l \in Layers, Destroy(l)
  PROVE  SInv'
<1>1. refs' \in [Sessions -> Int]
  BY CountsStayInt DEF Destroy, SInv, TypeOK
<1>2. /\ phase' = [phase EXCEPT ![l] = "none"] /\ peer' = [peer EXCEPT ![l] = NoPeer]
      /\ offered' = [offered EXCEPT ![l] = 0] /\ current' = [current EXCEPT ![l] = 0]
      /\ UNCHANGED <<first, second, negotiated, origin>>
  BY DEF Destroy, entries, NoSession
<1>3. TypeOK'
  BY <1>1, <1>2, NoSessionIsNumber DEF SInv, TypeOK, NoSession
<1>4. KnownSessions'
  <2>1. \A k \in Layers : /\ current'[k] = IF k = l THEN 0 ELSE current[k]
                          /\ offered'[k] = IF k = l THEN 0 ELSE offered[k]
    <3>1. current \in [Layers -> 0..MaxSessions] /\ offered \in [Layers -> 0..MaxSessions]
      BY DEF SInv, TypeOK
    <3> QED BY <1>2, <3>1
  <2>2. \A k \in Layers : offered[k] \in {0, current[k]}
    BY DEF SInv, KnownSessions, NoSession
  <2>3. \A k \in Layers : current'[k] <= negotiated
    BY <2>1, SessionNumbers
  <2>4. \A k \in Layers : offered'[k] \in {0, current'[k]}
    BY <2>1, <2>2
  <2>5. negotiated' = negotiated /\ second' = second
    BY <1>2
  <2> QED BY <2>3, <2>4, <2>5, SessionNumbers DEF KnownSessions, NoSession
<1>5. LayersHavePeers' /\ CurrentIsOfPeer' /\ CachedIsOfPeer'
  BY <1>2 DEF SInv, TypeOK, LayersHavePeers, CurrentIsOfPeer, CachedIsOfPeer, NoSession
<1> QED BY <1>3, <1>4, <1>5 DEF SInv

\* What shutdown does to the cache: nothing, put in, or take out.
LEMMA CacheKeeps ==
  ASSUME SInv, NEW l \in Layers, phase[l] # "none",
         \/ UNCHANGED <<entries, refs>>
         \/ CacheSession(l)
         \/ DropSession(l),
         UNCHANGED <<peer, offered, current, negotiated, origin>>,
         phase' = [phase EXCEPT ![l] = "over"]
  PROVE  SInv'
<1>1. peer[l] \in Peers /\ Entry(peer[l]) \in Index /\ SeenAs[peer[l]] \in Nat
  BY EntryIsIndex, PeersAssumption DEF SInv, LayersHavePeers
<1>2. LayersHavePeers' /\ CurrentIsOfPeer'
  BY DEF SInv, TypeOK, LayersHavePeers, CurrentIsOfPeer
<1>3. CASE UNCHANGED <<entries, refs>>
  BY <1>2, <1>3 DEF SInv, TypeOK, KnownSessions, CachedIsOfPeer, entries
<1>4. CASE CacheSession(l) /\ offered[l] = NoSession
  <2> DEFINE x == Entry(peer[l])
  <2>1. /\ first' = [first EXCEPT ![x] = SeenAs[peer[l]]]
        /\ second' = [second EXCEPT ![x] = current[l]]
    BY <1>4 DEF CacheSession
  <2>2. refs' \in [Sessions -> Int]
    <3>1. current[l] \in 0..MaxSessions /\ second[x] \in 0..MaxSessions
      BY <1>1 DEF SInv, TypeOK
    <3>2. Free(refs, second[x]) \in [Sessions -> Int] /\ refs \in [Sessions -> Int]
      BY <3>1, CountsStayInt DEF SInv, TypeOK
    <3>3. refs' = UpRef(IF first[x] # 0 THEN Free(refs, second[x]) ELSE refs, current[l])
      BY <1>4 DEF CacheSession
    <3> HIDE DEF x
    <3> QED BY <3>1, <3>2, <3>3, CountsStayInt
  <2>3. TypeOK'
    BY <1>1, <2>1, <2>2 DEF SInv, TypeOK
  <2>4. KnownSessions'
    BY <1>1, <2>1 DEF SInv, TypeOK, KnownSessions
  <2>5. CachedIsOfPeer'
    BY <1>1, <2>1 DEF SInv, TypeOK, CachedIsOfPeer, CurrentIsOfPeer
  <2> QED BY <1>2, <2>3, <2>4, <2>5 DEF SInv
<1>5. CASE DropSession(l) /\ first[Entry(peer[l])] # 0
  <2> DEFINE x == Entry(peer[l])
  <2>1. first' = [first EXCEPT ![x] = 0] /\ UNCHANGED second
    BY <1>5 DEF DropSession
  <2>2. refs' \in [Sessions -> Int]
    <3>1. refs \in [Sessions -> Int] /\ second[x] \in 0..MaxSessions
      BY <1>1 DEF SInv, TypeOK
    <3>2. refs' = Free(refs, second[x])
      BY <1>5 DEF DropSession
    <3> HIDE DEF x
    <3> QED BY <3>1, <3>2, CountsStayInt
  <2>3. TypeOK' /\ KnownSessions'
    BY <1>1, <2>1, <2>2 DEF SInv, TypeOK, KnownSessions
  <2>4. CachedIsOfPeer'
    BY <1>1, <2>1 DEF SInv, TypeOK, CachedIsOfPeer
  <2> QED BY <1>2, <2>3, <2>4 DEF SInv
<1> QED BY <1>3, <1>4, <1>5 DEF CacheSession, DropSession

LEMMA StepKeeps == SeenApart /\ SInv /\ [Next]_vars => SInv'
<1> SUFFICES ASSUME SeenApart, SInv, [Next]_vars PROVE SInv'
  OBVIOUS
<1>1. CASE UNCHANGED vars
  BY <1>1 DEF vars, entries, layers, SInv, TypeOK, KnownSessions, LayersHavePeers,
              CurrentIsOfPeer, CachedIsOfPeer
<1>2. ASSUME NEW l \in Layers, NEW p \in Peers, NEW gone \in BOOLEAN, InitLayer(l, p, gone)
      PROVE  SInv'
  BY <1>2, InitLayerKeeps
<1>3. ASSUME NEW l \in Layers, Negotiated(l) PROVE SInv'
  BY <1>3, NegotiatedKeeps
<1>4. ASSUME NEW l \in Layers, Destroy(l) PROVE SInv'
  BY <1>4, DestroyKeeps
<1>5. ASSUME NEW l \in Layers, Resumed(l) \/ ShutdownWaits(l) PROVE SInv'
  BY <1>5 DEF Resumed, ShutdownWaits, SInv, TypeOK, KnownSessions, LayersHavePeers,
              CurrentIsOfPeer, CachedIsOfPeer, entries
<1>6. ASSUME NEW l \in Layers, NEW gone \in BOOLEAN,
             ShutdownFinished(l, gone) \/ ShutdownAborted(l, gone)
      PROVE  SInv'
  <2>1. phase[l] # "none" /\ phase' = [phase EXCEPT ![l] = "over"]
        /\ UNCHANGED <<peer, offered, current, negotiated, origin>>
    BY <1>6 DEF ShutdownFinished, ShutdownAborted
  <2>2. UNCHANGED <<entries, refs>> \/ CacheSession(l) \/ DropSession(l)
    BY <1>6 DEF ShutdownFinished, ShutdownAborted
  <2> QED BY <2>1, <2>2, CacheKeeps
<1> QED BY <1>1, <1>2, <1>3, <1>4, <1>5, <1>6 DEF Next

-----------------------------------------------------------------------------
\* Every variable of the session cache keeps its type.
THEOREM SessionTypes == SeenApart => (Spec => []TypeOK)
<1> SUFFICES ASSUME SeenApart PROVE Spec => []TypeOK
  OBVIOUS
<1>1. Init => SInv
  BY InitEstablishes
<1>2. SInv /\ [Next]_vars => SInv'
  BY StepKeeps
<1>3. SInv => TypeOK
  BY DEF SInv
<1> QED BY <1>1, <1>2, <1>3, PTL DEF Spec

\* A server that can be told from all others is only offered sessions negotiated
\* with it, although hosts share entries of the cache (tls_context.cpp).
THEOREM SessionsGoHome == SeenApart => (Spec => []OfferedToItsPeer)
<1> SUFFICES ASSUME SeenApart PROVE Spec => []OfferedToItsPeer
  OBVIOUS
<1>1. Init => SInv
  BY InitEstablishes
<1>2. SInv /\ [Next]_vars => SInv'
  BY StepKeeps
<1>3. SInv => OfferedToItsPeer
  BY DEF SInv, TypeOK, KnownSessions, CurrentIsOfPeer, OfferedToItsPeer
<1> QED BY <1>1, <1>2, <1>3, PTL DEF Spec

-----------------------------------------------------------------------------
(* References                                                              *)

Holders(s) == {l \in Layers : current[l] = s}
Filled(s) == {x \in Index : first[x] # 0 /\ second[x] = s}
Counted == \A s \in Sessions : refs[s] = Cardinality(Holders(s)) + Cardinality(Filled(s))

\* A layer that is not there has no session.
ClearLayers == \A l \in Layers : phase[l] = "none" => current[l] = NoSession

RInv == SInv /\ ClearLayers /\ Counted

Delta(b) == IF b THEN 1 ELSE 0

\* Two finite sets that differ at one element at most.
LEMMA CountOne ==
  ASSUME NEW S, IsFiniteSet(S), NEW x, NEW A, NEW B, A \subseteq S, B \subseteq S,
         A \ {x} = B \ {x}
  PROVE  /\ Cardinality(A) \in Nat
         /\ Cardinality(B) = Cardinality(A) - Delta(x \in A) + Delta(x \in B)
<1> DEFINE C == A \ {x}
<1>1. IsFiniteSet(A) /\ IsFiniteSet(B) /\ IsFiniteSet(C)
  BY FS_Subset
<1>2. Cardinality(A) \in Nat /\ Cardinality(B) \in Nat /\ Cardinality(C) \in Nat
  BY <1>1, FS_CardinalityType
<1>3. Cardinality(A) = Cardinality(C) + Delta(x \in A)
  <2>1. CASE x \in A
    <3>1. Cardinality(C) = Cardinality(A) - 1
      BY <1>1, <2>1, FS_RemoveElement
    <3> QED BY <1>2, <2>1, <3>1 DEF Delta
  <2>2. CASE x \notin A
    <3>1. C = A
      BY <2>2
    <3> HIDE DEF C
    <3> QED BY <1>2, <2>2, <3>1 DEF Delta
  <2> QED BY <2>1, <2>2
<1>4. Cardinality(B) = Cardinality(C) + Delta(x \in B)
  <2>1. CASE x \in B
    <3>1. Cardinality(C) = Cardinality(B) - 1
      BY <1>1, <2>1, FS_RemoveElement
    <3>2. Delta(x \in B) = 1
      BY <2>1 DEF Delta
    <3> HIDE DEF C
    <3> QED BY <1>2, <3>1, <3>2
  <2>2. CASE x \notin B
    <3>1. Cardinality(C) = Cardinality(B)
      BY <2>2
    <3>2. Delta(x \in B) = 0
      BY <2>2 DEF Delta
    <3> HIDE DEF C
    <3> QED BY <1>2, <3>1, <3>2
  <2> QED BY <2>1, <2>2
<1>5. Delta(x \in A) \in Int /\ Delta(x \in B) \in Int
  BY DEF Delta
<1> HIDE DEF C
<1> QED BY <1>2, <1>3, <1>4, <1>5

\* What SSL_SESSION_free and up_ref do to each count.
LEMMA CountsMove ==
  ASSUME NEW r \in [Sessions -> Int], NEW t \in 0..MaxSessions, NEW s \in Sessions
  PROVE  /\ Free(r, t)[s] = r[s] - Delta(t = s)
         /\ UpRef(r, t)[s] = r[s] + Delta(t = s)
BY SessionsAssumption DEF Free, UpRef, Sessions, NoSession, Delta

LEMMA IndexIsFinite == IsFiniteSet(Index)
BY FS_Interval, CacheAssumption DEF Index

\* A layer gets another session.
LEMMA HoldersMove ==
  ASSUME SInv, NEW l \in Layers, NEW v, NEW s \in Sessions,
         current' = [current EXCEPT ![l] = v]
  PROVE  /\ Cardinality(Holders(s)) \in Nat
         /\ Cardinality(Holders(s)') =
              Cardinality(Holders(s)) - Delta(current[l] = s) + Delta(v = s)
<1>1. current \in [Layers -> 0..MaxSessions]
  BY DEF SInv, TypeOK
<1>2. Holders(s) \subseteq Layers /\ Holders(s)' \subseteq Layers
      /\ Holders(s) \ {l} = Holders(s)' \ {l}
  BY <1>1 DEF Holders
<1>3. (l \in Holders(s)) = (current[l] = s) /\ (l \in Holders(s)') = (v = s)
  BY <1>1 DEF Holders
<1> QED BY <1>2, <1>3, CountOne, LayersAssumption

\* An entry is filled anew.
LEMMA FilledMove ==
  ASSUME NEW x \in Index, NEW s \in Sessions,
         \A y \in Index : y # x => first'[y] = first[y] /\ second'[y] = second[y]
  PROVE  /\ Cardinality(Filled(s)) \in Nat
         /\ Cardinality(Filled(s)') = Cardinality(Filled(s))
              - Delta(first[x] # 0 /\ second[x] = s) + Delta(first'[x] # 0 /\ second'[x] = s)
<1>2. Filled(s) \subseteq Index /\ Filled(s)' \subseteq Index
      /\ Filled(s) \ {x} = Filled(s)' \ {x}
  BY DEF Filled
<1>3. (x \in Filled(s)) = (first[x] # 0 /\ second[x] = s)
      /\ (x \in Filled(s)') = (first'[x] # 0 /\ second'[x] = s)
  BY DEF Filled
<1> QED BY <1>2, <1>3, CountOne, IndexIsFinite

LEMMA CountsInit == Init => ClearLayers /\ Counted
<1> SUFFICES ASSUME Init PROVE ClearLayers /\ Counted
  OBVIOUS
<1>1. ClearLayers
  BY DEF Init, ClearLayers
<1>2. ASSUME NEW s \in Sessions
      PROVE  refs[s] = 0 /\ Holders(s) = {} /\ Filled(s) = {}
  BY SessionsAssumption DEF Init, Sessions, NoSession, Holders, Filled
<1> QED BY <1>1, <1>2, FS_EmptySet DEF Counted

\* Nothing counted changes but at one layer.
LEMMA InitLayerCounts ==
  ASSUME RInv, NEW l \in Layers, NEW p \in Peers, NEW gone \in BOOLEAN,
         InitLayer(l, p, gone)
  PROVE  Counted'
<1> DEFINE t == IF gone THEN NoSession ELSE Reusable(p)
<1>1. t \in 0..MaxSessions
  <2>1. second[Entry(p)] \in 0..MaxSessions
    BY EntryIsIndex DEF RInv, SInv, TypeOK
  <2>2. t \in {NoSession, second[Entry(p)]}
    BY DEF Reusable
  <2> HIDE DEF t
  <2> QED BY <2>1, <2>2, NoSessionIsNumber
<1>2. current' = [current EXCEPT ![l] = t] /\ refs' = UpRef(refs, t)
      /\ UNCHANGED <<first, second>>
  BY DEF InitLayer, entries
<1>3. current[l] = NoSession /\ refs \in [Sessions -> Int]
  BY DEF InitLayer, RInv, ClearLayers, SInv, TypeOK
<1> HIDE DEF t
<1> SUFFICES ASSUME NEW s \in Sessions
             PROVE  refs'[s] = Cardinality(Holders(s)') + Cardinality(Filled(s)')
  BY DEF Counted, Holders, Filled
<1>4. Filled(s)' = Filled(s)
  BY <1>2 DEF Filled
<1>5. /\ Cardinality(Holders(s)) \in Nat
      /\ Cardinality(Holders(s)') =
           Cardinality(Holders(s)) - Delta(current[l] = s) + Delta(t = s)
  BY <1>2, HoldersMove DEF RInv, Delta
<1>6. Delta(current[l] = s) = 0 /\ Delta(t = s) \in {0, 1}
  BY <1>3, SessionsAssumption DEF Delta, Sessions, NoSession
<1>7. refs'[s] = refs[s] + Delta(t = s)
  BY <1>1, <1>2, <1>3, CountsMove
<1>8. refs[s] = Cardinality(Holders(s)) + Cardinality(Filled(s)) /\ refs[s] \in Int
  BY <1>3 DEF RInv, Counted
<1>9. Cardinality(Filled(s)) \in Nat
  BY IndexIsFinite, FS_Subset, FS_CardinalityType DEF Filled
<1> QED BY <1>4, <1>5, <1>6, <1>7, <1>8, <1>9

LEMMA DestroyCounts ==
  ASSUME RInv, NEW l \in Layers, Destroy(l)
  PROVE  Counted'
<1>1. current' = [current EXCEPT ![l] = NoSession] /\ refs' = Free(refs, current[l])
      /\ UNCHANGED <<first, second>>
  BY DEF Destroy, entries
<1>2. current[l] \in 0..MaxSessions /\ refs \in [Sessions -> Int]
  BY DEF RInv, SInv, TypeOK
<1> SUFFICES ASSUME NEW s \in Sessions
             PROVE  refs'[s] = Cardinality(Holders(s)') + Cardinality(Filled(s)')
  BY DEF Counted, Holders, Filled
<1>3. Filled(s)' = Filled(s)
  BY <1>1 DEF Filled
<1>4. /\ Cardinality(Holders(s)) \in Nat
      /\ Cardinality(Holders(s)') =
           Cardinality(Holders(s)) - Delta(current[l] = s) + Delta(NoSession = s)
  BY <1>1, HoldersMove DEF RInv, Delta
<1>5. Delta(NoSession = s) = 0 /\ Delta(current[l] = s) \in {0, 1}
  BY SessionsAssumption DEF Delta, Sessions, NoSession
<1>6. refs'[s] = refs[s] - Delta(current[l] = s)
  BY <1>1, <1>2, CountsMove
<1>7. refs[s] = Cardinality(Holders(s)) + Cardinality(Filled(s)) /\ refs[s] \in Int
  BY <1>2 DEF RInv, Counted
<1>8. Cardinality(Filled(s)) \in Nat
  BY IndexIsFinite, FS_Subset, FS_CardinalityType DEF Filled
<1> QED BY <1>3, <1>4, <1>5, <1>6, <1>7, <1>8

\* The new session had no references, for it was nowhere.
LEMMA NegotiatedCounts ==
  ASSUME RInv, NEW l \in Layers, Negotiated(l)
  PROVE  Counted'
<1> DEFINE n == negotiated + 1
<1>1. /\ current' = [current EXCEPT ![l] = n]
      /\ refs' = [Free(refs, current[l]) EXCEPT ![n] = 1]
      /\ UNCHANGED <<first, second>>
  BY DEF Negotiated, entries
<1>2. n \in Sessions /\ n > negotiated
  BY SessionNumbers, SessionsAssumption DEF RInv, Negotiated, Sessions
<1>3. current[l] \in 0..MaxSessions /\ refs \in [Sessions -> Int]
  BY DEF RInv, SInv, TypeOK
<1>4. Free(refs, current[l]) \in [Sessions -> Int]
  BY <1>3, CountsStayInt
<1>5. Holders(n) = {} /\ Filled(n) = {}
  BY <1>2, SessionNumbers DEF RInv, Holders, Filled
<1> HIDE DEF n
<1> SUFFICES ASSUME NEW s \in Sessions
             PROVE  refs'[s] = Cardinality(Holders(s)') + Cardinality(Filled(s)')
  BY DEF Counted, Holders, Filled
<1>6. Filled(s)' = Filled(s) /\ Cardinality(Filled(s)) \in Nat
  BY <1>1, IndexIsFinite, FS_Subset, FS_CardinalityType DEF Filled
<1>7. /\ Cardinality(Holders(s)) \in Nat
      /\ Cardinality(Holders(s)') =
           Cardinality(Holders(s)) - Delta(current[l] = s) + Delta(n = s)
  BY <1>1, HoldersMove DEF RInv, Delta
<1>8. refs[s] = Cardinality(Holders(s)) + Cardinality(Filled(s)) /\ refs[s] \in Int
  BY <1>3 DEF RInv, Counted
<1>9. Delta(current[l] = s) \in {0, 1}
  BY DEF Delta
<1>10. CASE s = n
  <2>1. Cardinality(Holders(s)) = 0 /\ Cardinality(Filled(s)) = 0
    BY <1>5, <1>10, FS_EmptySet
  <2>2. current[l] # s
    BY <1>5, <1>10 DEF Holders
  <2>3. Delta(current[l] = s) = 0 /\ Delta(n = s) = 1
    BY <1>10, <2>2 DEF Delta
  <2>4. refs'[s] = 1
    BY <1>1, <1>4, <1>10
  <2> QED BY <1>6, <1>7, <2>1, <2>3, <2>4
<1>11. CASE s # n
  <2>1. Delta(n = s) = 0
    BY <1>11 DEF Delta
  <2>2. refs'[s] = refs[s] - Delta(current[l] = s)
    BY <1>1, <1>3, <1>4, <1>11, CountsMove
  <2> QED BY <1>6, <1>7, <1>8, <1>9, <2>1, <2>2
<1> QED BY <1>10, <1>11

\* The cache gives back what it had and takes what the layer has ...
LEMMA CacheCounts ==
  ASSUME SeenApart, RInv, NEW l \in Layers, phase[l] # "none", CacheSession(l),
         UNCHANGED current
  PROVE  Counted'
<1> DEFINE x == Entry(peer[l])
           a == SeenAs[peer[l]]
           given == IF first[x] # 0 THEN Free(refs, second[x]) ELSE refs
<1>1. x \in Index /\ a # 0
  BY EntryIsIndex DEF RInv, SInv, LayersHavePeers, SeenApart
<1>2. CASE offered[l] # NoSession
  <2>1. UNCHANGED <<first, second, refs>>
    BY <1>2 DEF CacheSession, entries
  <2> QED BY <2>1 DEF RInv, Counted, Holders, Filled
<1>3. CASE offered[l] = NoSession
  <2>1. /\ refs' = UpRef(given, current[l])
        /\ first' = [first EXCEPT ![x] = a] /\ second' = [second EXCEPT ![x] = current[l]]
    BY <1>3 DEF CacheSession
  <2>2. current[l] \in 0..MaxSessions /\ second[x] \in 0..MaxSessions
        /\ refs \in [Sessions -> Int]
    BY <1>1 DEF RInv, SInv, TypeOK
  <2> HIDE DEF x, a
  <2>3. given \in [Sessions -> Int]
    BY <2>2, CountsStayInt
  <2> SUFFICES ASSUME NEW s \in Sessions
               PROVE  refs'[s] = Cardinality(Holders(s)') + Cardinality(Filled(s)')
    BY DEF Counted, Holders, Filled
  <2>4. Holders(s)' = Holders(s) /\ Cardinality(Holders(s)) \in Nat
    BY LayersAssumption, FS_Subset, FS_CardinalityType DEF Holders
  <2>5. /\ Cardinality(Filled(s)) \in Nat
        /\ Cardinality(Filled(s)') = Cardinality(Filled(s))
              - Delta(first[x] # 0 /\ second[x] = s) + Delta(a # 0 /\ current[l] = s)
    <3>1. first \in [Index -> Nat] /\ second \in [Index -> 0..MaxSessions]
      BY DEF RInv, SInv, TypeOK
    <3>2. /\ \A y \in Index : y # x => first'[y] = first[y] /\ second'[y] = second[y]
          /\ first'[x] = a /\ second'[x] = current[l]
      BY <1>1, <2>1, <3>1
    <3> QED BY <1>1, <3>2, FilledMove DEF Delta
  <2>6. given[s] = refs[s] - Delta(first[x] # 0 /\ second[x] = s)
    <3>1. CASE first[x] # 0
      BY <2>2, <3>1, CountsMove
    <3>2. CASE first[x] = 0
      <4>1. Delta(first[x] # 0 /\ second[x] = s) = 0
        BY <3>2 DEF Delta
      <4> QED BY <2>2, <3>2, <4>1
    <3> QED BY <3>1, <3>2
  <2> HIDE DEF given
  <2>7. refs'[s] = given[s] + Delta(current[l] = s)
    BY <2>1, <2>2, <2>3, CountsMove
  <2>8. Delta(a # 0 /\ current[l] = s) = Delta(current[l] = s)
    BY <1>1 DEF Delta
  <2>9. refs[s] = Cardinality(Holders(s)) + Cardinality(Filled(s)) /\ refs[s] \in Int
    BY <2>2 DEF RInv, Counted
  <2>10. /\ Delta(first[x] # 0 /\ second[x] = s) \in {0, 1}
         /\ Delta(current[l] = s) \in {0, 1}
    BY DEF Delta
  <2> QED BY <2>4, <2>5, <2>6, <2>7, <2>8, <2>9, <2>10
<1> QED BY <1>2, <1>3

\* ... or only gives back.
LEMMA DropCounts ==
  ASSUME RInv, NEW l \in Layers, phase[l] # "none", DropSession(l), UNCHANGED current
  PROVE  Counted'
<1> DEFINE x == Entry(peer[l])
<1>1. x \in Index
  BY EntryIsIndex DEF RInv, SInv, LayersHavePeers
<1>2. CASE first[x] = 0
  <2>1. UNCHANGED <<first, second, refs>>
    BY <1>2 DEF DropSession, entries
  <2> QED BY <2>1 DEF RInv, Counted, Holders, Filled
<1>3. CASE first[x] # 0
  <2>1. refs' = Free(refs, second[x]) /\ first' = [first EXCEPT ![x] = 0]
        /\ second' = second
    BY <1>3 DEF DropSession
  <2>2. second[x] \in 0..MaxSessions /\ refs \in [Sessions -> Int]
        /\ second \in [Index -> 0..MaxSessions]
    BY <1>1 DEF RInv, SInv, TypeOK
  <2> HIDE DEF x
  <2> SUFFICES ASSUME NEW s \in Sessions
               PROVE  refs'[s] = Cardinality(Holders(s)') + Cardinality(Filled(s)')
    BY DEF Counted, Holders, Filled
  <2>4. Holders(s)' = Holders(s) /\ Cardinality(Holders(s)) \in Nat
    BY LayersAssumption, FS_Subset, FS_CardinalityType DEF Holders
  <2>5. /\ Cardinality(Filled(s)) \in Nat
        /\ Cardinality(Filled(s)') = Cardinality(Filled(s))
              - Delta(first[x] # 0 /\ second[x] = s) + Delta(0 # 0 /\ second[x] = s)
    <3>1. first \in [Index -> Nat]
      BY DEF RInv, SInv, TypeOK
    <3>2. /\ \A y \in Index : y # x => first'[y] = first[y] /\ second'[y] = second[y]
          /\ first'[x] = 0 /\ second'[x] = second[x]
      BY <1>1, <2>1, <3>1
    <3> QED BY <1>1, <3>2, FilledMove DEF Delta
  <2>6. /\ Delta(first[x] # 0 /\ second[x] = s) = Delta(second[x] = s)
        /\ Delta(0 # 0 /\ second[x] = s) = 0 /\ Delta(second[x] = s) \in {0, 1}
    BY <1>3 DEF Delta
  <2>7. refs'[s] = refs[s] - Delta(second[x] = s)
    BY <2>1, <2>2, CountsMove
  <2>8. refs[s] = Cardinality(Holders(s)) + Cardinality(Filled(s)) /\ refs[s] \in Int
    BY <2>2 DEF RInv, Counted
  <2> QED BY <2>4, <2>5, <2>6, <2>7, <2>8
<1> QED BY <1>2, <1>3

LEMMA CountsKeep == SeenApart /\ RInv /\ [Next]_vars => Counted' /\ ClearLayers'
<1> SUFFICES ASSUME SeenApart, RInv, [Next]_vars PROVE Counted' /\ ClearLayers'
  OBVIOUS
<1>1. CASE UNCHANGED vars
  BY <1>1 DEF vars, entries, layers, RInv, Counted, Holders, Filled, ClearLayers
<1>2. ASSUME NEW l \in Layers, NEW p \in Peers, NEW gone \in BOOLEAN, InitLayer(l, p, gone)
      PROVE  Counted' /\ ClearLayers'
  <2>1. ClearLayers'
    BY <1>2 DEF InitLayer, RInv, SInv, TypeOK, ClearLayers
  <2> QED BY <1>2, <2>1, InitLayerCounts
<1>3. ASSUME NEW l \in Layers, Negotiated(l) PROVE Counted' /\ ClearLayers'
  <2>1. ClearLayers'
    BY <1>3 DEF Negotiated, RInv, SInv, TypeOK, ClearLayers
  <2> QED BY <1>3, <2>1, NegotiatedCounts
<1>4. ASSUME NEW l \in Layers, Destroy(l) PROVE Counted' /\ ClearLayers'
  <2>1. ClearLayers'
    BY <1>4 DEF Destroy, RInv, SInv, TypeOK, ClearLayers
  <2> QED BY <1>4, <2>1, DestroyCounts
<1>5. ASSUME NEW l \in Layers, Resumed(l) \/ ShutdownWaits(l)
      PROVE  Counted' /\ ClearLayers'
  <2>1. UNCHANGED <<first, second, current, refs>>
    BY <1>5 DEF Resumed, ShutdownWaits, entries
  <2>2. ClearLayers'
    BY <1>5 DEF Resumed, ShutdownWaits, RInv, SInv, TypeOK, ClearLayers
  <2> QED BY <2>1, <2>2 DEF RInv, Counted, Holders, Filled
<1>6. ASSUME NEW l \in Layers, NEW gone \in BOOLEAN,
             ShutdownFinished(l, gone) \/ ShutdownAborted(l, gone)
      PROVE  Counted' /\ ClearLayers'
  <2>1. phase[l] # "none" /\ phase' = [phase EXCEPT ![l] = "over"] /\ UNCHANGED current
    BY <1>6 DEF ShutdownFinished, ShutdownAborted
  <2>2. ClearLayers'
    BY <2>1 DEF RInv, SInv, TypeOK, ClearLayers
  <2>3. CASE UNCHANGED <<entries, refs>>
    BY <2>1, <2>2, <2>3 DEF entries, RInv, Counted, Holders, Filled
  <2>4. CASE CacheSession(l)
    BY <2>1, <2>2, <2>4, CacheCounts
  <2>5. CASE DropSession(l)
    BY <2>1, <2>2, <2>5, DropCounts
  <2> QED BY <1>6, <2>3, <2>4, <2>5 DEF ShutdownFinished, ShutdownAborted
<1> QED BY <1>1, <1>2, <1>3, <1>4, <1>5, <1>6 DEF Next

\* No session is freed while a layer or an entry has it, and none is kept that
\* nobody has (tls_context.cpp, and destroy and init of tls_connection.cpp).
THEOREM ReferencesAreExact == SeenApart => (Spec => []RefsAreExact)
<1> SUFFICES ASSUME SeenApart PROVE Spec => []RefsAreExact
  OBVIOUS
<1>1. Init => RInv
  BY InitEstablishes, CountsInit DEF RInv
<1>2. RInv /\ [Next]_vars => RInv'
  BY StepKeeps, CountsKeep DEF RInv
<1>3. RInv => RefsAreExact
  BY DEF RInv, Counted, RefsAreExact, Holders, Filled
<1> QED BY <1>1, <1>2, <1>3, PTL DEF Spec
=============================================================================
