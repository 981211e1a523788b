-------------------------- MODULE ConnectionProofs --------------------------
(***************************************************************************)
(* Proofs about ConnectionPool for any number of tasks, peers and          *)
(* connections: no connection has two users, no peer has more connections  *)
(* than the pool allows, and every place is accounted for.                 *)
(*                                                                         *)
(* The argument: a connection is open or dead from the step that makes it  *)
(* to the step that closes it, and in between it is in one queue or in the *)
(* hands of one task.  A place is taken before and given back after that,  *)
(* by a task that is then between the two.                                 *)
(***************************************************************************)
EXTENDS ConnectionPool, FiniteSetTheorems, TLAPS

\* Where a task works with a connection, and where it has a place without one.
Using == {"check", "close", "recheck", "reclose",
          "use", "backcheck", "backclose", "lastclose"}
Gap == {"create", "undo", "forget", "backforget"}

\* A task that works with a connection has one that leads to its peer.
Holding ==
  \A t \in Task :
    /\ at[t] \in Using => /\ held[t] \in Conn
                          /\ sockets[held[t]] # "none"
                          /\ peer[held[t]] = PeerOf[t]
    /\ at[t] \notin Using => held[t] = NoConn

\* So has a queue.
Pooled ==
  \A p \in Peer : \A i \in DOMAIN pools[p] :
    /\ sockets[pools[p][i]] # "none"
    /\ peer[pools[p][i]] = p

\* What only a closed pool does.
Closing ==
  (\E t \in Task : at[t] = "lastclose") \/ shutdown.step # "running" => closed

\* The places of a peer that are in use, or lost.
Places(p) == Cardinality(Live(p)) + Cardinality(Between(p)) + lost[p]

\* A closed pool no longer gives places back.
Accounts ==
  \A p \in Peer : Places(p) <= active[p] /\ (~closed => Places(p) = active[p])

Conns == Holding /\ Pooled /\ NoConnectionShared
PoolInv == TypeOK /\ Conns /\ Closing /\ Accounts

LEMMA InitHolds == Init => PoolInv
<1> SUFFICES ASSUME Init
             PROVE  PoolInv
  OBVIOUS
<1>1. TypeOK
  <2>1. (CHOOSE p \in Peer : TRUE) \in Peer
    BY PoolAssumption
  <2>2. peer \in [Conn -> Peer]
    BY <2>1 DEF Init
  <2>3. pools \in [Peer -> Seq(Conn)] /\ active \in [Peer -> 0 .. MaxPerPeer]
    BY PoolAssumption DEF Init
  <2>4. lock \in Task \cup {Free, Closer} /\ closed \in BOOLEAN
        /\ shutdown = [step |-> "running", left |-> Peer]
    BY DEF Init
  <2>5. at \in [Task -> Place] /\ held \in [Task -> Conn \cup {NoConn}]
    BY DEF Init, Place
  <2>6. sockets \in [Conn -> {"none", "open", "dead"}] /\ lost \in [Peer -> Nat]
    BY DEF Init
  <2> QED
    BY <2>2, <2>3, <2>4, <2>5, <2>6 DEF TypeOK
<1>2. Conns /\ Closing
  BY DEF Init, Conns, Holding, Pooled, NoConnectionShared, Closing, Using
<1>3. \A p \in Peer : Live(p) = {} /\ Between(p) = {}
  BY DEF Init, Live, Between
<1>4. Accounts
  <2>1. ASSUME NEW p \in Peer
        PROVE  Places(p) = 0
    <3>1. Cardinality(Live(p)) = 0 /\ Cardinality(Between(p)) = 0
      BY <1>3, FS_EmptySet
    <3> QED
      BY <3>1 DEF Init, Places
  <2> QED
    BY <2>1 DEF Init, Accounts
<1> QED
  BY <1>1, <1>2, <1>4 DEF PoolInv

---------------------------------------------------------------------------
\* How steps count: sockets that open and close, tasks that enter and leave a gap.

LEMMA Counts ==
  ASSUME NEW p \in Peer
  PROVE  /\ IsFiniteSet(Live(p)) /\ Cardinality(Live(p)) \in Nat
         /\ IsFiniteSet(Between(p)) /\ Cardinality(Between(p)) \in Nat
<1>1. IsFiniteSet(Live(p)) /\ IsFiniteSet(Between(p))
  BY PoolAssumption, FS_Subset DEF Live, Between
<1> QED
  BY <1>1, FS_CardinalityType

LEMMA CountsNext ==
  ASSUME NEW p \in Peer
  PROVE  Cardinality(Live(p)') \in Nat /\ Cardinality(Between(p)') \in Nat
<1>1. IsFiniteSet(Live(p)') /\ IsFiniteSet(Between(p)')
  BY PoolAssumption, FS_Subset DEF Live, Between
<1> QED
  BY <1>1, FS_CardinalityType

LEMMA SocketCloses ==
  ASSUME TypeOK, NEW c \in Conn, sockets[c] # "none", CloseSocket(c), UNCHANGED peer,
         NEW p \in Peer
  PROVE  Cardinality(Live(p)') =
           IF peer[c] = p THEN Cardinality(Live(p)) - 1 ELSE Cardinality(Live(p))
<1>1. CASE peer[c] = p
  <2>1. Live(p)' = Live(p) \ {c} /\ c \in Live(p)
    BY <1>1 DEF Live, CloseSocket, TypeOK
  <2> QED
    BY <1>1, <2>1, Counts, FS_RemoveElement
<1>2. CASE peer[c] # p
  <2>1. Live(p)' = Live(p)
    BY <1>2 DEF Live, CloseSocket, TypeOK
  <2> QED
    BY <1>2, <2>1
<1> QED
  BY <1>1, <1>2

LEMMA SocketOpens ==
  ASSUME TypeOK, NEW c \in Conn, NEW q \in Peer, sockets[c] = "none",
         sockets' = [sockets EXCEPT ![c] = "open"], peer' = [peer EXCEPT ![c] = q],
         NEW p \in Peer
  PROVE  Cardinality(Live(p)') =
           IF q = p THEN Cardinality(Live(p)) + 1 ELSE Cardinality(Live(p))
<1>1. CASE q = p
  <2>1. Live(p)' = Live(p) \cup {c} /\ c \notin Live(p)
    BY <1>1 DEF Live, TypeOK
  <2> QED
    BY <1>1, <2>1, Counts, FS_AddElement
<1>2. CASE q # p
  <2>1. Live(p)' = Live(p)
    BY <1>2 DEF Live, TypeOK
  <2> QED
    BY <1>2, <2>1
<1> QED
  BY <1>1, <1>2

LEMMA GapOpens ==
  ASSUME TypeOK, NEW t \in Task, NEW place \in Gap, GoTo(t, place), at[t] \notin Gap,
         NEW p \in Peer
  PROVE  Cardinality(Between(p)') =
           IF PeerOf[t] = p THEN Cardinality(Between(p)) + 1 ELSE Cardinality(Between(p))
<1>1. CASE PeerOf[t] = p
  <2>1. Between(p)' = Between(p) \cup {t} /\ t \notin Between(p)
    BY <1>1 DEF Between, GoTo, Gap, TypeOK
  <2> QED
    BY <1>1, <2>1, Counts, FS_AddElement
<1>2. CASE PeerOf[t] # p
  <2>1. Between(p)' = Between(p)
    BY <1>2 DEF Between, GoTo, TypeOK
  <2> QED
    BY <1>2, <2>1
<1> QED
  BY <1>1, <1>2

LEMMA GapCloses ==
  ASSUME TypeOK, NEW t \in Task, NEW place \in Place \ Gap, GoTo(t, place), at[t] \in Gap,
         NEW p \in Peer
  PROVE  Cardinality(Between(p)') =
           IF PeerOf[t] = p THEN Cardinality(Between(p)) - 1 ELSE Cardinality(Between(p))
<1>1. CASE PeerOf[t] = p
  <2>1. Between(p)' = Between(p) \ {t} /\ t \in Between(p)
    BY <1>1 DEF Between, GoTo, Gap, TypeOK
  <2> QED
    BY ZenonT(30), <1>1, <2>1, Counts, FS_RemoveElement
<1>2. CASE PeerOf[t] # p
  <2>1. Between(p)' = Between(p)
    BY <1>2 DEF Between, GoTo, TypeOK
  <2> QED
    BY <1>2, <2>1
<1> QED
  BY <1>1, <1>2

LEMMA GapStays ==
  ASSUME TypeOK, NEW t \in Task, NEW place \in Place, GoTo(t, place),
         at[t] \in Gap <=> place \in Gap,
         NEW p \in Peer
  PROVE  Between(p)' = Between(p)
BY DEF Between, GoTo, Gap, TypeOK

---------------------------------------------------------------------------
\* How steps move connections: none does, one comes from a queue, one is closed,
\* one is made, one goes back to its queue.

LEMMA ConnsKept ==
  ASSUME Conns, UNCHANGED <<pools, at, held, sockets, peer>>
  PROVE  Conns'
<1>1. Holding'
  BY DEF Conns, Holding
<1>2. Pooled' /\ NoConnectionShared'
  BY DEF Conns, Pooled, NoConnectionShared
<1> QED
  BY <1>1, <1>2 DEF Conns

LEMMA TaskMoves ==
  ASSUME TypeOK, Conns, NEW t \in Task, NEW place \in Place, GoTo(t, place),
         at[t] \in Using <=> place \in Using,
         UNCHANGED <<pools, held, sockets, peer>>
  PROVE  Conns'
<1>1. Holding'
  BY DEF Conns, Holding, GoTo, TypeOK
<1>2. Pooled' /\ NoConnectionShared'
  BY DEF Conns, Pooled, NoConnectionShared
<1> QED
  BY <1>1, <1>2 DEF Conns

LEMMA QueueFacts ==
  ASSUME NEW q \in Seq(Conn), q # <<>>
  PROVE  /\ Head(q) \in Conn /\ Head(q) = q[1] /\ 1 \in DOMAIN q
         /\ Tail(q) \in Seq(Conn)
         /\ \A i \in DOMAIN Tail(q) :
              i \in Nat /\ i + 1 \in DOMAIN q /\ i + 1 # 1 /\ Tail(q)[i] = q[i + 1]
OBVIOUS

LEMMA ConnectionTaken ==
  ASSUME TypeOK, Conns, NEW t \in Task, NEW place \in Using, GoTo(t, place),
         at[t] \notin Using, pools[PeerOf[t]] # <<>>,
         held' = [held EXCEPT ![t] = Head(pools[PeerOf[t]])],
         pools' = [pools EXCEPT ![PeerOf[t]] = Tail(@)],
         UNCHANGED <<sockets, peer>>
  PROVE  Conns'
<1> DEFINE p == PeerOf[t]
           q == pools[p]
<1>1. p \in Peer /\ q \in Seq(Conn) /\ q # <<>>
  BY PoolAssumption DEF TypeOK
<1>2. /\ Head(q) \in Conn /\ Head(q) = q[1] /\ 1 \in DOMAIN q
      /\ \A i \in DOMAIN Tail(q) :
           i \in Nat /\ i + 1 \in DOMAIN q /\ i + 1 # 1 /\ Tail(q)[i] = q[i + 1]
  BY <1>1, QueueFacts
<1>3. sockets[Head(q)] # "none" /\ peer[Head(q)] = p
  BY <1>1, <1>2 DEF Conns, Pooled
<1>4. /\ held'[t] = Head(q) /\ \A u \in Task : u # t => held'[u] = held[u]
      /\ pools'[p] = Tail(q) /\ \A r \in Peer : r # p => pools'[r] = pools[r]
  BY <1>1 DEF TypeOK
<1>5. \A u \in Task : held[u] # Head(q)
  BY <1>1, <1>2 DEF Conns, NoConnectionShared
<1>6. Holding'
  BY <1>2, <1>3, <1>4 DEF Conns, Holding, GoTo, TypeOK
<1>7. Pooled'
  BY <1>1, <1>2, <1>4 DEF Conns, Pooled
<1>8. \A r \in Peer : \A i \in DOMAIN pools'[r] : pools'[r][i] # Head(q)
  <2>1. \A i \in DOMAIN pools'[p] : pools'[p][i] # Head(q)
    <3>1. \A i \in DOMAIN q : q[i] = q[1] => i = 1
      BY <1>1, <1>2 DEF Conns, NoConnectionShared
    <3>2. \A i \in DOMAIN Tail(q) : Tail(q)[i] # Head(q)
      BY <3>1, <1>2
    <3> QED
      BY <3>2, <1>4
  <2>2. \A r \in Peer : r # p => \A i \in DOMAIN pools'[r] : pools'[r][i] # Head(q)
    BY <1>3, <1>4 DEF Conns, Pooled
  <2> QED
    BY <2>1, <2>2
<1>9. NoConnectionShared'
  <2>1. \A u, v \in Task : u # v /\ held'[u] # NoConn => held'[u] # held'[v]
    BY <1>4, <1>5 DEF Conns, NoConnectionShared
  <2>2. \A r \in Peer : \A i, j \in DOMAIN pools'[r] : pools'[r][i] = pools'[r][j] => i = j
    <3>1. \A i, j \in DOMAIN Tail(q) : Tail(q)[i] = Tail(q)[j] => i = j
      BY <1>1, <1>2 DEF Conns, NoConnectionShared
    <3> QED
      BY <3>1, <1>4 DEF Conns, NoConnectionShared
  <2>3. \A r \in Peer : \A i \in DOMAIN pools'[r], u \in Task : pools'[r][i] # held'[u]
    <3>1. \A i \in DOMAIN Tail(q), u \in Task : Tail(q)[i] # held[u]
      BY <1>1, <1>2 DEF Conns, NoConnectionShared
    <3> QED
      BY <3>1, <1>4, <1>8 DEF Conns, NoConnectionShared
  <2> QED
    BY <2>1, <2>2, <2>3 DEF NoConnectionShared
<1> QED
  BY <1>6, <1>7, <1>9 DEF Conns

LEMMA ConnectionClosed ==
  ASSUME TypeOK, Conns, NEW t \in Task, NEW place \in Place \ Using, GoTo(t, place),
         at[t] \in Using, CloseSocket(held[t]), Drop(t),
         UNCHANGED <<pools, peer>>
  PROVE  Conns'
<1> DEFINE c == held[t]
<1>1. c \in Conn /\ c # NoConn
  BY PoolAssumption DEF Conns, Holding
<1>2. /\ sockets'[c] = "none" /\ \A d \in Conn : d # c => sockets'[d] = sockets[d]
      /\ held'[t] = NoConn /\ \A u \in Task : u # t => held'[u] = held[u] /\ held[u] # c
  BY <1>1 DEF CloseSocket, Drop, TypeOK, Conns, NoConnectionShared
<1>3. \A p \in Peer : \A i \in DOMAIN pools[p] : pools[p][i] \in Conn /\ pools[p][i] # c
  BY DEF Conns, NoConnectionShared, TypeOK
<1>4. Holding'
  BY <1>1, <1>2 DEF Conns, Holding, GoTo, TypeOK
<1>5. Pooled'
  BY <1>2, <1>3 DEF Conns, Pooled
<1>6. NoConnectionShared'
  BY <1>2, <1>3, PoolAssumption DEF Conns, NoConnectionShared
<1> QED
  BY <1>4, <1>5, <1>6 DEF Conns

LEMMA ConnectionMade ==
  ASSUME TypeOK, Conns, NEW t \in Task, GoTo(t, "use"), at[t] \notin Using,
         NEW c \in Conn, sockets[c] = "none",
         sockets' = [sockets EXCEPT ![c] = "open"],
         peer' = [peer EXCEPT ![c] = PeerOf[t]],
         held' = [held EXCEPT ![t] = c],
         UNCHANGED pools
  PROVE  Conns'
<1>1. /\ \A u \in Task : held[u] # c
      /\ \A p \in Peer : \A i \in DOMAIN pools[p] : pools[p][i] # c /\ pools[p][i] \in Conn
  BY PoolAssumption DEF Conns, Holding, Pooled, TypeOK
<1>2. /\ sockets'[c] = "open" /\ peer'[c] = PeerOf[t]
      /\ \A d \in Conn : d # c => sockets'[d] = sockets[d] /\ peer'[d] = peer[d]
      /\ held'[t] = c /\ \A u \in Task : u # t => held'[u] = held[u]
  BY DEF TypeOK
<1>3. Holding'
  BY <1>1, <1>2 DEF Conns, Holding, GoTo, TypeOK, Using
<1>4. Pooled'
  BY <1>1, <1>2 DEF Conns, Pooled
<1>5. NoConnectionShared'
  BY <1>1, <1>2 DEF Conns, NoConnectionShared
<1> QED
  BY <1>3, <1>4, <1>5 DEF Conns

LEMMA ConnectionReturned ==
  ASSUME TypeOK, Conns, NEW t \in Task, GoTo(t, "idle"), at[t] \in Using,
         pools' = [pools EXCEPT ![PeerOf[t]] = Append(@, held[t])], Drop(t),
         UNCHANGED <<sockets, peer>>
  PROVE  Conns'
<1> DEFINE p == PeerOf[t]
           q == pools[p]
           c == held[t]
<1>1. /\ p \in Peer /\ q \in Seq(Conn) /\ c \in Conn /\ c # NoConn
      /\ sockets[c] # "none" /\ peer[c] = p
  BY PoolAssumption DEF TypeOK, Conns, Holding
<1>2. /\ held'[t] = NoConn /\ \A u \in Task : u # t => held'[u] = held[u] /\ held[u] # c
      /\ pools'[p] = Append(q, c) /\ \A r \in Peer : r # p => pools'[r] = pools[r]
  BY <1>1 DEF Drop, TypeOK, Conns, NoConnectionShared
<1>3. /\ DOMAIN Append(q, c) = DOMAIN q \cup {Len(q) + 1}
      /\ Append(q, c)[Len(q) + 1] = c
      /\ \A i \in DOMAIN q : Append(q, c)[i] = q[i] /\ i # Len(q) + 1
  BY <1>1
<1>4. \A r \in Peer : \A i \in DOMAIN pools[r] : pools[r][i] \in Conn /\ pools[r][i] # c
  BY <1>1 DEF Conns, NoConnectionShared, TypeOK
<1>5. Holding'
  BY <1>2 DEF Conns, Holding, GoTo, TypeOK, Using
<1>6. Pooled'
  BY <1>1, <1>2, <1>3 DEF Conns, Pooled
<1>7. NoConnectionShared'
  <2>1. \A u, v \in Task : u # v /\ held'[u] # NoConn => held'[u] # held'[v]
    BY <1>2 DEF Conns, NoConnectionShared
  <2>2. \A r \in Peer : \A i, j \in DOMAIN pools'[r] : pools'[r][i] = pools'[r][j] => i = j
    BY <1>1, <1>2, <1>3, <1>4 DEF Conns, NoConnectionShared
  <2>3. \A r \in Peer : \A i \in DOMAIN pools'[r], u \in Task : pools'[r][i] # held'[u]
    BY <1>1, <1>2, <1>3, <1>4, PoolAssumption DEF Conns, NoConnectionShared
  <2> QED
    BY <2>1, <2>2, <2>3 DEF NoConnectionShared
<1> QED
  BY <1>5, <1>6, <1>7 DEF Conns

LEMMA ConnectionDrained ==
  ASSUME TypeOK, Conns, NEW p \in Peer, pools[p] # <<>>, CloseSocket(Head(pools[p])),
         pools' = [pools EXCEPT ![p] = Tail(@)],
         UNCHANGED <<at, held, peer>>
  PROVE  /\ Conns'
         /\ Head(pools[p]) \in Conn /\ sockets[Head(pools[p])] # "none"
         /\ peer[Head(pools[p])] = p
<1> DEFINE q == pools[p]
           c == Head(q)
<1>1. q \in Seq(Conn) /\ q # <<>>
  BY DEF TypeOK
<1>2. /\ c \in Conn /\ c = q[1] /\ 1 \in DOMAIN q
      /\ \A i \in DOMAIN Tail(q) :
           i \in Nat /\ i + 1 \in DOMAIN q /\ i + 1 # 1 /\ Tail(q)[i] = q[i + 1]
  BY <1>1, QueueFacts
<1>3. sockets[c] # "none" /\ peer[c] = p
  BY <1>2 DEF Conns, Pooled
<1>4. /\ \A d \in Conn : d # c => sockets'[d] = sockets[d]
      /\ pools'[p] = Tail(q) /\ \A r \in Peer : r # p => pools'[r] = pools[r]
  BY DEF TypeOK, CloseSocket
<1>5. \A u \in Task : held[u] # c
  BY <1>2 DEF Conns, NoConnectionShared
<1>6. /\ \A i, j \in DOMAIN Tail(q) : Tail(q)[i] = Tail(q)[j] => i = j
      /\ \A i \in DOMAIN Tail(q) : Tail(q)[i] # c /\ Tail(q)[i] \in Conn
      /\ \A i \in DOMAIN Tail(q), u \in Task : Tail(q)[i] # held[u]
  <2>1. /\ \A i, j \in DOMAIN q : q[i] = q[j] => i = j
        /\ \A i \in DOMAIN q : q[i] \in Conn
        /\ \A i \in DOMAIN q, u \in Task : q[i] # held[u]
    BY <1>1 DEF Conns, NoConnectionShared
  <2> QED
    BY <1>2, <2>1
<1>7. \A r \in Peer : r # p =>
        \A i \in DOMAIN pools[r] : pools[r][i] # c /\ pools[r][i] \in Conn
  <2>1. \A r \in Peer : \A i \in DOMAIN pools[r] :
          pools[r][i] \in Conn /\ peer[pools[r][i]] = r
    BY DEF Conns, Pooled, TypeOK
  <2> QED
    BY <1>3, <2>1
<1>8. Holding'
  BY <1>4, <1>5 DEF Conns, Holding, TypeOK
<1>9. Pooled'
  <2>1. \A i \in DOMAIN pools'[p] : sockets'[pools'[p][i]] # "none" /\ peer[pools'[p][i]] = p
    <3>1. \A i \in DOMAIN Tail(q) : sockets[Tail(q)[i]] # "none" /\ peer[Tail(q)[i]] = p
      BY <1>2 DEF Conns, Pooled
    <3> QED
      BY ONLY <3>1, <1>4, <1>6
  <2>2. \A r \in Peer : r # p => \A i \in DOMAIN pools'[r] :
          sockets'[pools'[r][i]] # "none" /\ peer[pools'[r][i]] = r
    BY <1>4, <1>7 DEF Conns, Pooled
  <2> QED
    BY <2>1, <2>2 DEF Pooled
<1>10. NoConnectionShared'
  <2>1. /\ \A i, j \in DOMAIN pools'[p] : pools'[p][i] = pools'[p][j] => i = j
        /\ \A i \in DOMAIN pools'[p], u \in Task : pools'[p][i] # held[u]
    BY ONLY <1>4, <1>6
  <2> QED
    BY <2>1, <1>4 DEF Conns, NoConnectionShared
<1> QED
  BY <1>2, <1>3, <1>8, <1>9, <1>10 DEF Conns

---------------------------------------------------------------------------
\* How steps account for places.

\* Places taken or given back are places gained or lost.
LEMMA Balanced ==
  ASSUME TypeOK, TypeOK', Accounts, UNCHANGED closed,
         \A p \in Peer :
           Cardinality(Live(p)') + Cardinality(Between(p)') + lost'[p] - active'[p]
             = Cardinality(Live(p)) + Cardinality(Between(p)) + lost[p] - active[p]
  PROVE  Accounts'
<1>1. ASSUME NEW p \in Peer
      PROVE  /\ Cardinality(Live(p)) \in Nat /\ Cardinality(Between(p)) \in Nat
             /\ Cardinality(Live(p)') \in Nat /\ Cardinality(Between(p)') \in Nat
             /\ lost[p] \in Nat /\ lost'[p] \in Nat
             /\ active[p] \in Nat /\ active'[p] \in Nat
  <2>1. /\ Cardinality(Live(p)) \in Nat /\ Cardinality(Between(p)) \in Nat
        /\ Cardinality(Live(p)') \in Nat /\ Cardinality(Between(p)') \in Nat
    BY Counts, CountsNext
  <2> QED
    BY <2>1, PoolAssumption DEF TypeOK
<1>2. ASSUME NEW p \in Peer
      PROVE  Places(p)' - active'[p] = Places(p) - active[p]
  BY <1>1 DEF Places
<1>3. ASSUME NEW p \in Peer
      PROVE  /\ Places(p) \in Int /\ Places(p)' \in Int
             /\ active[p] \in Nat /\ active'[p] \in Nat
  BY <1>1 DEF Places
<1> QED
  BY <1>2, <1>3 DEF Accounts

\* A closed pool closes a connection and keeps its place.
LEMMA PlaceKept ==
  ASSUME TypeOK, TypeOK', Accounts, closed, closed', UNCHANGED <<active, lost>>,
         \A p \in Peer : /\ Cardinality(Live(p)') <= Cardinality(Live(p))
                         /\ Between(p)' = Between(p)
  PROVE  Accounts'
<1>1. ASSUME NEW p \in Peer
      PROVE  /\ Cardinality(Live(p)) \in Nat /\ Cardinality(Between(p)) \in Nat
             /\ Cardinality(Live(p)') \in Nat /\ lost[p] \in Nat /\ active[p] \in Nat
  <2>1. /\ Cardinality(Live(p)) \in Nat /\ Cardinality(Between(p)) \in Nat
        /\ Cardinality(Live(p)') \in Nat
    BY Counts, CountsNext
  <2> QED
    BY <2>1, PoolAssumption DEF TypeOK
<1>2. ASSUME NEW p \in Peer
      PROVE  Places(p)' <= Places(p) /\ Places(p)' \in Int /\ Places(p) \in Int
  BY <1>1 DEF Places
<1> QED
  BY <1>1, <1>2 DEF Accounts

---------------------------------------------------------------------------
\* The steps of a task keep the types.  A place that is given back was counted.

LEMMA TaskTypes ==
  ASSUME TypeOK, Conns, NEW t \in Task, Request(t) \/ Return(t) \/ Run(t) \/ WithLock(t)
  PROVE  TypeOK'
<1> DEFINE p == PeerOf[t]
<1>1. p \in Peer /\ pools[p] \in Seq(Conn) /\ active[p] \in 0 .. MaxPerPeer
      /\ lost[p] \in Nat /\ MaxPerPeer \in Nat /\ NoConn \in Conn \cup {NoConn}
  BY PoolAssumption DEF TypeOK
<1>2. pools[p] # <<>> => Head(pools[p]) \in Conn /\ Tail(pools[p]) \in Seq(Conn)
  BY <1>1, QueueFacts
<1>3. /\ \A q \in Peer : Released(q) \in [Peer -> 0 .. MaxPerPeer]
      /\ active[p] < MaxPerPeer => active[p] + 1 \in 0 .. MaxPerPeer
  BY <1>1 DEF TypeOK, Released
<1>4. at' \in [Task -> Place]
  BY ZenonT(30) DEF TypeOK, GoTo, Place, Request, Return, Run, WithLock, CheckPooled, ClosePooled,
     TakeReturned, WaitTimesOut, CheckReturned, CloseReturned, Create, CloseLast, PutBack,
     CheckBack, CloseBack, Enter, Forget, ReservePlace, AwaitConnection, UndoReserve,
     ForgetBack, GiveBack, Healthy, Unhealthy, HealthRaises
<1>5. /\ lock' \in Task \cup {Free, Closer} /\ closed' \in BOOLEAN
      /\ shutdown' \in [step : {"running", "asked", "draining", "done"}, left : SUBSET Peer]
  BY DEF TypeOK, Request, Return, Run, WithLock, CheckPooled, ClosePooled,
     TakeReturned, WaitTimesOut, CheckReturned, CloseReturned, Create, CloseLast, PutBack,
     CheckBack, CloseBack, Enter, Forget, ReservePlace, AwaitConnection, UndoReserve,
     ForgetBack, GiveBack
<1>6. sockets' \in [Conn -> {"none", "open", "dead"}] /\ peer' \in [Conn -> Peer]
  BY <1>1 DEF TypeOK, CloseSocket, Request, Return, Run, WithLock, CheckPooled, ClosePooled,
     TakeReturned, WaitTimesOut, CheckReturned, CloseReturned, Create, CloseLast, PutBack,
     CheckBack, CloseBack, Enter, Forget, ReservePlace, AwaitConnection, UndoReserve,
     ForgetBack, GiveBack, HealthRaises
<1>7. lost' \in [Peer -> Nat]
  BY <1>1 DEF TypeOK, Request, Return, Run, WithLock, CheckPooled, ClosePooled,
     TakeReturned, WaitTimesOut, CheckReturned, CloseReturned, Create, CloseLast, PutBack,
     CheckBack, CloseBack, Enter, Forget, ReservePlace, AwaitConnection, UndoReserve,
     ForgetBack, GiveBack, HealthRaises
<1>8. active' \in [Peer -> 0 .. MaxPerPeer]
  BY <1>1, <1>3 DEF TypeOK, Request, Return, Run, WithLock, CheckPooled, ClosePooled,
     TakeReturned, WaitTimesOut, CheckReturned, CloseReturned, Create, CloseLast, PutBack,
     CheckBack, CloseBack, Enter, Forget, ReservePlace, AwaitConnection, UndoReserve,
     ForgetBack, GiveBack
<1>9. held' \in [Task -> Conn \cup {NoConn}]
  BY <1>1, <1>2 DEF TypeOK, Drop, Request, Return, Run, WithLock, CheckPooled, ClosePooled,
     TakeReturned, WaitTimesOut, CheckReturned, CloseReturned, Create, CloseLast, PutBack,
     CheckBack, CloseBack, Enter, Forget, ReservePlace, AwaitConnection, UndoReserve,
     ForgetBack, GiveBack, HealthRaises
<1>10. pools' \in [Peer -> Seq(Conn)]
  <2>1. at[t] \in Using => Append(pools[p], held[t]) \in Seq(Conn)
    BY <1>1 DEF Conns, Holding
  <2>2. CASE PutBack(t)
    BY <1>1, <2>1, <2>2 DEF PutBack, Healthy, TypeOK, Using
  <2>3. CASE TakeReturned(t) \/ Enter(t)
    BY <1>1, <1>2, <2>3 DEF TakeReturned, Enter, TypeOK
  <2>4. CASE UNCHANGED pools
    BY <2>4 DEF TypeOK
  <2> QED
    BY <2>2, <2>3, <2>4 DEF Request, Return, Run, WithLock, CheckPooled, ClosePooled,
       WaitTimesOut, CheckReturned, CloseReturned, Create, CloseLast, CheckBack, CloseBack,
       Forget, ReservePlace, AwaitConnection, UndoReserve, ForgetBack, GiveBack
<1> QED
  BY <1>4, <1>5, <1>6, <1>7, <1>8, <1>9, <1>10 DEF TypeOK

---------------------------------------------------------------------------
\* The steps of a task, by what they do with connections and places.

LEMMA LiveKept ==
  ASSUME UNCHANGED <<sockets, peer>>, NEW p \in Peer
  PROVE  Live(p)' = Live(p)
BY DEF Live

\* It goes on without or with the same connection, and with or without a place.
LEMMA TaskGoesOn ==
  ASSUME PoolInv, TypeOK', NEW t \in Task, NEW place \in Place, GoTo(t, place),
         at[t] \in Using <=> place \in Using, at[t] \in Gap <=> place \in Gap,
         place = "lastclose" => closed,
         UNCHANGED <<pools, held, sockets, peer, active, lost, closed, shutdown>>
  PROVE  PoolInv'
<1>1. Conns'
  BY TaskMoves DEF PoolInv
<1>2. Closing'
  BY DEF PoolInv, Closing, GoTo, TypeOK
<1>3. \A p \in Peer : Live(p)' = Live(p) /\ Between(p)' = Between(p)
  BY LiveKept, GapStays DEF PoolInv
<1>4. Accounts'
  BY <1>3, Balanced DEF PoolInv
<1> QED
  BY <1>1, <1>2, <1>4 DEF PoolInv

\* It takes a connection out of the queue.
LEMMA TaskTakes ==
  ASSUME PoolInv, TypeOK', NEW t \in Task, NEW place \in {"check", "recheck"},
         GoTo(t, place), at[t] \in {"enter", "wait"}, pools[PeerOf[t]] # <<>>,
         held' = [held EXCEPT ![t] = Head(pools[PeerOf[t]])],
         pools' = [pools EXCEPT ![PeerOf[t]] = Tail(@)],
         UNCHANGED <<sockets, peer, active, lost, closed, shutdown>>
  PROVE  PoolInv'
<1>1. Conns'
  BY ConnectionTaken DEF PoolInv, Using
<1>2. Closing'
  BY DEF PoolInv, Closing, GoTo, TypeOK
<1>3. \A p \in Peer : Live(p)' = Live(p) /\ Between(p)' = Between(p)
  BY LiveKept, GapStays DEF PoolInv, Gap, Place
<1>4. Accounts'
  BY <1>3, Balanced DEF PoolInv
<1> QED
  BY <1>1, <1>2, <1>4 DEF PoolInv

\* It closes its connection and makes another, or gives its place back.
LEMMA TaskCloses ==
  ASSUME PoolInv, TypeOK', NEW t \in Task, NEW place \in Gap,
         GoTo(t, place), at[t] \in Using, CloseSocket(held[t]), Drop(t),
         UNCHANGED <<pools, peer, active, lost, closed, shutdown>>
  PROVE  PoolInv'
<1>1. Conns'
  BY ConnectionClosed DEF PoolInv, Using, Gap, Place
<1>2. Closing'
  BY DEF PoolInv, Closing, GoTo, TypeOK, Gap
<1>3. held[t] \in Conn /\ sockets[held[t]] # "none" /\ peer[held[t]] = PeerOf[t]
  BY DEF PoolInv, Conns, Holding
<1>4. at[t] \notin Gap
  BY DEF Using, Gap
<1>5. ASSUME NEW p \in Peer
      PROVE  Cardinality(Live(p)') + Cardinality(Between(p)') + lost'[p] - active'[p]
               = Cardinality(Live(p)) + Cardinality(Between(p)) + lost[p] - active[p]
  <2>1. Cardinality(Live(p)') =
          IF PeerOf[t] = p THEN Cardinality(Live(p)) - 1 ELSE Cardinality(Live(p))
    BY <1>3, SocketCloses DEF PoolInv
  <2>2. Cardinality(Between(p)') =
          IF PeerOf[t] = p THEN Cardinality(Between(p)) + 1 ELSE Cardinality(Between(p))
    BY <1>4, GapOpens DEF PoolInv
  <2>3. lost[p] \in Nat /\ active[p] \in Nat
    BY PoolAssumption DEF PoolInv, TypeOK
  <2> QED
    BY <2>1, <2>2, <2>3, Counts
<1>6. Accounts'
  BY <1>5, Balanced DEF PoolInv
<1> QED
  BY <1>1, <1>2, <1>6 DEF PoolInv

\* An exception ends it: the connection is gone and its place is lost.
LEMMA TaskRaises ==
  ASSUME PoolInv, TypeOK', NEW t \in Task,
         GoTo(t, "idle"), at[t] \in Using, CloseSocket(held[t]), Drop(t),
         lost' = [lost EXCEPT ![PeerOf[t]] = @ + 1],
         UNCHANGED <<pools, peer, active, closed, shutdown>>
  PROVE  PoolInv'
<1>1. Conns'
  BY ConnectionClosed DEF PoolInv, Using, Place
<1>2. Closing'
  BY DEF PoolInv, Closing, GoTo, TypeOK
<1>3. held[t] \in Conn /\ sockets[held[t]] # "none" /\ peer[held[t]] = PeerOf[t]
  BY DEF PoolInv, Conns, Holding
<1>4. ASSUME NEW p \in Peer
      PROVE  Cardinality(Live(p)') + Cardinality(Between(p)') + lost'[p] - active'[p]
               = Cardinality(Live(p)) + Cardinality(Between(p)) + lost[p] - active[p]
  <2>1. Cardinality(Live(p)') =
          IF PeerOf[t] = p THEN Cardinality(Live(p)) - 1 ELSE Cardinality(Live(p))
    BY <1>3, SocketCloses DEF PoolInv
  <2>2. Between(p)' = Between(p)
    BY GapStays DEF PoolInv, Using, Gap, Place
  <2>3. lost[p] \in Nat /\ active[p] \in Nat
        /\ lost'[p] = IF PeerOf[t] = p THEN lost[p] + 1 ELSE lost[p]
    BY SMTT(30), PoolAssumption DEF PoolInv, TypeOK
  <2> QED
    BY <2>1, <2>2, <2>3, Counts
<1>5. Accounts'
  BY <1>4, Balanced DEF PoolInv
<1> QED
  BY <1>1, <1>2, <1>5 DEF PoolInv

\* It gives its place back.
LEMMA TaskGivesBack ==
  ASSUME PoolInv, TypeOK', NEW t \in Task, NEW place \in Gap, NEW then \in {"idle", "reserve"},
         GiveBack(t, place, then)
  PROVE  PoolInv'
<1>1. Conns'
  BY TaskMoves DEF PoolInv, GiveBack, Using, Gap, Place
<1>2. Closing'
  BY DEF PoolInv, Closing, GiveBack, GoTo, TypeOK
<1>3. PeerOf[t] \in Peer /\ t \in Between(PeerOf[t])
  BY PoolAssumption DEF GiveBack, Gap, Between
<1>4. active[PeerOf[t]] > 0
  <2>1. Cardinality(Between(PeerOf[t])) # 0
    BY <1>3, Counts, FS_EmptySet
  <2>2. Places(PeerOf[t]) <= active[PeerOf[t]]
    BY <1>3 DEF PoolInv, Accounts
  <2> QED
    BY SMTT(30), <1>3, <2>1, <2>2, Counts, PoolAssumption DEF Places, PoolInv, TypeOK
<1>5. ASSUME NEW p \in Peer
      PROVE  Cardinality(Live(p)') + Cardinality(Between(p)') + lost'[p] - active'[p]
               = Cardinality(Live(p)) + Cardinality(Between(p)) + lost[p] - active[p]
  <2>1. Live(p)' = Live(p)
    BY LiveKept DEF GiveBack
  <2>2. Cardinality(Between(p)') =
          IF PeerOf[t] = p THEN Cardinality(Between(p)) - 1 ELSE Cardinality(Between(p))
    BY GapCloses DEF PoolInv, GiveBack, Gap, Place
  <2>3. lost[p] \in Nat /\ active[p] \in Nat /\ lost' = lost
        /\ active'[p] = IF PeerOf[t] = p THEN active[p] - 1 ELSE active[p]
    BY <1>3, <1>4, PoolAssumption DEF PoolInv, TypeOK, GiveBack, Released
  <2> QED
    BY <2>1, <2>2, <2>3, Counts
<1>6. Accounts'
  BY <1>5, Balanced DEF PoolInv, GiveBack
<1> QED
  BY <1>1, <1>2, <1>6 DEF PoolInv

LEMMA TaskReserves ==
  ASSUME PoolInv, TypeOK', NEW t \in Task, ReservePlace(t)
  PROVE  PoolInv'
<1>1. Conns'
  BY TaskMoves DEF PoolInv, ReservePlace, Using, Place
<1>2. Closing'
  BY DEF PoolInv, Closing, ReservePlace, GoTo, TypeOK
<1>3. ASSUME NEW p \in Peer
      PROVE  Cardinality(Live(p)') + Cardinality(Between(p)') + lost'[p] - active'[p]
               = Cardinality(Live(p)) + Cardinality(Between(p)) + lost[p] - active[p]
  <2>1. Live(p)' = Live(p)
    BY LiveKept DEF ReservePlace
  <2>2. Cardinality(Between(p)') =
          IF PeerOf[t] = p THEN Cardinality(Between(p)) + 1 ELSE Cardinality(Between(p))
    BY GapOpens DEF PoolInv, ReservePlace, Gap
  <2>3. lost[p] \in Nat /\ active[p] \in Nat /\ lost' = lost
        /\ active'[p] = IF PeerOf[t] = p THEN active[p] + 1 ELSE active[p]
    BY PoolAssumption DEF PoolInv, TypeOK, ReservePlace
  <2> QED
    BY <2>1, <2>2, <2>3, Counts
<1>4. Accounts'
  BY <1>3, Balanced DEF PoolInv, ReservePlace
<1> QED
  BY <1>1, <1>2, <1>4 DEF PoolInv

LEMMA TaskCreates ==
  ASSUME PoolInv, TypeOK', NEW t \in Task, Create(t)
  PROVE  PoolInv'
<1>1. at[t] = "create" /\ PeerOf[t] \in Peer
  BY PoolAssumption DEF Create
<1>2. CASE \E c \in Conn :
             /\ sockets[c] = "none"
             /\ sockets' = [sockets EXCEPT ![c] = "open"]
             /\ peer' = [peer EXCEPT ![c] = PeerOf[t]]
             /\ held' = [held EXCEPT ![t] = c]
             /\ GoTo(t, "use")
             /\ UNCHANGED lost
  <2>1. PICK c \in Conn :
             /\ sockets[c] = "none"
             /\ sockets' = [sockets EXCEPT ![c] = "open"]
             /\ peer' = [peer EXCEPT ![c] = PeerOf[t]]
             /\ held' = [held EXCEPT ![t] = c]
             /\ GoTo(t, "use")
             /\ UNCHANGED lost
    BY <1>2
  <2>2. Conns'
    BY <1>1, <2>1, ConnectionMade DEF PoolInv, Create, Using
  <2>3. Closing'
    BY <2>1 DEF PoolInv, Closing, Create, GoTo, TypeOK
  <2>4. ASSUME NEW p \in Peer
        PROVE  Cardinality(Live(p)') + Cardinality(Between(p)') + lost'[p] - active'[p]
                 = Cardinality(Live(p)) + Cardinality(Between(p)) + lost[p] - active[p]
    <3>1. Cardinality(Live(p)') =
            IF PeerOf[t] = p THEN Cardinality(Live(p)) + 1 ELSE Cardinality(Live(p))
      BY <1>1, <2>1, SocketOpens DEF PoolInv
    <3>2. Cardinality(Between(p)') =
            IF PeerOf[t] = p THEN Cardinality(Between(p)) - 1 ELSE Cardinality(Between(p))
      BY <1>1, <2>1, GapCloses DEF PoolInv, Gap, Place
    <3>3. lost[p] \in Nat /\ active[p] \in Nat /\ lost' = lost /\ active' = active
      BY <2>1, PoolAssumption DEF PoolInv, TypeOK, Create
    <3> QED
      BY <3>1, <3>2, <3>3, Counts
  <2>5. Accounts'
    BY <2>4, Balanced DEF PoolInv, Create
  <2> QED
    BY <2>2, <2>3, <2>5 DEF PoolInv
<1>3. CASE GoTo(t, "undo") /\ UNCHANGED <<sockets, peer, held, lost>>
  BY <1>1, <1>3, TaskGoesOn DEF Create, Using, Gap, Place
<1>4. CASE /\ lost' = [lost EXCEPT ![PeerOf[t]] = @ + 1] /\ GoTo(t, "idle")
           /\ UNCHANGED <<sockets, peer, held>>
  <2>1. Conns'
    BY <1>1, <1>4, TaskMoves DEF PoolInv, Create, Using, Place
  <2>2. Closing'
    BY <1>4 DEF PoolInv, Closing, Create, GoTo, TypeOK
  <2>3. ASSUME NEW p \in Peer
        PROVE  Cardinality(Live(p)') + Cardinality(Between(p)') + lost'[p] - active'[p]
                 = Cardinality(Live(p)) + Cardinality(Between(p)) + lost[p] - active[p]
    <3>1. Live(p)' = Live(p)
      BY <1>4, LiveKept
    <3>2. Cardinality(Between(p)') =
            IF PeerOf[t] = p THEN Cardinality(Between(p)) - 1 ELSE Cardinality(Between(p))
      BY <1>1, <1>4, GapCloses DEF PoolInv, Gap, Place
    <3>3. lost[p] \in Nat /\ active[p] \in Nat /\ active' = active
          /\ lost'[p] = IF PeerOf[t] = p THEN lost[p] + 1 ELSE lost[p]
      BY <1>1, <1>4, PoolAssumption DEF PoolInv, TypeOK, Create
    <3> QED
      BY <3>1, <3>2, <3>3, Counts
  <2>4. Accounts'
    BY <2>3, Balanced DEF PoolInv, Create
  <2> QED
    BY <2>1, <2>2, <2>4 DEF PoolInv
<1> QED
  BY <1>2, <1>3, <1>4 DEF Create

LEMMA TaskClosesLast ==
  ASSUME PoolInv, TypeOK', NEW t \in Task, CloseLast(t)
  PROVE  PoolInv'
<1>1. Conns'
  BY ConnectionClosed DEF PoolInv, CloseLast, Using, Place
<1>2. Closing'
  BY DEF PoolInv, Closing, CloseLast, GoTo, TypeOK
<1>3. closed
  BY DEF PoolInv, Closing, CloseLast
<1>4. held[t] \in Conn /\ sockets[held[t]] # "none"
  BY DEF PoolInv, Conns, Holding, CloseLast, Using
<1>5. ASSUME NEW p \in Peer
      PROVE  /\ Cardinality(Live(p)') <= Cardinality(Live(p))
             /\ Between(p)' = Between(p)
  BY <1>4, SocketCloses, GapStays, Counts DEF PoolInv, CloseLast, Gap, Place
<1>6. Accounts'
  BY <1>3, <1>5, PlaceKept DEF PoolInv, CloseLast
<1> QED
  BY <1>1, <1>2, <1>6 DEF PoolInv

LEMMA TaskPutsBack ==
  ASSUME PoolInv, TypeOK', NEW t \in Task, PutBack(t)
  PROVE  PoolInv'
<1>1. CASE Len(pools[PeerOf[t]]) < MaxPerPeer
  <2>1. Conns'
    BY <1>1, ConnectionReturned DEF PoolInv, PutBack, Healthy, Using
  <2>2. Closing'
    BY <1>1 DEF PoolInv, Closing, PutBack, Healthy, GoTo, TypeOK
  <2>3. \A p \in Peer : Live(p)' = Live(p) /\ Between(p)' = Between(p)
    BY <1>1, LiveKept, GapStays DEF PoolInv, PutBack, Healthy, Gap, Place
  <2>4. Accounts'
    BY <2>3, Balanced DEF PoolInv, PutBack
  <2> QED
    BY <2>1, <2>2, <2>4 DEF PoolInv
<1>2. CASE ~(Len(pools[PeerOf[t]]) < MaxPerPeer)
  BY <1>2, TaskGoesOn DEF PutBack, Healthy, Using, Gap, Place
<1> QED
  BY <1>1, <1>2

---------------------------------------------------------------------------
LEMMA TaskStep ==
  ASSUME PoolInv, NEW t \in Task, Request(t) \/ Return(t) \/ Run(t) \/ WithLock(t)
  PROVE  PoolInv'
<1>1. TypeOK'
  BY TaskTypes DEF PoolInv
<1>2. CASE Request(t)
  BY <1>1, <1>2, TaskGoesOn DEF Request, Using, Gap, Place
<1>3. CASE Return(t)
  BY <1>1, <1>3, TaskGoesOn DEF Return, Using, Gap, Place
<1>4. CASE Enter(t)
  <2>1. CASE pools[PeerOf[t]] = <<>>
    BY <1>1, <1>4, <2>1, TaskGoesOn DEF Enter, Using, Gap, Place
  <2>2. CASE pools[PeerOf[t]] # <<>>
    BY <1>1, <1>4, <2>2, TaskTakes DEF Enter
  <2> QED
    BY <2>1, <2>2
<1>5. CASE CheckPooled(t)
  <2>1. CASE HealthRaises(t, "check")
    BY <1>1, <1>5, <2>1, TaskRaises DEF CheckPooled, HealthRaises, Using
  <2>2. CASE ~HealthRaises(t, "check")
    BY <1>1, <1>5, <2>2, TaskGoesOn DEF CheckPooled, Healthy, Unhealthy, Using, Gap, Place
  <2> QED
    BY <2>1, <2>2
<1>6. CASE CheckReturned(t)
  <2>1. CASE HealthRaises(t, "recheck")
    BY <1>1, <1>6, <2>1, TaskRaises DEF CheckReturned, HealthRaises, Using
  <2>2. CASE ~HealthRaises(t, "recheck")
    BY <1>1, <1>6, <2>2, TaskGoesOn DEF CheckReturned, Healthy, Unhealthy, Using, Gap, Place
  <2> QED
    BY <2>1, <2>2
<1>7. CASE CheckBack(t)
  <2>1. CASE HealthRaises(t, "backcheck")
    BY <1>1, <1>7, <2>1, TaskRaises DEF CheckBack, HealthRaises, Using
  <2>2. CASE ~HealthRaises(t, "backcheck")
    BY <1>1, <1>7, <2>2, TaskGoesOn DEF CheckBack, Unhealthy, Using, Gap, Place
  <2> QED
    BY <2>1, <2>2
<1>8. CASE TakeReturned(t)
  BY <1>1, <1>8, TaskTakes DEF TakeReturned
<1>9. CASE ClosePooled(t) \/ CloseReturned(t) \/ CloseBack(t)
  BY <1>1, <1>9, TaskCloses DEF ClosePooled, CloseReturned, CloseBack, Using, Gap
<1>10. CASE WaitTimesOut(t) \/ AwaitConnection(t)
  BY <1>1, <1>10, TaskGoesOn DEF WaitTimesOut, AwaitConnection, Using, Gap, Place
<1>11. CASE Forget(t) \/ UndoReserve(t) \/ ForgetBack(t)
  BY <1>1, <1>11, TaskGivesBack DEF Forget, UndoReserve, ForgetBack, Gap
<1>12. CASE ReservePlace(t) \/ Create(t) \/ CloseLast(t) \/ PutBack(t)
  BY <1>1, <1>12, TaskReserves, TaskCreates, TaskClosesLast, TaskPutsBack
<1> QED
  BY <1>2, <1>3, <1>4, <1>5, <1>6, <1>7, <1>8, <1>9, <1>10, <1>11, <1>12 DEF Run, WithLock

LEMMA ShutdownStep ==
  ASSUME PoolInv, Shutdown
  PROVE  PoolInv'
<1>1. CASE CloseAll \/ TakeLockToClose \/ Drained
  <2>1. TypeOK' /\ Conns' /\ Closing'
    <3>1. TypeOK'
      <4>1. shutdown' \in [step : {"running", "asked", "draining", "done"}, left : SUBSET Peer]
        BY <1>1 DEF PoolInv, CloseAll, TakeLockToClose, Drained, TypeOK
      <4> QED
        BY <1>1, <4>1 DEF PoolInv, CloseAll, TakeLockToClose, Drained, TypeOK
    <3>2. Conns'
      BY <1>1, ConnsKept DEF PoolInv, CloseAll, TakeLockToClose, Drained
    <3>3. Closing'
      BY <1>1 DEF PoolInv, CloseAll, TakeLockToClose, Drained, Closing, TypeOK
    <3> QED
      BY <3>1, <3>2, <3>3
  <2>2. \A p \in Peer : Places(p)' = Places(p)
    BY <1>1 DEF CloseAll, TakeLockToClose, Drained, Places, Live, Between
  <2>3. Accounts'
    BY <1>1, <2>2 DEF PoolInv, Accounts, CloseAll, TakeLockToClose, Drained
  <2> QED
    BY <2>1, <2>3 DEF PoolInv
<1>2. CASE DrainOne
  <2>0. shutdown \in [step : {"running", "asked", "draining", "done"}, left : SUBSET Peer]
    BY DEF PoolInv, TypeOK
  <2>1. PICK p \in Peer : /\ pools[p] # <<>>
                          /\ CloseSocket(Head(pools[p]))
                          /\ pools' = [pools EXCEPT ![p] = Tail(@)]
    BY <1>2, <2>0 DEF DrainOne
  <2>s. /\ shutdown.step = "draining" /\ shutdown'.step = "draining"
        /\ shutdown' \in [step : {"running", "asked", "draining", "done"}, left : SUBSET Peer]
    BY <1>2, <2>0 DEF DrainOne
  <2>2. /\ Conns' /\ Head(pools[p]) \in Conn /\ sockets[Head(pools[p])] # "none"
    BY <1>2, <2>1, ConnectionDrained DEF PoolInv, DrainOne
  <2>3. Tail(pools[p]) \in Seq(Conn)
    BY <2>1, QueueFacts DEF PoolInv, TypeOK
  <2>4. TypeOK'
    BY <1>2, <2>1, <2>3, <2>s DEF PoolInv, TypeOK, DrainOne, CloseSocket
  <2>5. Closing' /\ closed
    BY <1>2, <2>s DEF PoolInv, Closing, DrainOne
  <2>6. \A q \in Peer : Between(q)' = Between(q)
    BY <1>2 DEF DrainOne, Between
  <2>7. \A q \in Peer : Cardinality(Live(q)') <= Cardinality(Live(q))
    BY <1>2, <2>1, <2>2, SocketCloses, Counts DEF PoolInv, DrainOne
  <2>8. Accounts'
    BY <1>2, <2>4, <2>5, <2>6, <2>7, PlaceKept DEF PoolInv, DrainOne
  <2> QED
    BY <2>2, <2>4, <2>5, <2>8 DEF PoolInv
<1> QED
  BY <1>1, <1>2 DEF Shutdown

LEMMA NetworkStep ==
  ASSUME PoolInv, ConnectionDies
  PROVE  PoolInv'
<1>1. TypeOK' /\ Closing'
  BY DEF PoolInv, ConnectionDies, TypeOK, Closing
<1>2. \A c \in Conn : sockets'[c] # "none" <=> sockets[c] # "none"
  BY DEF PoolInv, ConnectionDies, TypeOK
<1>3. \A p \in Peer : \A i \in DOMAIN pools[p] : pools[p][i] \in Conn
  BY DEF PoolInv, TypeOK
<1>4. Conns'
  BY <1>2, <1>3 DEF PoolInv, ConnectionDies, Conns, Holding, Pooled, NoConnectionShared
<1>5. \A p \in Peer : Live(p)' = Live(p) /\ Between(p)' = Between(p)
  BY <1>2 DEF ConnectionDies, Live, Between
<1>6. Accounts'
  BY <1>1, <1>5, Balanced DEF PoolInv, ConnectionDies
<1> QED
  BY <1>1, <1>4, <1>6 DEF PoolInv

LEMMA PoolInvHolds == Spec => []PoolInv
<1>1. PoolInv /\ [Next]_vars => PoolInv'
  <2> SUFFICES ASSUME PoolInv, [Next]_vars
               PROVE  PoolInv'
    OBVIOUS
  <2>1. CASE Next
    BY <2>1, TaskStep, ShutdownStep, NetworkStep DEF Next
  <2>2. CASE UNCHANGED vars
    <3>1. TypeOK' /\ Closing'
      BY <2>2 DEF vars, PoolInv, TypeOK, Closing
    <3>2. Conns'
      BY <2>2, ConnsKept DEF vars, PoolInv
    <3>3. \A p \in Peer : Places(p)' = Places(p)
      BY <2>2 DEF vars, Places, Live, Between
    <3>4. Accounts'
      BY <2>2, <3>3 DEF vars, PoolInv, Accounts
    <3> QED
      BY <3>1, <3>2, <3>4 DEF PoolInv
  <2> QED
    BY <2>1, <2>2
<1> QED
  BY <1>1, InitHolds, PTL DEF Spec

\* The variables of the pool keep their types: a count of connections lies
\* between zero and max_connections_per_peer.
THEOREM PoolTypesHold == Spec => []TypeOK
<1>1. PoolInv => TypeOK
  BY DEF PoolInv
<1> QED
  BY <1>1, PoolInvHolds, PTL

\* get_connection never hands one connection to two tasks, nor one that still
\* waits in a queue.
THEOREM ConnectionsExclusive == Spec => []NoConnectionShared
<1>1. PoolInv => NoConnectionShared
  BY DEF PoolInv, Conns
<1> QED
  BY <1>1, PoolInvHolds, PTL

\* No peer has more than max_connections_per_peer connections.
THEOREM ConnectionsLimited == Spec => []LimitHolds
<1>1. PoolInv => LimitHolds
  <2> SUFFICES ASSUME PoolInv, NEW p \in Peer
               PROVE  Cardinality(Live(p)) <= MaxPerPeer
    BY DEF LimitHolds
  <2>1. Places(p) <= active[p]
    BY DEF PoolInv, Accounts
  <2>2. lost[p] \in Nat /\ active[p] \in Nat /\ active[p] <= MaxPerPeer /\ MaxPerPeer \in Nat
    BY PoolAssumption DEF PoolInv, TypeOK
  <2> QED
    BY <2>1, <2>2, Counts DEF Places
<1> QED
  BY <1>1, PoolInvHolds, PTL

\* Every place of an open pool belongs to a connection or to a task that makes or
\* gives up one, but for those that uncaught exceptions kept.
THEOREM PlacesBelong == Spec => []PlacesAccounted
<1>1. PoolInv => PlacesAccounted
  BY DEF PoolInv, Accounts, Places, PlacesAccounted
<1> QED
  BY <1>1, PoolInvHolds, PTL

=============================================================================
