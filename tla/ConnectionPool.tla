--------------------------- MODULE ConnectionPool ---------------------------
(***************************************************************************)
(* The pool of websocket connections to peers: PeerConnectionPool and its  *)
(* context manager PeerConnection in network/peer_manager.py.              *)
(*                                                                         *)
(* The pool lives in one event loop: a task runs from one await to the     *)
(* next without interruption, so the steps are the stretches between       *)
(* awaits.  Awaits are the pool's lock, the ping of a health check,        *)
(* closing, connecting, and the wait for a connection somebody returns.    *)
(* That wait happens with the lock held.  The network may drop a           *)
(* connection, a ping or a connect may fail, and some of the exceptions    *)
(* the websocket library raises are not among those the pool catches.      *)
(* A connection is what the pool and its tests take it for: an object that *)
(* says whether it is closed.                                              *)
(***************************************************************************)
EXTENDS Integers, FiniteSets, Sequences, SequencesExt

CONSTANTS
  Task,            \* tasks that use the pool
  Peer,            \* peer URIs
  PeerOf,          \* the peer a task talks to
  Conn,            \* identities of connections, used again once closed
  MaxPerPeer,      \* max_connections_per_peer
  MaxUncaught,     \* bound: exceptions that the pool does not catch
  Free             \* the lock is not held

NoConn == "none"

ASSUME PoolAssumption ==
  /\ IsFiniteSet(Task) /\ IsFiniteSet(Conn) /\ Peer # {}
  /\ PeerOf \in [Task -> Peer]
  /\ MaxPerPeer \in Nat \ {0} /\ MaxUncaught \in Nat
  /\ Free \notin Task
  /\ NoConn \notin Conn

Closer == "close_all"   \* whoever shuts the pool down

VARIABLES
  pools,      \* connections that wait in the queue of each peer
  active,     \* _active_connections
  lock,       \* who holds _lock
  closed,     \* _closed
  shutdown,   \* where close_all is, and the queues it has not left behind
  at,         \* where each task is
  held,       \* the connection each task works with
  sockets,    \* [Conn -> "none", "open" or "dead"]: dead ones are not closed yet
  peer,       \* the peer each connection leads to
  lost        \* history: places of a peer that an uncaught exception kept

vars == <<pools, active, lock, closed, shutdown, at, held, sockets, peer, lost>>

Live(p) == {c \in Conn : sockets[c] # "none" /\ peer[c] = p}

GoTo(t, place) == at' = [at EXCEPT ![t] = place]
Drop(t) == held' = [held EXCEPT ![t] = NoConn]
CloseSocket(c) == sockets' = [sockets EXCEPT ![c] = "none"]

\* The stages of get_connection, the use of the connection, and the stages of
\* return_connection.
Place == {"idle", "enter", "check", "close", "forget", "reserve", "wait",
          "recheck", "reclose", "create", "undo",
          "use", "backcheck", "backclose", "backforget", "lastclose"}

---------------------------------------------------------------------------
\* get_connection

Request(t) ==
  /\ at[t] = "idle" /\ ~closed
  /\ GoTo(t, "enter")
  /\ UNCHANGED <<pools, active, lock, closed, shutdown, held, sockets, peer, lost>>

\* the queue exists once the lock was free; then a connection from it, or none
Enter(t) ==
  LET p == PeerOf[t] IN
  /\ at[t] = "enter" /\ lock = Free
  /\ IF pools[p] = <<>>
     THEN /\ GoTo(t, "reserve")
          /\ UNCHANGED <<pools, held>>
     ELSE /\ GoTo(t, "check")
          /\ held' = [held EXCEPT ![t] = Head(pools[p])]
          /\ pools' = [pools EXCEPT ![p] = Tail(@)]
  /\ UNCHANGED <<active, lock, closed, shutdown, sockets, peer, lost>>

\* _is_healthy: a dead connection is found out; a ping of a live one may
\* be late; ConnectionClosed, raised when the connection goes down between the
\* look at conn.closed and the ping, is not caught.
Healthy(t, place, then) ==
  /\ at[t] = place /\ sockets[held[t]] = "open"
  /\ GoTo(t, then)
Unhealthy(t, place, then) ==
  /\ at[t] = place
  /\ GoTo(t, then)
HealthRaises(t, place) ==
  /\ at[t] = place /\ sockets[held[t]] = "dead"
  /\ lost[PeerOf[t]] < MaxUncaught
  /\ GoTo(t, "idle")
  /\ CloseSocket(held[t]) /\ Drop(t)
  /\ lost' = [lost EXCEPT ![PeerOf[t]] = @ + 1]

CheckPooled(t) ==
  /\ \/ /\ Healthy(t, "check", "use") \/ Unhealthy(t, "check", "close")
        /\ UNCHANGED <<held, sockets, lost>>
     \/ HealthRaises(t, "check")
  /\ UNCHANGED <<pools, active, lock, closed, shutdown, peer>>

\* await self._close_connection(conn)
ClosePooled(t) ==
  /\ at[t] = "close"
  /\ CloseSocket(held[t]) /\ Drop(t)
  /\ GoTo(t, "forget")
  /\ UNCHANGED <<pools, active, lock, closed, shutdown, peer, lost>>

\* seeded bug: an unhealthy connection keeps its place
ReleasedNothing(p) == active

Released(p) == [active EXCEPT ![p] = IF @ > 0 THEN @ - 1 ELSE 0]

\* the place of a connection that was closed is given back, under the lock
GiveBack(t, place, then) ==
  /\ at[t] = place /\ lock = Free
  /\ active' = Released(PeerOf[t])
  /\ GoTo(t, then)
  /\ UNCHANGED <<pools, lock, closed, shutdown, held, sockets, peer, lost>>

Forget(t) == GiveBack(t, "forget", "reserve")

\* seeded bug: the place is counted once the connection is there
ReserveUncounted(t) ==
  /\ at[t] = "reserve" /\ lock = Free
  /\ active[PeerOf[t]] < MaxPerPeer
  /\ GoTo(t, "create")
  /\ UNCHANGED <<pools, active, lock, closed, shutdown, held, sockets, peer, lost>>

\* seeded bug: any number of places
ReserveAnyway(t) ==
  /\ at[t] = "reserve" /\ lock = Free
  /\ active' = [active EXCEPT ![PeerOf[t]] = @ + 1]
  /\ GoTo(t, "create")
  /\ UNCHANGED <<pools, lock, closed, shutdown, held, sockets, peer, lost>>

\* a place is free: it is taken, and the connection is made outside the lock
ReservePlace(t) ==
  /\ at[t] = "reserve" /\ lock = Free
  /\ active[PeerOf[t]] < MaxPerPeer
  /\ active' = [active EXCEPT ![PeerOf[t]] = @ + 1]
  /\ GoTo(t, "create")
  /\ UNCHANGED <<pools, lock, closed, shutdown, held, sockets, peer, lost>>

\* no place is free: the task waits for a connection and keeps the lock
AwaitConnection(t) ==
  /\ at[t] = "reserve" /\ lock = Free
  /\ active[PeerOf[t]] >= MaxPerPeer
  /\ lock' = t
  /\ GoTo(t, "wait")
  /\ UNCHANGED <<pools, active, closed, shutdown, held, sockets, peer, lost>>

\* seeded bug: the connection stays in the queue
PeekReturned(t) ==
  /\ at[t] = "wait" /\ pools[PeerOf[t]] # <<>>
  /\ held' = [held EXCEPT ![t] = Head(pools[PeerOf[t]])]
  /\ GoTo(t, "recheck")
  /\ UNCHANGED <<pools, active, lock, closed, shutdown, sockets, peer, lost>>

TakeReturned(t) ==
  LET p == PeerOf[t] IN
  /\ at[t] = "wait" /\ pools[p] # <<>>
  /\ held' = [held EXCEPT ![t] = Head(pools[p])]
  /\ pools' = [pools EXCEPT ![p] = Tail(@)]
  /\ GoTo(t, "recheck")
  /\ UNCHANGED <<active, lock, closed, shutdown, sockets, peer, lost>>

\* seeded bug: the wait ends with the pool only
WaitForClose(t) ==
  /\ at[t] = "wait" /\ closed
  /\ lock' = Free
  /\ GoTo(t, "idle")
  /\ UNCHANGED <<pools, active, closed, shutdown, held, sockets, peer, lost>>

\* asyncio.wait_for gives up after connection_timeout
WaitTimesOut(t) ==
  /\ at[t] = "wait"
  /\ lock' = Free
  /\ GoTo(t, "idle")
  /\ UNCHANGED <<pools, active, closed, shutdown, held, sockets, peer, lost>>

CheckReturned(t) ==
  /\ \/ /\ Healthy(t, "recheck", "use") /\ lock' = Free
        /\ UNCHANGED <<held, sockets, lost>>
     \/ /\ Unhealthy(t, "recheck", "reclose")
        /\ UNCHANGED <<held, sockets, lost, lock>>
     \/ HealthRaises(t, "recheck") /\ lock' = Free
  /\ UNCHANGED <<pools, active, closed, shutdown, peer>>

\* closed with the lock held; the new connection takes its place in the count
CloseReturned(t) ==
  /\ at[t] = "reclose"
  /\ CloseSocket(held[t]) /\ Drop(t)
  /\ lock' = Free
  /\ GoTo(t, "create")
  /\ UNCHANGED <<pools, active, closed, shutdown, peer, lost>>

\* websockets.connect: a connection, an error that is caught, or one that is not
\* (InvalidHandshake and InvalidURI are neither OSError nor ValueError)
Create(t) ==
  /\ at[t] = "create"
  /\ \/ \E c \in Conn :
          /\ sockets[c] = "none"
          /\ sockets' = [sockets EXCEPT ![c] = "open"]
          /\ peer' = [peer EXCEPT ![c] = PeerOf[t]]
          /\ held' = [held EXCEPT ![t] = c]
          /\ GoTo(t, "use")
          /\ UNCHANGED lost
     \/ /\ GoTo(t, "undo")
        /\ UNCHANGED <<sockets, peer, held, lost>>
     \/ /\ lost[PeerOf[t]] < MaxUncaught
        /\ lost' = [lost EXCEPT ![PeerOf[t]] = @ + 1]
        /\ GoTo(t, "idle")
        /\ UNCHANGED <<sockets, peer, held>>
  /\ UNCHANGED <<pools, active, lock, closed, shutdown>>

UndoReserve(t) == GiveBack(t, "undo", "idle")

---------------------------------------------------------------------------
\* return_connection, called by PeerConnection.__aexit__

Return(t) ==
  /\ at[t] = "use"
  /\ GoTo(t, IF closed THEN "lastclose" ELSE "backcheck")
  /\ UNCHANGED <<pools, active, lock, closed, shutdown, held, sockets, peer, lost>>

\* the pool was closed before: the connection is closed and that is all
CloseLast(t) ==
  /\ at[t] = "lastclose"
  /\ CloseSocket(held[t]) /\ Drop(t)
  /\ GoTo(t, "idle")
  /\ UNCHANGED <<pools, active, lock, closed, shutdown, peer, lost>>

\* put_nowait, without looking at _closed or at the lock again
PutBack(t) ==
  LET p == PeerOf[t] IN
  /\ IF Len(pools[p]) < MaxPerPeer
     THEN /\ Healthy(t, "backcheck", "idle")
          /\ pools' = [pools EXCEPT ![p] = Append(@, held[t])]
          /\ Drop(t)
     ELSE /\ Healthy(t, "backcheck", "backclose")   \* QueueFull
          /\ UNCHANGED <<pools, held>>
  /\ UNCHANGED <<active, lock, closed, shutdown, sockets, peer, lost>>

CheckBack(t) ==
  /\ \/ /\ Unhealthy(t, "backcheck", "backclose")
        /\ UNCHANGED <<held, sockets, lost>>
     \/ HealthRaises(t, "backcheck")
  /\ UNCHANGED <<pools, active, lock, closed, shutdown, peer>>

CloseBack(t) ==
  /\ at[t] = "backclose"
  /\ CloseSocket(held[t]) /\ Drop(t)
  /\ GoTo(t, "backforget")
  /\ UNCHANGED <<pools, active, lock, closed, shutdown, peer, lost>>

ForgetBack(t) == GiveBack(t, "backforget", "idle")

---------------------------------------------------------------------------
\* close_all

CloseAll ==
  /\ shutdown.step = "running"
  /\ closed' = TRUE /\ shutdown' = [shutdown EXCEPT !.step = "asked"]
  /\ UNCHANGED <<pools, active, lock, at, held, sockets, peer, lost>>

TakeLockToClose ==
  /\ shutdown.step = "asked" /\ lock = Free
  /\ lock' = Closer /\ shutdown' = [shutdown EXCEPT !.step = "draining"]
  /\ UNCHANGED <<pools, active, closed, at, held, sockets, peer, lost>>

\* The queues are emptied one after the other: what comes back to one that was
\* left behind stays there.
DrainOne ==
  /\ shutdown.step = "draining"
  /\ \E p \in shutdown.left, passed \in SUBSET shutdown.left :
       /\ pools[p] # <<>> /\ \A q \in passed : pools[q] = <<>>
       /\ CloseSocket(Head(pools[p]))
       /\ pools' = [pools EXCEPT ![p] = Tail(@)]
       /\ shutdown' = [shutdown EXCEPT !.left = @ \ passed]
  /\ UNCHANGED <<active, lock, closed, at, held, peer, lost>>

Drained ==
  /\ shutdown.step = "draining" /\ \A p \in shutdown.left : pools[p] = <<>>
  /\ lock' = Free /\ shutdown' = [step |-> "done", left |-> {}]
  /\ UNCHANGED <<pools, active, closed, at, held, sockets, peer, lost>>

---------------------------------------------------------------------------
\* The network drops a connection.
ConnectionDies ==
  /\ \E c \in Conn : sockets[c] = "open" /\ sockets' = [sockets EXCEPT ![c] = "dead"]
  /\ UNCHANGED <<pools, active, lock, closed, shutdown, at, held, peer, lost>>

Init ==
  /\ pools = [p \in Peer |-> <<>>] /\ active = [p \in Peer |-> 0]
  /\ lock = Free /\ closed = FALSE
  /\ shutdown = [step |-> "running", left |-> Peer]
  /\ at = [t \in Task |-> "idle"] /\ held = [t \in Task |-> NoConn]
  /\ sockets = [c \in Conn |-> "none"] /\ peer \in [Conn -> {CHOOSE p \in Peer : TRUE}]
  /\ lost = [p \in Peer |-> 0]

\* What a task does by itself once it may run; taking the lock is apart.
Run(t) ==
  \/ CheckPooled(t) \/ ClosePooled(t) \/ TakeReturned(t) \/ WaitTimesOut(t)
  \/ CheckReturned(t) \/ CloseReturned(t) \/ Create(t)
  \/ CloseLast(t) \/ PutBack(t) \/ CheckBack(t) \/ CloseBack(t)

WithLock(t) ==
  \/ Enter(t) \/ Forget(t) \/ ReservePlace(t) \/ AwaitConnection(t)
  \/ UndoReserve(t) \/ ForgetBack(t)

Shutdown == CloseAll \/ TakeLockToClose \/ DrainOne \/ Drained

Next ==
  \/ \E t \in Task : Request(t) \/ Return(t) \/ Run(t) \/ WithLock(t)
  \/ Shutdown
  \/ ConnectionDies

Spec == Init /\ [][Next]_vars

\* The event loop runs every task that is ready; asyncio.Lock serves its waiters
\* in the order of arrival, so nobody waits while others take it again and again.
\* No task has to return what it uses, and nobody has to call close_all.
Fairness ==
  /\ \A t \in Task : WF_vars(Run(t)) /\ SF_vars(WithLock(t))
  /\ WF_vars(DrainOne \/ Drained)

FairSpec == Spec /\ Fairness

---------------------------------------------------------------------------
\* Types of all variables.
TypeOK ==
  /\ pools \in [Peer -> Seq(Conn)]
  /\ active \in [Peer -> 0 .. MaxPerPeer]
  /\ lock \in Task \cup {Free, Closer} /\ closed \in BOOLEAN
  /\ shutdown \in [step : {"running", "asked", "draining", "done"}, left : SUBSET Peer]
  /\ at \in [Task -> Place] /\ held \in [Task -> Conn \cup {NoConn}]
  /\ sockets \in [Conn -> {"none", "open", "dead"}]
  /\ peer \in [Conn -> Peer] /\ lost \in [Peer -> Nat]

\* A peer never has more connections than the pool allows, in the queue, in use
\* and being closed together ("Connection limits prevent resource exhaustion"),
\* although places are taken and given back in other steps than connections are
\* made and closed.
LimitHolds == \A p \in Peer : Cardinality(Live(p)) <= MaxPerPeer

\* Tasks of a peer that hold a place without a connection.
Between(p) ==
  {t \in Task : PeerOf[t] = p /\ at[t] \in {"create", "undo", "forget", "backforget"}}

\* As long as the pool is open, every place of a peer belongs to a connection or
\* to a task that makes or gives up one; only the exceptions the pool does not
\* catch cost a place ("Automatic cleanup on errors prevents connection leaks").
PlacesAccounted ==
  ~closed => \A p \in Peer :
    active[p] = Cardinality(Live(p)) + Cardinality(Between(p)) + lost[p]

\* Two tasks never work with one connection, and none with one that waits in a
\* queue, whatever happens between taking it from the queue and putting it back.
NoConnectionShared ==
  /\ \A t, u \in Task : t # u /\ held[t] # NoConn => held[t] # held[u]
  /\ \A p \in Peer : /\ \A i, j \in DOMAIN pools[p] : pools[p][i] = pools[p][j] => i = j
                     /\ \A i \in DOMAIN pools[p], t \in Task : pools[p][i] # held[t]

\* A request for a connection ends, with one or with an exception, whether or
\* not other tasks ever return theirs: a waiter holds the lock that those who
\* return dead connections need ("Timeout enforcement prevents indefinite
\* blocking").
RequestsEnd ==
  \A t \in Task :
    at[t] \in {"enter", "check", "close", "forget", "reserve", "wait",
               "recheck", "reclose", "create", "undo"} ~> at[t] \in {"idle", "use"}
=============================================================================
