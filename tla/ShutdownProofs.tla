--------------------------- MODULE ShutdownProofs ---------------------------
(***************************************************************************)
(* The spool outlives its users, and a clean exit has persisted what they  *)
(* collected, for any number of connections and workers and any limits.    *)
(*                                                                         *)
(* Neither promise is inductive.  Close only looks at the drains that are  *)
(* tracked, so what has to be carried through the shutdown is that a       *)
(* handler or a worker that Serve or Run stopped waiting for is behind a   *)
(* tracked drain, and that nobody can become a user any more once the one  *)
(* who would wait for it has returned.                                     *)
(***************************************************************************)
EXTENDS Shutdown, FiniteSetTheorems, TLAPS

----------------------------------------------------------------------------
(* The inductive invariant. *)

\* Serve waits for its handlers only after the server is closed, and returns
\* without them only with an error that says so.
ServeAccountsForHandlers ==
  /\ serve \in {"drain", "returned"} => closing = "done"
  /\ serve = "returned" => Handlers = {} \/ failed = "drain"

\* Run goes on after Serve has returned, and tracks the handlers it left behind.
RunTracksHandlers ==
  run \in {"workers", "returned"} =>
    serve = "returned" /\ (Handlers = {} \/ "ipc" \in unsafe)

\* So it does with the workers it no longer waits for.
RunTracksWorkers == run = "returned" => working = {} \/ "workers" \in unsafe

\* Only a service whose Run has returned, with no drain left, is closed.
ClosedAfterDrains == ~spool => run = "returned" /\ unsafe = {}

\* Run returns without an error only with nobody left who could collect anything
\* after the flush.
FlushedLast ==
  run = "returned" /\ ~runErr => ~unflushed /\ Handlers = {} /\ working = {}

ShutdownInv ==
  /\ TypeOK
  /\ ServeAccountsForHandlers
  /\ RunTracksHandlers
  /\ RunTracksWorkers
  /\ ClosedAfterDrains
  /\ FlushedLast

----------------------------------------------------------------------------
(* Who may become a user. *)

\* Handlers appear only where Serve hands a connection over: everywhere else a
\* handler goes on or ends.
LEMMA HandlersOnlyByServe ==
  ASSUME TypeOK, [Next]_vars, serve # "slot"
  PROVE  Handlers' \subseteq Handlers
<1> DEFINE Same == UNCHANGED conn
           Moves(c) == \E s \in Unserved \union Active :
                         Becomes(c, s) /\ (s \in Active => conn[c] \in Active)
<1>1. Same => Handlers' \subseteq Handlers
  BY DEF Handlers
<1>2. ASSUME NEW c \in Conns, Moves(c)
      PROVE  Handlers' \subseteq Handlers
  BY <1>2 DEF TypeOK, Handlers, Becomes
<1>3. CloseFinish => Handlers' \subseteq Handlers
  BY DEF TypeOK, Handlers, CloseFinish, Active, Unary
<1>4. ASSUME NEW c \in Conns
      PROVE  /\ Dial(c) \/ Accept(c) \/ SlotCancelled(c) \/ ReadFails(c) \/ StreamRefused(c)
                  \/ StreamStarts(c) \/ StreamEnds(c) \/ Share(c) \/ AskLock(c) => Moves(c)
             /\ \A b \in BOOLEAN : Request(c, b) \/ Respond(c, b) => Moves(c)
             /\ ~Track(c)
  BY DEF Dial, Accept, Track, SlotCancelled, ReadFails, StreamRefused, StreamStarts, StreamEnds,
         Request, Respond, Share, AskLock, Ends, Unserved, Unary, Active
<1>5. ASSUME CloseMark \/ AcceptFails \/ ServeCloses \/ ServeDrained \/ ServeTimeout \/ Stop
               \/ CleanupDone \/ ServeReturned \/ WorkersTimeout \/ Close \/ Terminated \/ UNCHANGED vars
      PROVE  Same
  BY <1>5 DEF CloseMark, AcceptFails, ServeCloses, ServeDrained, ServeTimeout, Stop, CleanupDone, ServeReturned,
         WorkersTimeout, Close, Terminated, clients, vars
<1>6. ASSUME \/ \E ok \in BOOLEAN : ShutdownFlush(ok)
             \/ \E d \in {"ipc", "workers"} : DrainOver(d)
             \/ \E w \in Workers, b \in BOOLEAN : WorkerDone(w, b)
             \/ \E b \in BOOLEAN : Ask(b)
             \/ \E wants \in {"tick", "cleanup"} : TickBegins(wants)
             \/ \E started \in SUBSET Workers : TickReads(started)
      PROVE  Same
  BY <1>6 DEF ShutdownFlush, DrainOver, WorkerDone, Ask, TickBegins, TickReads, clients
<1> QED
  BY <1>1, <1>2, <1>3, <1>4, <1>5, <1>6 DEF Next

----------------------------------------------------------------------------
(* Every step preserves the invariant. *)

LEMMA ShutdownInit == Init => ShutdownInv
<1> SUFFICES ASSUME Init PROVE ShutdownInv
  OBVIOUS
<1>1. TypeOK
  <2>1. Cardinality(current) <= 1
    BY FS_EmptySet DEF Init
  <2> QED
    BY <2>1 DEF Init, TypeOK, Unserved
<1>2. Handlers = {}
  BY DEF Init, Handlers, Active, Unary
<1> QED
  BY <1>1, <1>2 DEF Init, ShutdownInv, ServeAccountsForHandlers, RunTracksHandlers, RunTracksWorkers,
     ClosedAfterDrains, FlushedLast

\* Type correctness, apart from the at most one connection that Serve holds.
LEMMA TypeStep ==
  ASSUME TypeOK, [Next]_vars
  PROVE  TypeOK'
<1>1. Cardinality({}) = 0 /\ \A c \in Conns : Cardinality({c}) = 1
  BY FS_EmptySet, FS_Singleton
<1>2. CASE CloseMark \/ CloseFinish \/ AcceptFails \/ ServeCloses \/ ServeDrained \/ ServeTimeout
  BY <1>2 DEF TypeOK, CloseMark, CloseFinish, AcceptFails, ServeCloses, ServeDrained, ServeTimeout,
     Handlers, Unserved, clients, daemon
<1>3. CASE CleanupDone \/ Stop \/ ServeReturned \/ WorkersTimeout \/ Close \/ Terminated \/ UNCHANGED vars
  BY <1>3 DEF TypeOK, CleanupDone, Stop, ServeReturned, WorkersTimeout, Close, Terminated, vars, clients, server, daemon
<1>4. ASSUME NEW ok \in BOOLEAN, ShutdownFlush(ok) PROVE TypeOK'
  BY <1>4 DEF TypeOK, ShutdownFlush, clients, server
<1>5. ASSUME NEW d \in {"ipc", "workers"}, DrainOver(d) PROVE TypeOK'
  BY <1>5 DEF TypeOK, DrainOver, clients, server
<1>6. ASSUME NEW w \in Workers, NEW b \in BOOLEAN, WorkerDone(w, b) PROVE TypeOK'
  BY <1>6 DEF TypeOK, WorkerDone, clients, server
<1>10. ASSUME NEW b \in BOOLEAN, NEW wants \in {"tick", "cleanup"}, NEW started \in SUBSET Workers,
             Ask(b) \/ TickBegins(wants) \/ TickReads(started)
      PROVE  TypeOK'
  BY <1>10 DEF TypeOK, Ask, TickBegins, TickReads, clients, server
<1>7. ASSUME NEW c \in Conns, Dial(c) \/ Accept(c) \/ Track(c) \/ SlotCancelled(c) PROVE TypeOK'
  <2>1. current' \subseteq Conns /\ Cardinality(current') <= 1
    BY <1>1, <1>7 DEF TypeOK, Dial, Accept, Track, SlotCancelled, server
  <2> QED
    BY <1>7, <2>1 DEF TypeOK, Dial, Accept, Track, SlotCancelled, Becomes, Unserved, Active, server, daemon
<1>8. ASSUME NEW c \in Conns, \/ ReadFails(c) \/ Share(c) \/ AskLock(c)
                               \/ StreamRefused(c) \/ StreamStarts(c) \/ StreamEnds(c)
      PROVE  TypeOK'
  BY <1>8 DEF TypeOK, ReadFails, Share, AskLock, StreamRefused, StreamStarts, StreamEnds, Ends, Becomes,
     Unserved, Unary, Active, server, daemon
<1>9. ASSUME NEW c \in Conns, NEW b \in BOOLEAN, Request(c, b) \/ Respond(c, b) PROVE TypeOK'
  BY <1>9 DEF TypeOK, Request, Respond, Ends, Becomes, Unserved, Unary, Active, server, daemon
<1> QED
  BY <1>2, <1>3, <1>4, <1>5, <1>6, <1>7, <1>8, <1>9, <1>10 DEF Next

\* The invariant's parts about the shutdown, one step per group of actions.  Where
\* a handler or a worker could disturb them, Serve is past its last hand-over or
\* Run past its loop.
LEMMA ShutdownStep == ShutdownInv /\ [Next]_vars => ShutdownInv'
<1> SUFFICES ASSUME ShutdownInv, [Next]_vars PROVE ShutdownInv'
  OBVIOUS
<1> USE DEF ServeAccountsForHandlers, RunTracksHandlers, RunTracksWorkers, ClosedAfterDrains, FlushedLast
<1>t. TypeOK /\ TypeOK'
  BY TypeStep DEF ShutdownInv
<1>h. serve # "slot" => Handlers' \subseteq Handlers
  BY <1>t, HandlersOnlyByServe
<1>1. CASE CloseMark \/ CloseFinish \/ AcceptFails \/ ServeCloses \/ ServeDrained \/ ServeTimeout
  BY <1>t, <1>h, <1>1 DEF ShutdownInv, CloseMark, CloseFinish, AcceptFails, ServeCloses, ServeDrained,
     ServeTimeout, daemon
<1>2. CASE CleanupDone \/ Stop \/ ServeReturned \/ WorkersTimeout \/ Close \/ Terminated \/ UNCHANGED vars
  BY <1>t, <1>h, <1>2 DEF ShutdownInv, TypeOK, CleanupDone, Stop, ServeReturned, WorkersTimeout, Close, Terminated,
     vars, server, daemon
<1>3. ASSUME NEW ok \in BOOLEAN, ShutdownFlush(ok) PROVE ShutdownInv'
  BY <1>t, <1>h, <1>3 DEF ShutdownInv, ShutdownFlush, server
<1>4. ASSUME NEW d \in {"ipc", "workers"}, DrainOver(d) PROVE ShutdownInv'
  BY <1>t, <1>h, <1>4 DEF ShutdownInv, DrainOver, server
<1>5. ASSUME NEW w \in Workers, NEW b \in BOOLEAN, WorkerDone(w, b) PROVE ShutdownInv'
  BY <1>t, <1>h, <1>5 DEF ShutdownInv, WorkerDone, server
<1>9. ASSUME NEW b \in BOOLEAN, NEW wants \in {"tick", "cleanup"}, NEW started \in SUBSET Workers,
             Ask(b) \/ TickBegins(wants) \/ TickReads(started)
      PROVE  ShutdownInv'
  BY <1>t, <1>h, <1>9 DEF ShutdownInv, Ask, TickBegins, TickReads, server
<1>6. ASSUME NEW c \in Conns, Dial(c) \/ Accept(c) \/ Track(c) \/ SlotCancelled(c) PROVE ShutdownInv'
  BY <1>t, <1>h, <1>6 DEF ShutdownInv, Dial, Accept, Track, SlotCancelled, server, daemon
<1>7. ASSUME NEW c \in Conns, \/ ReadFails(c) \/ Share(c) \/ AskLock(c)
                               \/ StreamRefused(c) \/ StreamStarts(c) \/ StreamEnds(c)
      PROVE  ShutdownInv'
  BY <1>t, <1>h, <1>7 DEF ShutdownInv, ReadFails, Share, AskLock, StreamRefused, StreamStarts, StreamEnds,
     server, daemon
<1>8. ASSUME NEW c \in Conns, NEW b \in BOOLEAN, Request(c, b) \/ Respond(c, b) PROVE ShutdownInv'
  <2>1. Respond(c, b) => c \in Handlers
    BY DEF Respond, Handlers, Active, Unary
  <2> QED
    BY <1>t, <1>h, <1>8, <2>1 DEF ShutdownInv, Request, Respond, server, daemon
<1> QED
  BY <1>1, <1>2, <1>3, <1>4, <1>5, <1>6, <1>7, <1>8, <1>9 DEF Next

----------------------------------------------------------------------------
(* Theorems. *)

LEMMA ShutdownInvariant == Spec => []ShutdownInv
  BY ShutdownInit, ShutdownStep, PTL DEF Spec

\* Service.Close never closes the spool under a handler of the control endpoint or a
\* worker: Handlers and workers that outlast the deadlines of Serve and Run are
\* behind a tracked drain until they end, and none starts once Run has returned.
THEOREM SpoolOutlives == Spec => []SpoolOutlivesUsers
<1>1. ShutdownInv => SpoolOutlivesUsers
  BY DEF ShutdownInv, RunTracksHandlers, RunTracksWorkers, ClosedAfterDrains, SpoolOutlivesUsers
<1> QED
  BY <1>1, ShutdownInvariant, PTL

\* When Run returned without an error and the spool is closed, nothing that a handler
\* or a worker collected is only in memory: the last flush ran after all of them.
THEOREM CleanExit == Spec => []CleanExitPersisted
<1>1. ShutdownInv => CleanExitPersisted
  BY DEF ShutdownInv, ClosedAfterDrains, FlushedLast, CleanExitPersisted
<1> QED
  BY <1>1, ShutdownInvariant, PTL
=============================================================================
