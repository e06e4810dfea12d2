------------------------------ MODULE Shutdown ------------------------------
(***************************************************************************)
(* The local control endpoint (internal/ipc) and the way the service ends: *)
(* Service.Run's shutdown and Service.Close (internal/service).            *)
(*                                                                         *)
(* Serve accepts connections up to a limit and gives each a handler; watch *)
(* requests become streams, which have a lower limit.  Close marks the     *)
(* server closed under its lock and then closes the listener and the       *)
(* connections it saw.  Serve and Run wait for handlers and workers only   *)
(* up to a deadline; what is still running then is tracked, and Close      *)
(* keeps the spool open for it.  Handlers and workers may ignore the       *)
(* cancellation of their context and run for ever.                         *)
(*                                                                         *)
(* Run looks for a stop request only between two ticks, and a tick waits   *)
(* for the mode lock (modeRun, an RWMutex): behind a handler that waits    *)
(* for it or has it (set_mode, connect, consent, disconnect, an update),   *)
(* and, when it has a cleanup to complete, behind every reader.  Workers   *)
(* hold the lock for reading until they are done, and so do the handlers   *)
(* of speed tests and uploads.                                             *)
(***************************************************************************)
EXTENDS Integers, FiniteSets

CONSTANTS
  Conns,       \* connections of local clients
  Workers,     \* goroutines of Service.wg
  MaxConns,    \* maxConcurrentConnections
  MaxStreams   \* maxConcurrentStreams

ASSUME ShutdownAssumption ==
  /\ IsFiniteSet(Conns) /\ IsFiniteSet(Workers)
  /\ {MaxConns, MaxStreams} \subseteq Nat /\ 0 < MaxStreams /\ MaxStreams < MaxConns

VARIABLES
  conn,       \* what became of each connection
  shut,       \* connections in use that the server has closed
  serve,      \* where Serve is
  current,    \* the connection Serve has accepted and not yet handed over
  asked,      \* a signal or an update has asked the service to stop
  cancelled,  \* the context of Run and Serve is done
  closing,    \* Server.Close: not called, marked under the lock, complete
  snapshot,   \* the connections Close saw
  failed,     \* the error of Serve, if any
  run,        \* where Service.Run is
  working,    \* workers that are running
  unsafe,     \* the drains counted by Service.unsafeDrains
  runErr,     \* Run returns an error
  unflushed,  \* telemetry in memory that no flush has persisted
  spool       \* the telemetry spool is open

server == <<serve, current, closing, snapshot, failed>>
clients == <<conn, shut>>
daemon == <<asked, run, working, unsafe, runErr, unflushed, spool>>
vars == <<clients, server, cancelled, daemon>>

\* A connection is idle before it is dialled and after it was answered, refused or
\* dropped.  Its handler reads the request, handles it with or without the mode
\* lock, or is subscribed (Service.watchers) and then has a stream.
Unserved == {"idle", "queued", "accepted"}
Unary == {"handling", "sharing", "locking"}
Active == {"reading", "subscribed", "streaming"} \union Unary

\* The handlers that hold a slot of connectionLimit, and of streamLimit.
Handlers == {c \in Conns : conn[c] \in Active}
Streams == {c \in Conns : conn[c] = "streaming"}

\* The mode lock: the handlers that hold it for reading, and whether a handler or
\* the scheduler's cleanup waits for it as a writer or has it.
Sharing == {c \in Conns : conn[c] = "sharing"}
WriterPending == \E c \in Conns : conn[c] = "locking"
ReadersGone == Sharing = {} /\ working = {}

TypeOK ==
  /\ conn \in [Conns -> Unserved \union Active]
  /\ {shut, snapshot} \subseteq SUBSET Conns
  /\ serve \in {"accept", "slot", "close", "drain", "returned"}
  /\ current \subseteq Conns /\ Cardinality(current) <= 1
  /\ closing \in {"no", "marked", "done"} /\ failed \in {"none", "accept", "drain"}
  /\ run \in {"loop", "tick", "cleanup", "serve", "workers", "returned"}
  /\ working \subseteq Workers /\ unsafe \subseteq {"ipc", "workers"}
  /\ {asked, cancelled, runErr, unflushed, spool} \subseteq BOOLEAN

\* Open, Listen, and Serve started by Run.  While the service runs there is always
\* telemetry that no flush has persisted (the worst case).
Init ==
  /\ conn = [c \in Conns |-> "idle"] /\ shut = {}
  /\ serve = "accept" /\ current = {} /\ closing = "no" /\ snapshot = {} /\ failed = "none"
  /\ asked = FALSE /\ cancelled = FALSE
  /\ run = "loop" /\ working = {} /\ unsafe = {} /\ runErr = FALSE
  /\ unflushed = TRUE /\ spool = TRUE

Becomes(c, s) == conn' = [conn EXCEPT ![c] = s]

\* The answer is written, or not, and the connection is closed.
Ends(c) == Becomes(c, "idle") /\ shut' = shut \ {c}

----------------------------------------------------------------------------
(* Clients, and Serve's accept loop. *)

\* Call and Watch: dial and send; a listener that is closed refuses.
Dial(c) ==
  /\ conn[c] = "idle" /\ closing # "done"
  /\ Becomes(c, "queued")
  /\ UNCHANGED <<shut, server, cancelled, daemon>>

Accept(c) ==
  /\ serve = "accept" /\ closing # "done"
  /\ conn[c] = "queued"
  /\ Becomes(c, "accepted")
  /\ serve' = "slot" /\ current' = {c}
  /\ UNCHANGED <<shut, closing, snapshot, failed, cancelled, daemon>>

\* Accept fails: the listener is closed, or for another reason.
AcceptFails ==
  /\ serve = "accept"
  /\ serve' = "close"
  /\ failed' = IF cancelled \/ closing = "done" THEN "none" ELSE "accept"
  /\ UNCHANGED <<clients, current, closing, snapshot, cancelled, daemon>>

\* A slot is free: trackConnection, and the handler starts unless Close came first.
Track(c) ==
  /\ serve = "slot" /\ current = {c}
  /\ Cardinality(Handlers) < MaxConns
  /\ IF closing = "no"
     THEN Becomes(c, "reading") /\ serve' = "accept"
     ELSE Becomes(c, "idle") /\ serve' = "close"
  /\ current' = {}
  /\ UNCHANGED <<shut, closing, snapshot, failed, cancelled, daemon>>

\* The wait for a slot ends with the context.
SlotCancelled(c) ==
  /\ serve = "slot" /\ current = {c} /\ cancelled
  /\ Becomes(c, "idle")
  /\ serve' = "close" /\ current' = {}
  /\ UNCHANGED <<shut, closing, snapshot, failed, cancelled, daemon>>

----------------------------------------------------------------------------
(* handle. *)

\* A whole request has arrived; HandleIPC is called, which subscribes a watch before
\* the stream's slot is asked for.
Request(c, watch) ==
  /\ conn[c] = "reading" /\ c \notin shut
  /\ Becomes(c, IF watch THEN "subscribed" ELSE "handling")
  /\ UNCHANGED <<shut, server, cancelled, daemon>>

\* It cannot be read or decoded, is too long, or its deadline passes.
ReadFails(c) ==
  /\ conn[c] = "reading"
  /\ Ends(c)
  /\ UNCHANGED <<server, cancelled, daemon>>

\* mutant: a reader takes the lock although a writer waits for it
ShareOvertaking(c) ==
  /\ conn[c] = "handling"
  /\ Becomes(c, "sharing")
  /\ UNCHANGED <<shut, server, cancelled, daemon>>

\* The handler takes the mode lock for reading, unless a writer waits for it ...
Share(c) ==
  /\ conn[c] = "handling"
  /\ ~WriterPending /\ run # "cleanup"
  /\ Becomes(c, "sharing")
  /\ UNCHANGED <<shut, server, cancelled, daemon>>

\* ... or asks for it as the one writer that waits for the readers to go.
AskLock(c) ==
  /\ conn[c] = "handling"
  /\ ~WriterPending
  /\ Becomes(c, "locking")
  /\ UNCHANGED <<shut, server, cancelled, daemon>>

\* HandleIPC returns to a unary request, a writer only after it has had the lock.
\* It may have left telemetry in memory.
Respond(c, collected) ==
  /\ conn[c] \in Unary
  /\ conn[c] = "locking" => ReadersGone
  /\ Ends(c)
  /\ unflushed' = (unflushed \/ collected)
  /\ UNCHANGED <<server, cancelled, asked, run, working, unsafe, runErr, spool>>

StreamRefused(c) ==
  /\ conn[c] = "subscribed"
  /\ Cardinality(Streams) = MaxStreams
  /\ Ends(c)
  /\ UNCHANGED <<server, cancelled, daemon>>

\* mutant: streams are admitted without a limit of their own
StreamStartsUnlimited(c) ==
  /\ conn[c] = "subscribed"
  /\ Becomes(c, "streaming")
  /\ UNCHANGED <<shut, server, cancelled, daemon>>

StreamStarts(c) ==
  /\ conn[c] = "subscribed"
  /\ Cardinality(Streams) < MaxStreams
  /\ Becomes(c, "streaming")
  /\ UNCHANGED <<shut, server, cancelled, daemon>>

\* The context is done, or a write fails.
StreamEnds(c) ==
  /\ conn[c] = "streaming"
  /\ Ends(c)
  /\ UNCHANGED <<server, cancelled, daemon>>

----------------------------------------------------------------------------
(* Server.Close, once, by whoever needs it first; and the end of Serve. *)

CloseMark ==
  /\ closing = "no" /\ (cancelled \/ serve = "close")
  /\ closing' = "marked" /\ cancelled' = TRUE
  /\ snapshot' = Handlers
  /\ UNCHANGED <<clients, serve, current, failed, daemon>>

\* The listener and the connections; those not yet accepted are dropped with it.
CloseFinish ==
  /\ closing = "marked"
  /\ closing' = "done"
  /\ shut' = shut \union (snapshot \intersect Handlers) /\ snapshot' = {}
  /\ conn' = [c \in Conns |-> IF conn[c] = "queued" THEN "idle" ELSE conn[c]]
  /\ UNCHANGED <<serve, current, failed, cancelled, daemon>>

ServeCloses ==
  /\ serve = "close" /\ closing = "done"
  /\ serve' = "drain"
  /\ UNCHANGED <<clients, current, closing, snapshot, failed, cancelled, daemon>>

\* mutant: Serve has no deadline for its handlers
ServeTimeoutNever == FALSE /\ UNCHANGED vars

ServeDrained ==
  /\ serve = "drain" /\ Handlers = {}
  /\ serve' = "returned"
  /\ UNCHANGED <<clients, current, closing, snapshot, failed, cancelled, daemon>>

\* DrainTimeout: ErrDrainTimeout is joined to the error
ServeTimeout ==
  /\ serve = "drain"
  /\ serve' = "returned" /\ failed' = "drain"
  /\ UNCHANGED <<clients, current, closing, snapshot, cancelled, daemon>>

----------------------------------------------------------------------------
(* Service.Run and Service.Close. *)

\* The ticker fires, and the tick wants the lock: for reading, or for the cleanup
\* that is pending.  (One that an update refuses ends without it.)
TickBegins(wants) ==
  /\ run = "loop"
  /\ run' = wants
  /\ UNCHANGED <<clients, server, cancelled, asked, working, unsafe, runErr, unflushed, spool>>

\* The tick has its read lock and leaves it to the workers it starts.
TickReads(started) ==
  /\ run = "tick" /\ ~WriterPending
  /\ started \subseteq Workers \ working
  /\ run' = "loop"
  /\ working' = working \union started
  /\ UNCHANGED <<clients, server, cancelled, asked, unsafe, runErr, unflushed, spool>>

\* completeSSIDPurge: the tick is the writer that waits, and then has the lock.
CleanupDone ==
  /\ run = "cleanup" /\ ~WriterPending /\ ReadersGone
  /\ run' = "loop"
  /\ UNCHANGED <<clients, server, cancelled, asked, working, unsafe, runErr, unflushed, spool>>

WorkerDone(w, collected) ==
  /\ w \in working
  /\ working' = working \ {w}
  /\ unflushed' = (unflushed \/ collected)
  /\ UNCHANGED <<clients, server, cancelled, asked, run, unsafe, runErr, spool>>

\* A signal, which ends the context at once, or the restart after an update, which
\* does not.
Ask(signal) ==
  /\ ~asked
  /\ asked' = TRUE /\ cancelled' = (cancelled \/ signal)
  /\ UNCHANGED <<clients, server, run, working, unsafe, runErr, unflushed, spool>>

\* Run's loop sees the request: cancelRun, ipc.Close.
Stop ==
  /\ run = "loop" /\ asked
  /\ run' = "serve" /\ cancelled' = TRUE
  /\ UNCHANGED <<clients, server, asked, working, unsafe, runErr, unflushed, spool>>

\* ipcErrors: Serve has returned, asked to or by itself; trackIPCDrain.
ServeReturned ==
  /\ run \in {"loop", "serve"} /\ serve = "returned"
  /\ run' = "workers" /\ cancelled' = TRUE
  /\ unsafe' = IF failed = "drain" THEN unsafe \union {"ipc"} ELSE unsafe
  /\ runErr' = (failed # "none")
  /\ UNCHANGED <<clients, server, asked, working, unflushed, spool>>

\* mutant: the flush runs whatever is still active
ShutdownFlushAlways(ok) ==
  /\ run = "workers" /\ working = {}
  /\ run' = "returned"
  /\ unflushed' = (unflushed /\ ~ok) /\ runErr' = ~ok
  /\ UNCHANGED <<clients, server, cancelled, asked, working, unsafe, spool>>

\* The workers are done: flushShutdown, unless handlers are still active.
ShutdownFlush(ok) ==
  /\ run = "workers" /\ working = {}
  /\ run' = "returned"
  /\ IF unsafe = {}
     THEN unflushed' = (unflushed /\ ~ok) /\ runErr' = (runErr \/ ~ok)
     ELSE unflushed' = unflushed /\ runErr' = TRUE
  /\ UNCHANGED <<clients, server, cancelled, asked, working, unsafe, spool>>

\* shutdownWait is over: trackUnsafeDrain(workersDone)
WorkersTimeout ==
  /\ run = "workers"
  /\ run' = "returned"
  /\ unsafe' = unsafe \union {"workers"} /\ runErr' = TRUE
  /\ UNCHANGED <<clients, server, cancelled, asked, working, unflushed, spool>>

\* mutant: a tracked drain is forgotten before it is over
DrainOverEarly(d) ==
  /\ d \in unsafe
  /\ d = "ipc" \/ working = {}
  /\ unsafe' = unsafe \ {d}
  /\ UNCHANGED <<clients, server, cancelled, asked, run, working, runErr, unflushed, spool>>

\* The goroutine of trackUnsafeDrain
DrainOver(d) ==
  /\ d \in unsafe
  /\ IF d = "ipc" THEN Handlers = {} ELSE working = {}
  /\ unsafe' = unsafe \ {d}
  /\ UNCHANGED <<clients, server, cancelled, asked, run, working, runErr, unflushed, spool>>

\* Close, which refuses while a drain is tracked
Close ==
  /\ run = "returned" /\ spool /\ unsafe = {}
  /\ spool' = FALSE
  /\ UNCHANGED <<clients, server, cancelled, asked, run, working, unsafe, runErr, unflushed>>

\* What goes on after Close has closed the spool is the end of the process.
Terminated == ~spool /\ UNCHANGED vars

Next ==
  \/ CloseMark \/ CloseFinish \/ AcceptFails \/ ServeCloses \/ ServeDrained \/ ServeTimeout
  \/ CleanupDone \/ Stop
  \/ ServeReturned \/ WorkersTimeout \/ Close \/ Terminated
  \/ \E b \in BOOLEAN : Ask(b)
  \/ \E wants \in {"tick", "cleanup"} : TickBegins(wants)
  \/ \E started \in SUBSET Workers : TickReads(started)
  \/ \E ok \in BOOLEAN : ShutdownFlush(ok)
  \/ \E d \in {"ipc", "workers"} : DrainOver(d)
  \/ \E c \in Conns :
       \/ Dial(c) \/ Accept(c) \/ Track(c) \/ SlotCancelled(c) \/ ReadFails(c) \/ Share(c) \/ AskLock(c)
       \/ StreamRefused(c) \/ StreamStarts(c) \/ StreamEnds(c)
       \/ \E b \in BOOLEAN : Request(c, b) \/ Respond(c, b)
  \/ \E w \in Workers, b \in BOOLEAN : WorkerDone(w, b)

Spec == Init /\ [][Next]_vars

\* The server's and Run's own goroutines go on and their deadlines expire; the
\* backlog is first in, first out; a read has a deadline, a stream's set-up does not
\* wait, and a stream sees the end of the context.  An unlock lets in the readers
\* that wait and a mutex is not starved, so a tick that waits for the lock gets it
\* when it is free again and again; select picks among the ready cases at random.
\* What is done under the write lock is local (the store and the spool), so its
\* holder goes on.  Nothing is assumed of other handlers and of workers.
FairSpec ==
  /\ Spec
  /\ WF_vars(CloseMark) /\ WF_vars(CloseFinish)
  /\ WF_vars(ServeCloses \/ ServeTimeout \/ ServeReturned \/ WorkersTimeout)
  /\ WF_vars(cancelled /\ AcceptFails)
  /\ SF_vars(Stop) /\ SF_vars(\E started \in SUBSET Workers : TickReads(started))
  /\ SF_vars(CleanupDone)
  /\ WF_vars(\E c \in Conns : Track(c) \/ SlotCancelled(c))
  /\ WF_vars(\E c \in Conns, b \in BOOLEAN : conn[c] = "locking" /\ Respond(c, b))
  /\ \A c \in Conns :
       /\ SF_vars(Accept(c))
       /\ WF_vars(ReadFails(c) \/ StreamRefused(c) \/ StreamStarts(c) \/ (cancelled /\ StreamEnds(c)))

----------------------------------------------------------------------------
(* Correctness. *)

\* Close never closes the spool under a handler or a worker, whatever was slow, hung
\* or timed out before it; and no handler starts afterwards.
SpoolOutlivesUsers == ~spool => Handlers = {} /\ working = {}

\* When Run returned without an error and the spool is closed, everything any
\* handler or worker had collected was persisted.
CleanExitPersisted == ~spool /\ ~runErr => ~unflushed

\* Nobody who holds the mode lock for reading hangs.
ReadersReturn ==
  /\ \A w \in Workers : []<>(w \notin working)
  /\ \A c \in Conns : []<>(conn[c] # "sharing")

\* A stop request ends Run, whatever the other handlers do and however often the
\* lock is asked for, as long as no reader of the mode lock hangs (then a tick may
\* wait for it for ever, and Run with it).
RunReturns == ReadersReturn => (asked ~> (run = "returned"))

\* "Once a writer is pending, the next tick intentionally waits": a handler that has
\* asked for the mode lock is answered however ticks, their workers and user-started
\* speed tests follow each other, as long as each of them ends.
SwitchAnswered ==
  ReadersReturn => (WriterPending ~> ~WriterPending)

\* Watch streams leave capacity for unary calls: while no handler hangs, a client
\* that has dialled gets a handler or is dropped, however long the streams stay.
CallsServed ==
  (\A c \in Conns : []<>(conn[c] \notin Unary)) =>
    \A c \in Conns : (conn[c] \in {"queued", "accepted"}) ~> (conn[c] \notin {"queued", "accepted"})
=============================================================================
