------------------------------ MODULE Process ------------------------------
(***************************************************************************)
(* The load balancer process (cmd/lb): runWith brings the components up    *)
(* one by one, waits for a signal or a failed server, and takes them down  *)
(* in dependency order; the deferred cleanups follow, and are all there is *)
(* when start-up fails half way.  The pool's construction and Close are    *)
(* here too.                                                               *)
(*                                                                         *)
(* The components appear by what the process needs of them: Health shows   *)
(* that the checker's Stop returns and silences it, RateLimit that Close   *)
(* returns, Exchange that the handler of a cancelled RPC returns.  The     *)
(* gRPC and HTTP servers are external.  Nobody waits for the two           *)
(* goroutines that run their Serve: a shutdown may begin, and even end,    *)
(* before one of them has run.                                             *)
(***************************************************************************)
EXTENDS Config

CONSTANTS
    RPCs,     \* the requests of the run
    Inputs    \* command lines, files and environments

Rates == {"rps", "burst", "per_client_rps", "per_client_burst"}

\* The flags resolveConfig declares, the variables ApplyEnv looks up, and numbers
\* where the decoder asks for numbers.
ASSUME InputsAssumption ==
    \A i \in Inputs :
        /\ DOMAIN i.flags \subseteq {"listen", "admin_listen", "level"}
        /\ DOMAIN i.env \subseteq {"listen", "admin_listen", "backends", "level", "rps",
                                  "hash_header", "max_attempts"}
        /\ \A k \in Rates : /\ k \in DOMAIN i.file => i.file[k] \in Int
                            /\ k \in DOMAIN i.env => i.env[k] \in Int

VARIABLES
    main,      \* where the main goroutine is
    in, cfg,   \* the input and what was resolved from it, until the pool stands
    conns,     \* backends with an open connection, as positions in cfg.backends
    up,        \* the backends the checker last found healthy
    checker,   \* the checker's goroutines: "off", "running", "stopping"
    janitor,   \* the limiter's goroutine is running
    lns,       \* the open listeners
    serve,     \* where the goroutine of each server's Serve is
    failed,    \* serveErr or adminErr has received a result
    signal,    \* ctx has ended
    stopper,   \* the goroutine that runs GracefulStop
    expired,   \* the grace is over
    cancelled, \* grpcSrv.Stop has cancelled the RPCs
    rpc,       \* where the handler of each RPC is
    scrape,    \* an admin connection is busy: new, or its request being served
    why        \* what made runWith return an error

startup == <<in, cfg, why>>
servers == <<lns, serve, failed, stopper, expired, cancelled, rpc, scrape>>
vars == <<main, startup, conns, up, checker, janitor, signal, servers>>

NoInput == [path |-> FALSE]
NoConfig == [none |-> TRUE]

Ports == {"grpc", "admin"}

Running == {r \in RPCs : rpc[r] = "running"}

Init ==
    /\ main = "resolve"
    /\ in = NoInput /\ cfg = NoConfig /\ why = "none"
    /\ conns = {} /\ up = {} /\ checker = "off" /\ janitor = FALSE
    /\ lns = {} /\ serve = [l \in Ports |-> "off"] /\ failed = FALSE /\ signal = FALSE
    /\ stopper = "off" /\ expired = FALSE /\ cancelled = FALSE
    /\ rpc = [r \in RPCs |-> "idle"] /\ scrape = FALSE

-----------------------------------------------------------------------------
(* runWith up to the select.                                               *)

Resolve ==
    /\ main = "resolve"
    /\ \E i \in Inputs :
         LET res == resolveConfig(i)
         IN IF res.ok
            THEN main' = "pool" /\ in' = i /\ cfg' = res.cfg /\ UNCHANGED why
            ELSE main' = "returned" /\ why' = "config" /\ UNCHANGED <<in, cfg>>
    /\ UNCHANGED <<conns, up, checker, janitor, signal, servers>>

\* newBackend, for the backends in order; with all of them the pool is done.
NewBackend ==
    LET i == Cardinality(conns) + 1
    IN  /\ main = "pool" /\ i \in DOMAIN cfg.backends
        /\ ~Unusable(cfg.backends, i, "id") /\ cfg.backends[i].addr # ""
        /\ conns' = conns \cup {i}
        /\ UNCHANGED <<main, startup, up, checker, janitor, signal, servers>>

\* newBackend refuses an entry, or the dial fails: newPool closes what it has.
PoolFails ==
    LET i == Cardinality(conns) + 1
    IN  /\ main = "pool" /\ i \in DOMAIN cfg.backends
        /\ why' = IF Unusable(cfg.backends, i, "id") \/ cfg.backends[i].addr = ""
                  THEN "backend" ELSE "dial"
        /\ conns' = {}
        /\ in' = NoInput /\ cfg' = NoConfig
        /\ main' = "returned"
        /\ UNCHANGED <<up, checker, janitor, signal, servers>>

\* Start, balancer.New and ratelimit.New; the janitor runs for per-client limits.
StartParts ==
    /\ main = "pool" /\ Cardinality(conns) = Len(cfg.backends)
    /\ checker' = "running"
    /\ janitor' = (cfg.rate_limit /\ cfg.per_client)
    /\ in' = NoInput /\ cfg' = NoConfig
    /\ main' = "listen"
    /\ UNCHANGED <<conns, up, why, signal, servers>>

\* With both ports open the goroutines of the two servers are spawned.
Listen(l) ==
    /\ main = "listen" /\ l = IF "grpc" \in lns THEN "admin" ELSE "grpc"
    /\ lns' = lns \cup {l}
    /\ \/ l = "grpc" /\ UNCHANGED <<main, serve>>
       \/ l = "admin" /\ main' = "select" /\ serve' = [p \in Ports |-> "spawned"]
    /\ UNCHANGED <<startup, conns, up, checker, janitor, signal, failed, stopper, expired, cancelled, rpc, scrape>>

\* Mutant: the proxy's listener is left open when the admin port is taken.
ListenFails_Leaks ==
    /\ main = "listen"
    /\ why' = "listen"
    /\ main' = "cleanup"
    /\ UNCHANGED <<in, cfg, conns, up, checker, janitor, signal, servers>>

ListenFails ==
    /\ main = "listen"
    /\ why' = "listen"
    /\ lns' = {}
    /\ main' = "cleanup"
    /\ UNCHANGED <<in, cfg, conns, up, checker, janitor, signal, serve, failed, stopper, expired, cancelled, rpc, scrape>>

-----------------------------------------------------------------------------
(* What runs beside it.                                                    *)

Signal ==
    /\ ~signal
    /\ signal' = TRUE
    /\ UNCHANGED <<main, startup, conns, up, checker, janitor, servers>>

\* A probe flips a backend (Health says when); it needs the connection.
Flip ==
    /\ checker \in {"running", "stopping"}
    /\ \E b \in conns : up' = (up \ {b}) \cup ({b} \ up)
    /\ UNCHANGED <<main, startup, conns, checker, janitor, signal, servers>>

Serving == main \in {"select", "stopChecker", "drain", "await", "admin", "adminWait", "close"}

\* The server has been told to stop.
ShutDown(l) ==
    IF l = "grpc" THEN cancelled \/ stopper \in {"draining", "stopped"}
    ELSE main \in {"adminWait", "close", "cleanup", "returned"}

\* Serve runs at last: it hands its listener to the server, or closes it when the
\* server has been told to stop.
ServeStarts(l) ==
    /\ serve[l] = "spawned"
    /\ \/ ShutDown(l) /\ serve' = [serve EXCEPT ![l] = "returned"] /\ lns' = lns \ {l}
       \/ ~ShutDown(l) /\ serve' = [serve EXCEPT ![l] = "serving"] /\ UNCHANGED lns
    /\ UNCHANGED <<main, startup, conns, up, checker, janitor, signal, failed, stopper, expired, cancelled, rpc, scrape>>

\* Serve returns with an error and closes its listener; connections that are open
\* stay, and so do the RPCs on them.
ServeFails(l) ==
    /\ serve[l] = "serving" /\ ~ShutDown(l)
    /\ serve' = [serve EXCEPT ![l] = "returned"]
    /\ lns' = lns \ {l}
    /\ UNCHANGED <<main, startup, conns, up, checker, janitor, signal, failed, stopper, expired, cancelled, rpc, scrape>>

\* Serve of a server that stops returns: the gRPC server's when Stop or GracefulStop
\* is done, the admin server's when its listener is closed.
ServeReturns(l) ==
    /\ serve[l] = "serving" /\ ShutDown(l) /\ (l = "grpc" => cancelled \/ stopper = "stopped")
    /\ serve' = [serve EXCEPT ![l] = "returned"]
    /\ UNCHANGED <<main, startup, conns, up, checker, janitor, signal, lns, failed, stopper, expired, cancelled, rpc, scrape>>

\* The goroutine sends the result and ends.  The channel has room for it, so that
\* nobody has to receive it.
ServeSends(l) ==
    /\ serve[l] = "returned"
    /\ serve' = [serve EXCEPT ![l] = "ended"]
    /\ failed' = TRUE
    /\ UNCHANGED <<main, startup, conns, up, checker, janitor, signal, lns, stopper, expired, cancelled, rpc, scrape>>

\* Once Serve has run; Stop and GracefulStop refuse new streams from their first
\* moments on.
Accept(r) ==
    /\ Serving /\ ~ShutDown("grpc") /\ serve["grpc"] \notin {"off", "spawned"}
    /\ rpc[r] = "idle"
    /\ rpc' = [rpc EXCEPT ![r] = "running"]
    /\ UNCHANGED <<main, startup, conns, up, checker, janitor, signal, lns, serve, failed, stopper, expired, cancelled, scrape>>

\* A handler returns: its backend answered, or its context ended.
HandlerReturns(r) ==
    /\ rpc[r] = "running"
    /\ rpc' = [rpc EXCEPT ![r] = "done"]
    /\ UNCHANGED <<main, startup, conns, up, checker, janitor, signal, lns, serve, failed, stopper, expired, cancelled, scrape>>

\* An admin request begins, or ends; a profile takes as long as it was asked to,
\* and nothing cancels it.
Scrape ==
    /\ scrape \/ (Serving /\ ~ShutDown("admin") /\ serve["admin"] \notin {"off", "spawned"})
    /\ scrape' = ~scrape
    /\ UNCHANGED <<main, startup, conns, up, checker, janitor, signal, lns, serve, failed, stopper, expired, cancelled, rpc>>

\* The listeners that are left when a server closes the one its Serve has handed
\* to it; of one that has not run yet it knows nothing.
Unserved(l) == IF serve[l] = "spawned" THEN lns ELSE lns \ {l}

\* GracefulStop: close the listener, then wait for every handler.
GracefulStop ==
    /\ \/ stopper = "spawned" /\ stopper' = "draining" /\ lns' = Unserved("grpc")
       \/ stopper = "draining" /\ Running = {} /\ stopper' = "stopped" /\ UNCHANGED lns
    /\ UNCHANGED <<main, startup, conns, up, checker, janitor, signal, serve, failed, expired, cancelled, rpc, scrape>>

\* The deadline of shutdown's context.
Expire ==
    /\ main \in {"drain", "await", "admin", "adminWait"} /\ ~expired
    /\ expired' = TRUE
    /\ UNCHANGED <<main, startup, conns, up, checker, janitor, signal, lns, serve, failed, stopper, cancelled, rpc, scrape>>

-----------------------------------------------------------------------------
(* The select and shutdown.                                                *)

Wake ==
    /\ main = "select" /\ (signal \/ failed)
    /\ main' = "stopChecker"
    /\ checker' = "stopping"
    /\ UNCHANGED <<startup, conns, up, janitor, signal, servers>>

\* Mutant: Stop only asks the checker to end.
CheckerStopped_NoWait ==
    /\ main = "stopChecker"
    /\ stopper' = "spawned"
    /\ main' = "drain"
    /\ UNCHANGED <<startup, conns, up, checker, janitor, signal, lns, serve, failed, expired, cancelled, rpc, scrape>>

\* Stop has waited for the checker; GracefulStop is spawned.
CheckerStopped ==
    /\ main = "stopChecker"
    /\ checker' = "off"
    /\ stopper' = "spawned"
    /\ main' = "drain"
    /\ UNCHANGED <<startup, conns, up, janitor, signal, lns, serve, failed, expired, cancelled, rpc, scrape>>

Drained ==
    /\ main \in {"drain", "await"} /\ stopper = "stopped"
    /\ main' = "admin"
    /\ UNCHANGED <<startup, conns, up, checker, janitor, signal, servers>>

\* Mutant: main goes on without waiting for the goroutine of GracefulStop.
ForceStop_NoWait ==
    /\ main = "drain" /\ expired
    /\ cancelled' = TRUE
    /\ lns' = Unserved("grpc")
    /\ main' = "admin"
    /\ UNCHANGED <<startup, conns, up, checker, janitor, signal, serve, failed, stopper, expired, rpc, scrape>>

\* The grace is over first: Stop closes the listener, if GracefulStop has not yet,
\* and cancels every RPC; main waits on.
ForceStop ==
    /\ main = "drain" /\ expired
    /\ cancelled' = TRUE
    /\ lns' = Unserved("grpc")
    /\ main' = "await"
    /\ UNCHANGED <<startup, conns, up, checker, janitor, signal, serve, failed, stopper, expired, rpc, scrape>>

AdminShutdown ==
    /\ main = "admin"
    /\ lns' = Unserved("admin")
    /\ main' = "adminWait"
    /\ UNCHANGED <<startup, conns, up, checker, janitor, signal, serve, failed, stopper, expired, cancelled, rpc, scrape>>

\* Shutdown waits for a Serve that is running, and until the same deadline for what
\* is being served.  Close then closes the connections; it does not wait for their
\* handlers.
AdminStopped ==
    /\ main = "adminWait" /\ serve["admin"] # "serving"
    /\ ~scrape \/ expired
    /\ main' = "close"
    /\ UNCHANGED <<startup, conns, up, checker, janitor, signal, servers>>

\* bal.Close changes nothing that is modelled.
ClosePool ==
    /\ main = "close" /\ conns # {}
    /\ conns' = {}
    /\ UNCHANGED <<main, startup, up, checker, janitor, signal, servers>>

CloseLimiter ==
    /\ main = "close" /\ conns = {}
    /\ janitor' = FALSE
    /\ main' = "cleanup"
    /\ UNCHANGED <<startup, conns, up, checker, signal, servers>>

\* The deferred cleanups, last in first out: limiter, balancer, checker, pool.
Cleanup ==
    /\ main = "cleanup"
    /\ janitor' = FALSE
    /\ \/ checker = "running" /\ checker' = "stopping" /\ UNCHANGED <<main, conns>>
       \/ checker = "stopping" /\ checker' = "off" /\ UNCHANGED <<main, conns>>
       \/ checker = "off" /\ conns' = {} /\ main' = "returned" /\ UNCHANGED checker
    /\ UNCHANGED <<startup, up, signal, servers>>

-----------------------------------------------------------------------------
Main ==
    \/ Resolve \/ NewBackend \/ PoolFails \/ StartParts
    \/ ListenFails \/ \E l \in Ports : Listen(l)
    \/ Wake \/ CheckerStopped \/ Drained \/ ForceStop
    \/ AdminShutdown \/ AdminStopped \/ ClosePool \/ CloseLimiter \/ Cleanup

Rest == main = "returned" /\ UNCHANGED vars

Next ==
    \/ Main \/ Signal \/ Flip \/ Scrape \/ GracefulStop \/ Expire \/ Rest
    \/ \E l \in Ports : ServeStarts(l) \/ ServeFails(l) \/ ServeReturns(l) \/ ServeSends(l)
    \/ \E r \in RPCs : Accept(r) \/ HandlerReturns(r)

\* Nobody has to start the program; once it is started goroutines run, time passes,
\* and a handler whose context has ended returns.  Nothing is asked of backends,
\* clients and admin requests.
Spec ==
    /\ Init /\ [][Next]_vars
    /\ WF_vars(main # "resolve" /\ Main) /\ WF_vars(GracefulStop) /\ WF_vars(Expire)
    /\ \A l \in Ports : WF_vars(ServeStarts(l) \/ ServeReturns(l) \/ ServeSends(l))
    /\ \A r \in RPCs : WF_vars(cancelled /\ HandlerReturns(r))

-----------------------------------------------------------------------------
(* Properties.                                                             *)

Phase ==
    IF main \in {"close", "cleanup", "returned"} /\ conns = {} THEN "closed"
    ELSE IF ShutDown("grpc") THEN "draining"
    ELSE IF Serving THEN "up" ELSE "down"

\* The ports that are open or have a goroutine.
Held == {l \in Ports : l \in lns \/ serve[l] \in {"spawned", "serving", "returned"}}

Promise == INSTANCE Drain WITH
    phase <- Phase,
    asked <- signal \/ failed,
    active <- Running,
    held <- Held

\* The process implements Drain: connections are closed only after the last
\* handler has returned, on the graceful and on the forced path, nothing is
\* accepted once it drains, and a signal or a failed server ends in a closed
\* process although a backend may hang for ever (shutdown's comment).  A start that
\* fails has closed its ports before runWith returns; otherwise both ports are
\* given back and both goroutines of Serve end, although runWith waits for neither
\* ("Buffered so neither goroutine outlives the RPC of shutting down").
Drains == Promise!Spec

\* When runWith returns, from whichever point of start-up or shutdown, no
\* connection, goroutine of a component or RPC is left (newPool: "rather than
\* leaking a connection per failed start"); a listener is open only if its Serve has
\* not run yet, which closes it first thing, and an admin handler runs only past
\* the grace (Close does not wait for it).
NothingLeaks ==
    main = "returned" =>
        /\ conns = {} /\ checker = "off" /\ ~janitor /\ Running = {}
        /\ \A l \in lns : serve[l] = "spawned"
        /\ scrape => expired

\* While requests drain no backend flips (shutdown: "stop probing first so a
\* backend cannot flip while traffic is draining"), and probing never outlives
\* the connections it uses.
SteadyWhileDraining ==
    [][/\ stopper # "off" => up' = up
       /\ checker # "off" => conns \subseteq conns']_vars

\* What resolveConfig accepts, the components can be built from: the pool fails
\* only by a dial, every limit that is on lets somebody through, and a burst that
\* the file does not give follows the rate in force, whichever layer set it.
AcceptedIsUsable ==
    /\ why # "backend"
    /\ main = "pool" =>
         /\ cfg.rate_limit => cfg.rps > 0 /\ cfg.burst > 0
         /\ cfg.rate_limit /\ cfg.per_client => cfg.per_client_rps > 0 /\ cfg.per_client_burst > 0
         /\ in.path /\ "burst" \notin DOMAIN in.file => cfg.burst = burstFor(cfg.rps)
=============================================================================
