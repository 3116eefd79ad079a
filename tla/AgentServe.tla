----------------------------- MODULE AgentServe -----------------------------
(***************************************************************************)
(* Agent.ListenAndServe (cmd/agent/agent_server.go) under runAgent's       *)
(* signal handler: the goroutine that opens listeners and sends them over  *)
(* an unbuffered channel, the main goroutine that starts a Serve for each  *)
(* in an errgroup, and the goroutine that stops the gRPC server when the   *)
(* context is cancelled, by a signal or by the first Serve that fails.     *)
(***************************************************************************)
EXTENDS Naturals

CONSTANTS
    Main,          \* the vsock or virtio-serial listener
    Addr,          \* IPv6 link-local addresses that may come up
    MaxAttempt,    \* 20 in the code
    MaxRpc         \* bound: requests in progress

ASSUME ServeAssumption ==
    /\ Main \notin Addr
    /\ MaxAttempt \in Nat /\ MaxRpc \in Nat

Listener == {Main} \cup Addr

VARIABLES
    ctx,        \* the errgroup's context: "live" or "done"
    lpc,        \* the listener goroutine, "none" before it is started
    offer,      \* the listeners it has opened and not yet handed over (0 or 1)
    toBind,     \* addresses of the last scan it has yet to bind
    processed,  \* addresses bound so far
    up,         \* addresses the guest has configured
    attempt,    \* scans after the first
    mpc,        \* the main goroutine
    srv,        \* srv[l]: the Serve of listener l
    open,       \* listeners with an open socket
    grpc,       \* the gRPC server: "up", "stopping" in GracefulStop, "stopped"
    rpcs        \* requests in progress

listenerVars == <<lpc, offer, toBind, processed, attempt>>
vars == <<ctx, listenerVars, up, mpc, srv, open, grpc, rpcs>>

TypeOK ==
    /\ ctx \in {"live", "done"}
    /\ lpc \in {"none", "open", "send", "addrs", "bind", "tick", "closed"}
    /\ offer \in SUBSET Listener
    /\ lpc = "send" <=> offer # {}
    /\ toBind \in SUBSET Addr /\ processed \in SUBSET Addr /\ up \in SUBSET Addr
    /\ attempt \in 0..MaxAttempt
    /\ mpc \in {"setup", "range", "wait", "group", "returned"}
    /\ srv \in [Listener -> {"none", "starting", "serving", "stopped", "failed"}]
    /\ open \in SUBSET Listener
    /\ grpc \in {"up", "stopping", "stopped"}
    /\ rpcs \in 0..MaxRpc

Init ==
    /\ ctx = "live"
    /\ lpc = "none"
    /\ offer = {} /\ toBind = {} /\ processed = {}
    /\ up \in SUBSET Addr
    /\ attempt = 0
    /\ mpc = "setup"
    /\ srv = [l \in Listener |-> "none"]
    /\ open = {}
    /\ grpc = "up"
    /\ rpcs = 0

-----------------------------------------------------------------------------
(* The listener goroutine *)

OpenMain ==
    /\ lpc = "open"
    /\ lpc' = "send" /\ offer' = {Main}
    /\ open' = open \cup {Main}
    /\ UNCHANGED <<ctx, toBind, processed, up, attempt, mpc, srv, grpc, rpcs>>

\* The error is logged and the deferred close(listeners) runs.
OpenMainFails ==
    /\ lpc = "open"
    /\ lpc' = "closed"
    /\ UNCHANGED <<ctx, offer, toBind, processed, attempt, up, mpc, srv, open, grpc, rpcs>>

\* getLinkLocalAddrs.
Scan ==
    /\ lpc = "addrs"
    /\ toBind' = up \ processed
    /\ lpc' = "bind"
    /\ UNCHANGED <<ctx, offer, processed, attempt, up, mpc, srv, open, grpc, rpcs>>

ScanFails ==
    /\ lpc = "addrs"
    /\ lpc' = "closed"
    /\ UNCHANGED <<ctx, offer, toBind, processed, attempt, up, mpc, srv, open, grpc, rpcs>>

\* tls.Listen succeeds and the listener is offered to the main goroutine.
Bind(a) ==
    /\ lpc = "bind" /\ a \in toBind
    /\ toBind' = toBind \ {a}
    /\ lpc' = "send" /\ offer' = {a}
    /\ open' = open \cup {a}
    /\ UNCHANGED <<ctx, processed, attempt, up, mpc, srv, grpc, rpcs>>

\* The address is left for the next scan.
BindFails(a) ==
    /\ lpc = "bind" /\ a \in toBind
    /\ toBind' = toBind \ {a}
    /\ UNCHANGED <<ctx, lpc, offer, processed, attempt, up, mpc, srv, open, grpc, rpcs>>

Scanned ==
    /\ lpc = "bind" /\ toBind = {}
    /\ lpc' = "tick"
    /\ UNCHANGED <<ctx, offer, toBind, processed, attempt, up, mpc, srv, open, grpc, rpcs>>

\* Three seconds pass.
Tick ==
    /\ lpc = "tick"
    /\ IF attempt = MaxAttempt
       THEN lpc' = "closed" /\ UNCHANGED attempt
       ELSE lpc' = "addrs" /\ attempt' = attempt + 1
    /\ UNCHANGED <<ctx, offer, toBind, processed, up, mpc, srv, open, grpc, rpcs>>

ScanCancelled ==
    /\ lpc = "tick" /\ ctx = "done"
    /\ lpc' = "closed"
    /\ UNCHANGED <<ctx, offer, toBind, processed, attempt, up, mpc, srv, open, grpc, rpcs>>

-----------------------------------------------------------------------------
(* The main goroutine *)

\* The certificates, the gRPC server, core.NewServer and its services are there;
\* the goroutines that open listeners and that wait for the context are started.
SetUp ==
    /\ mpc = "setup"
    /\ mpc' = "range" /\ lpc' = "open"
    /\ UNCHANGED <<ctx, offer, toBind, processed, attempt, up, srv, open, grpc, rpcs>>

\* One of them cannot be had, and ListenAndServe returns the error.
SetUpFails ==
    /\ mpc = "setup"
    /\ mpc' = "returned"
    /\ UNCHANGED <<ctx, listenerVars, up, srv, open, grpc, rpcs>>

\* After a vsock listener, or WithoutTCP, there are no others; after the serial
\* port the addresses are looked for; after an address its scan goes on.
AfterHandOver(l) ==
    IF l = Main THEN lpc' \in {"closed", "addrs"} ELSE lpc' = "bind"

\* The channel is unbuffered: the send and the range meet, the main goroutine
\* starts a Serve and the listener goroutine goes on.
HandOver(l) ==
    /\ lpc = "send" /\ mpc = "range" /\ l \in offer
    /\ offer' = {}
    /\ processed' = processed \cup ({l} \ {Main})
    /\ AfterHandOver(l)
    /\ srv' = [srv EXCEPT ![l] = "starting"]
    /\ UNCHANGED <<ctx, toBind, attempt, up, mpc, open, grpc, rpcs>>

\* The range ends; with no server this is logged, and the wait begins anyway.
RangeEnds ==
    /\ lpc = "closed" /\ mpc = "range"
    /\ mpc' = "wait"
    /\ UNCHANGED <<ctx, listenerVars, up, srv, open, grpc, rpcs>>

\* Seeded bug: ListenAndServe returns without waiting for its Serves.
IdleClosedReturns ==
    /\ mpc = "wait" /\ grpc = "stopped"
    /\ mpc' = "returned"
    /\ UNCHANGED <<ctx, listenerVars, up, srv, open, grpc, rpcs>>

\* <-idleConnsClosed.
IdleClosed ==
    /\ mpc = "wait" /\ grpc = "stopped"
    /\ mpc' = "group"
    /\ UNCHANGED <<ctx, listenerVars, up, srv, open, grpc, rpcs>>

\* group.Wait().
GroupWait ==
    /\ mpc = "group"
    /\ \A l \in Listener : srv[l] \in {"none", "stopped", "failed"}
    /\ mpc' = "returned"
    /\ UNCHANGED <<ctx, listenerVars, up, srv, open, grpc, rpcs>>

-----------------------------------------------------------------------------
(* The Serve goroutines and the gRPC server *)

ServeStarts(l) ==
    /\ srv[l] = "starting" /\ grpc = "up"
    /\ srv' = [srv EXCEPT ![l] = "serving"]
    /\ UNCHANGED <<ctx, listenerVars, up, mpc, open, grpc, rpcs>>

\* Serve on a server that was told to stop closes the listener and fails, and
\* Accept may fail for good; either error cancels the errgroup's context.
ServeFails(l) ==
    /\ \/ srv[l] = "starting" /\ grpc # "up"
       \/ srv[l] = "serving" /\ grpc = "up"
    /\ srv' = [srv EXCEPT ![l] = "failed"]
    /\ open' = open \ {l}
    /\ ctx' = "done"
    /\ UNCHANGED <<listenerVars, up, mpc, grpc, rpcs>>

\* A Serve that is being stopped returns nil once GracefulStop is over.
ServeStops(l) ==
    /\ srv[l] = "serving" /\ grpc = "stopped"
    /\ srv' = [srv EXCEPT ![l] = "stopped"]
    /\ UNCHANGED <<ctx, listenerVars, up, mpc, open, grpc, rpcs>>

\* GracefulStop: the listeners being served are closed, and no request starts.
GracefulStop ==
    /\ ctx = "done" /\ grpc = "up" /\ lpc # "none"
    /\ grpc' = "stopping"
    /\ open' = {l \in open : srv[l] # "serving"}
    /\ UNCHANGED <<ctx, listenerVars, up, mpc, srv, rpcs>>

\* GracefulStop returns with the last request; close(idleConnsClosed).
GracefulStopped ==
    /\ grpc = "stopping" /\ rpcs = 0
    /\ grpc' = "stopped"
    /\ UNCHANGED <<ctx, listenerVars, up, mpc, srv, open, rpcs>>

RpcStarts ==
    /\ grpc = "up" /\ rpcs < MaxRpc
    /\ \E l \in Listener : srv[l] = "serving"
    /\ rpcs' = rpcs + 1
    /\ UNCHANGED <<ctx, listenerVars, up, mpc, srv, open, grpc>>

RpcEnds ==
    /\ rpcs > 0
    /\ rpcs' = rpcs - 1
    /\ UNCHANGED <<ctx, listenerVars, up, mpc, srv, open, grpc>>

-----------------------------------------------------------------------------
(* The guest *)

\* SIGTERM or SIGINT: runAgent's goroutine cancels the context.
Signal ==
    /\ ctx = "live"
    /\ ctx' = "done"
    /\ UNCHANGED <<listenerVars, up, mpc, srv, open, grpc, rpcs>>

AddressUp(a) ==
    /\ a \notin up
    /\ up' = up \cup {a}
    /\ UNCHANGED <<ctx, listenerVars, mpc, srv, open, grpc, rpcs>>

Listeners ==
    \/ OpenMain \/ OpenMainFails
    \/ Scan \/ ScanFails \/ Scanned
    \/ \E a \in Addr : Bind(a) \/ BindFails(a)
    \/ Tick \/ ScanCancelled

Goroutines ==
    \/ SetUp \/ SetUpFails
    \/ \E l \in Listener : HandOver(l)
    \/ RangeEnds \/ IdleClosed \/ GroupWait
    \/ GracefulStop \/ GracefulStopped

Next ==
    \/ Listeners
    \/ Goroutines
    \/ \E l \in Listener : ServeStarts(l) \/ ServeFails(l) \/ ServeStops(l)
    \/ RpcStarts \/ RpcEnds
    \/ Signal
    \/ \E a \in Addr : AddressUp(a)

Spec == Init /\ [][Next]_vars

-----------------------------------------------------------------------------
(* Properties *)

\* When ListenAndServe returns nothing is left behind: no socket, no Serve, no
\* request, no listener goroutine, also when listeners came up during the stop,
\* and when the signal came before any of them.
NothingLeft ==
    mpc = "returned" =>
        /\ open = {} /\ rpcs = 0 /\ lpc \in {"none", "closed"}
        /\ \A l \in Listener : srv[l] \in {"none", "stopped", "failed"}

\* An open socket is always in somebody's hands: offered to the main goroutine
\* or under a Serve that will close it.
SocketOwned == \A l \in open : l \in offer \/ srv[l] \in {"starting", "serving"}

\* After a signal, or after the first Serve that failed, ListenAndServe returns,
\* wherever the listener goroutine is.
StopCompletes == (ctx = "done") ~> (mpc = "returned")
=============================================================================
