---------------------------- MODULE ForwardedTCP ----------------------------
(***************************************************************************)
(* Port forwarding of the SSH package (internal/secure_shell/tcpip.go): a  *)
(* ForwardedTCPHandler keeps one listener per address in a map shared by   *)
(* all connections.  A forwarding is a listener, a goroutine that accepts  *)
(* from it and one that waits for its connection to end; each of them goes *)
(* to the map by address, and takes what it finds there for its own.       *)
(* What becomes of an accepted socket is in SSHProxy.                      *)
(***************************************************************************)
EXTENDS Naturals

CONSTANTS
    Conn,     \* SSH connections
    Fwd,      \* forwardings that may be asked for, numbered in their order
    Fixed,    \* addresses with a port
    AnyPort,  \* the address with port 0, which many listeners may share
    None

ASSUME ForwardAssumption ==
    /\ AnyPort \notin Fixed
    /\ Fwd \subseteq Nat /\ None \notin Fwd \cup Conn

Addr == Fixed \cup {AnyPort}

VARIABLES
    done,      \* connections whose context is done
    handler,   \* handler[c]: what the request goroutine of c is about to do
    forwards,  \* the handler's map, None where there is no entry
    owner,     \* owner[f]: the connection that asked for f
    addr,      \* addr[f]: its key in the map
    open,      \* forwardings with an open listener
    acceptor,  \* acceptor[f]: its accepting goroutine
    watcher,   \* watcher[f]: the goroutine that waits for its context
    strays,    \* history: forwardings whose entry went to, or with, another
    cancelled  \* history: forwardings a cancel request has found

mapVars == <<forwards, owner, addr, open, strays, cancelled>>
forwardVars == <<done, handler, mapVars, acceptor, watcher>>

Idle == [do |-> "idle", f |-> None]
Closing(f) == [do |-> "close", f |-> f]

ForwardTypeOK ==
    /\ done \subseteq Conn
    /\ handler \in [Conn -> [do: {"idle", "store", "close"}, f: Fwd \cup {None}]]
    /\ forwards \in [Addr -> Fwd \cup {None}]
    /\ owner \in [Fwd -> Conn \cup {None}]
    /\ addr \in [Fwd -> Addr \cup {None}]
    /\ open \subseteq Fwd
    /\ acceptor \in [Fwd -> {"none", "accept", "delete", "ended"}]
    /\ watcher \in [Fwd -> [do: {"idle", "wait", "close", "ended"}, f: Fwd \cup {None}]]
    /\ strays \subseteq Fwd /\ cancelled \subseteq Fwd

ForwardInit ==
    /\ done = {}
    /\ handler = [c \in Conn |-> Idle]
    /\ forwards = [a \in Addr |-> None]
    /\ owner = [f \in Fwd |-> None]
    /\ addr = [f \in Fwd |-> None]
    /\ open = {}
    /\ acceptor = [f \in Fwd |-> "none"]
    /\ watcher = [f \in Fwd |-> Idle]
    /\ strays = {} /\ cancelled = {}

-----------------------------------------------------------------------------
(* tcpip-forward and cancel-tcpip-forward: requests of one connection are *)
(* handled one after the other, those still queued when it ends too *)

\* net.Listen; a port that is listened on cannot be listened on again.
Listen(c, f, a) ==
    /\ handler[c].do = "idle"
    /\ owner[f] = None /\ \A g \in Fwd : g < f => owner[g] # None
    /\ a = AnyPort \/ \A g \in open : addr[g] # a
    /\ owner' = [owner EXCEPT ![f] = c]
    /\ addr' = [addr EXCEPT ![f] = a]
    /\ open' = open \cup {f}
    /\ handler' = [handler EXCEPT ![c] = [do |-> "store", f |-> f]]
    /\ UNCHANGED <<done, forwards, strays, cancelled, acceptor, watcher>>

\* Seeded bug: the listener is stored last, after its goroutines have started.
StoreLate(c) ==
    LET f == handler[c].f
    IN  /\ handler[c].do = "store"
        /\ IF acceptor[f] = "none"
           THEN /\ acceptor' = [acceptor EXCEPT ![f] = "accept"]
                /\ watcher' = [watcher EXCEPT ![f] = [do |-> "wait", f |-> None]]
                /\ UNCHANGED <<forwards, strays, handler>>
           ELSE /\ forwards' = [forwards EXCEPT ![addr[f]] = f]
                /\ strays' = strays \cup ({forwards[addr[f]]} \ {None})
                /\ handler' = [handler EXCEPT ![c] = Idle]
                /\ UNCHANGED <<acceptor, watcher>>
        /\ UNCHANGED <<done, owner, addr, open, cancelled>>

\* The listener goes into the map, over whatever is there; then the goroutines
\* start and the request is answered.
Store(c) ==
    LET f == handler[c].f
    IN  /\ handler[c].do = "store"
        /\ forwards' = [forwards EXCEPT ![addr[f]] = f]
        /\ strays' = strays \cup ({forwards[addr[f]]} \ {None})
        /\ acceptor' = [acceptor EXCEPT ![f] = "accept"]
        /\ watcher' = [watcher EXCEPT ![f] = [do |-> "wait", f |-> None]]
        /\ handler' = [handler EXCEPT ![c] = Idle]
        /\ UNCHANGED <<done, owner, addr, open, cancelled>>

\* Any connection may cancel any address.
Cancel(c, a) ==
    /\ handler[c].do = "idle"
    /\ forwards[a] # None
    /\ handler' = [handler EXCEPT ![c] = Closing(forwards[a])]
    /\ cancelled' = cancelled \cup {forwards[a]}
    /\ UNCHANGED <<done, forwards, owner, addr, open, strays, acceptor, watcher>>

CancelCloses(c) ==
    /\ handler[c].do = "close"
    /\ open' = open \ {handler[c].f}
    /\ handler' = [handler EXCEPT ![c] = Idle]
    /\ UNCHANGED <<done, forwards, owner, addr, strays, cancelled, acceptor, watcher>>

\* serverConn is closed, or a read or write of it fails: the context is cancelled.
ConnEnds(c) ==
    /\ c \notin done
    /\ done' = done \cup {c}
    /\ UNCHANGED <<handler, mapVars, acceptor, watcher>>

-----------------------------------------------------------------------------
(* The goroutines of a forwarding *)

\* <-ctx.Done(), then the map is asked for the listener of the address.
Look(f) ==
    /\ watcher[f].do = "wait" /\ owner[f] \in done
    /\ watcher' = [watcher EXCEPT ![f] =
                     IF forwards[addr[f]] = None THEN [do |-> "ended", f |-> None]
                     ELSE Closing(forwards[addr[f]])]
    /\ UNCHANGED <<done, handler, mapVars, acceptor>>

\* Seeded bug: the entry is removed where the listener should be closed.
CloseFoundForgets(f) ==
    /\ watcher[f].do = "close"
    /\ forwards' = [forwards EXCEPT ![addr[f]] = None]
    /\ watcher' = [watcher EXCEPT ![f] = [do |-> "ended", f |-> None]]
    /\ UNCHANGED <<done, handler, owner, addr, open, strays, cancelled, acceptor>>

CloseFound(f) ==
    /\ watcher[f].do = "close"
    /\ open' = open \ {watcher[f].f}
    /\ watcher' = [watcher EXCEPT ![f] = [do |-> "ended", f |-> None]]
    /\ UNCHANGED <<done, handler, forwards, owner, addr, strays, cancelled, acceptor>>

AcceptClosed(f) ==
    /\ acceptor[f] = "accept" /\ f \notin open
    /\ acceptor' = [acceptor EXCEPT ![f] = "delete"]
    /\ UNCHANGED <<done, handler, mapVars, watcher>>

\* Any error ends the loop, also one of an open listener, which nobody closes.
AcceptFails(f) ==
    /\ acceptor[f] = "accept" /\ f \in open
    /\ acceptor' = [acceptor EXCEPT ![f] = "delete"]
    /\ strays' = strays \cup {f}
    /\ UNCHANGED <<done, handler, forwards, owner, addr, open, cancelled, watcher>>

\* The entry of the address goes, whoever's it is.
Delete(f) ==
    /\ acceptor[f] = "delete"
    /\ forwards' = [forwards EXCEPT ![addr[f]] = None]
    /\ strays' = strays \cup ({forwards[addr[f]]} \ {f, None})
    /\ acceptor' = [acceptor EXCEPT ![f] = "ended"]
    /\ UNCHANGED <<done, handler, owner, addr, open, cancelled, watcher>>

-----------------------------------------------------------------------------

Handles(c) == Store(c) \/ CancelCloses(c)
Runs(f) == Look(f) \/ CloseFound(f) \/ AcceptClosed(f) \/ Delete(f)

ForwardNext ==
    \/ \E c \in Conn :
         \/ \E f \in Fwd, a \in Addr : Listen(c, f, a)
         \/ \E a \in Addr : Cancel(c, a)
         \/ Handles(c)
         \/ ConnEnds(c)
    \/ \E f \in Fwd :
         \/ Runs(f)
         \/ AcceptFails(f)

ForwardSpec == ForwardInit /\ [][ForwardNext]_forwardVars

\* Goroutines that can run do.  Nobody has to ask for anything, and
\* no connection has to end.
ForwardFairness ==
    /\ \A c \in Conn : WF_forwardVars(Handles(c))
    /\ \A f \in Fwd : WF_forwardVars(Look(f) \/ CloseFound(f))
    /\ \A f \in Fwd : WF_forwardVars(AcceptClosed(f) \/ Delete(f))

ForwardFairSpec == ForwardSpec /\ ForwardFairness

-----------------------------------------------------------------------------
(* Properties *)

\* A listener is closed because its own connection has ended, because a cancel
\* request found it, or because the connection of another forwarding of the same
\* address has ended, whose goroutine took it for its own.
ClosedForCause ==
    \A f \in Fwd :
        owner[f] # None /\ f \notin open =>
            \/ owner[f] \in done
            \/ f \in cancelled
            \/ \E g \in Fwd \ {f} : addr[g] = addr[f] /\ owner[g] \in done

\* A forwarding is in the map from the end of its request to the end of its
\* accept loop, unless another one's request or accept loop took its entry.
MapIsRight ==
    \A f \in Fwd :
        acceptor[f] = "accept" /\ f \notin strays => forwards[addr[f]] = f

\* What the map of HandleSSHRequest and its listeners agree on at any time.
ForwardInv == ForwardTypeOK /\ ClosedForCause /\ MapIsRight

\* When its connection has ended, the listener of a forwarding is closed, unless
\* its map entry was overwritten or deleted by another, or its accept loop broke.
ForwardEnds ==
    \A f \in Fwd : (owner[f] # None /\ owner[f] \in done) ~> (f \notin open \/ f \in strays)

\* The map forgets a forwarding whose listener is closed.
DeadEntriesGo ==
    \A f \in Fwd, a \in Addr : (forwards[a] = f /\ f \notin open) ~> (forwards[a] # f)
=============================================================================
