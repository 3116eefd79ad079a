----------------------------- MODULE SSHServer ------------------------------
(***************************************************************************)
(* The life cycle of the built-in SSH server (internal/secure_shell,       *)
(* server.go): Serve and its accept loop, HandleConn, Shutdown and Close,  *)
(* and the state srv.mu protects: the tracked listeners and connections,   *)
(* the two wait groups and doneChan.                                       *)
(*                                                                         *)
(* Every region between srv.mu.Lock and Unlock is one step.  The channels  *)
(* and requests of an established connection are SSHSession's business.    *)
(***************************************************************************)
EXTENDS Naturals, FiniteSets

CONSTANTS
    Srv,        \* calls of Serve, each with a listener of its own
    Conn,       \* connections a client may open, each at most once
    Stop,       \* calls of Shutdown or Close
    MaxTemp     \* bound: temporary errors of Accept

ASSUME ServerAssumption ==
    /\ IsFiniteSet(Srv) /\ IsFiniteSet(Conn)
    /\ MaxTemp \in Nat

VARIABLES
    listening,   \* listening[s]: the listener of s is open
    listeners,   \* srv.listeners
    listenerWg,  \* srv.listenerWg
    conns,       \* srv.conns
    connWg,      \* srv.connWg
    doneChan,    \* srv.doneChan: "nil", "open" or "closed"
    spc,         \* spc[s]: where Serve is
    result,      \* result[s]: what Serve returned
    cpc,         \* cpc[c]: where HandleConn is
    cut,         \* the connections whose socket was closed
    kpc,         \* kpc[k]: where Shutdown or Close is
    temps,       \* temporary errors so far
    stopped,     \* history: listeners that were open and tracked at a stop
    awaited      \* history: awaited[k], the connections tracked when k began

srvVars == <<listening, spc, result, temps>>
muVars == <<listeners, listenerWg, conns, connWg, doneChan>>
vars == <<srvVars, muVars, cpc, cut, kpc, stopped, awaited>>

ServeAt == {"start", "accept", "failed", "leave", "returned"}
ConnAt == {"none", "handshake", "active", "leave", "ended"}
StopAt == {"idle", "listeners", "conns", "finished", "expired", "closed"}

\* The goroutines that hold a count of each wait group.
TrackedServes == {s \in Srv : spc[s] \in {"accept", "failed", "leave"}}
TrackedConns == {c \in Conn : cpc[c] \in {"active", "leave"}}

TypeOK ==
    /\ listening \in [Srv -> BOOLEAN]
    /\ listeners \in SUBSET Srv
    /\ listenerWg \in Nat
    /\ conns \in SUBSET Conn
    /\ connWg \in Nat
    /\ doneChan \in {"nil", "open", "closed"}
    /\ spc \in [Srv -> ServeAt]
    /\ result \in [Srv -> {"none", "ErrServerClosed", "error"}]
    /\ cpc \in [Conn -> ConnAt]
    /\ cut \in SUBSET Conn
    /\ kpc \in [Stop -> StopAt]
    /\ temps \in 0..MaxTemp
    /\ stopped \in SUBSET Srv
    /\ awaited \in [Stop -> SUBSET Conn]

Init ==
    /\ listening = [s \in Srv |-> TRUE]
    /\ listeners = {}
    /\ listenerWg = 0
    /\ conns = {}
    /\ connWg = 0
    /\ doneChan = "nil"
    /\ spc = [s \in Srv |-> "start"]
    /\ result = [s \in Srv |-> "none"]
    /\ cpc = [c \in Conn |-> "none"]
    /\ cut = {}
    /\ kpc = [k \in Stop |-> "idle"]
    /\ temps = 0
    /\ stopped = {}
    /\ awaited = [k \in Stop |-> {}]

-----------------------------------------------------------------------------
(* Serve *)

\* Serve: trackListener(l, true), which resets doneChan when the server looks
\* as if it were being reused.
TrackListener(s) ==
    /\ spc[s] = "start"
    /\ doneChan' = IF listeners = {} /\ conns = {} THEN "nil" ELSE doneChan
    /\ listeners' = listeners \cup {s}
    /\ listenerWg' = listenerWg + 1
    /\ spc' = [spc EXCEPT ![s] = "accept"]
    /\ UNCHANGED <<listening, result, temps, conns, connWg, cpc, cut, kpc, stopped, awaited>>

\* ensureHostSigner fails before the listener is tracked; l.Close() is deferred.
SetupFails(s) ==
    /\ spc[s] = "start"
    /\ spc' = [spc EXCEPT ![s] = "returned"]
    /\ result' = [result EXCEPT ![s] = "error"]
    /\ listening' = [listening EXCEPT ![s] = FALSE]
    /\ UNCHANGED <<temps, muVars, cpc, cut, kpc, stopped, awaited>>

\* A connection is accepted and HandleConn starts on it.
Accept(s, c) ==
    /\ spc[s] = "accept" /\ listening[s]
    /\ cpc[c] = "none"
    /\ cpc' = [cpc EXCEPT ![c] = "handshake"]
    /\ UNCHANGED <<srvVars, muVars, cut, kpc, stopped, awaited>>

\* Accept fails for good: the listener was closed, or broke.
AcceptFails(s) ==
    /\ spc[s] = "accept"
    /\ spc' = [spc EXCEPT ![s] = "failed"]
    /\ UNCHANGED <<listening, result, temps, muVars, cpc, cut, kpc, stopped, awaited>>

\* A temporary error: the loop sleeps and tries again unless the server is done.
AcceptFailsTemporarily(s) ==
    /\ spc[s] = "accept" /\ temps < MaxTemp
    /\ temps' = temps + 1
    /\ doneChan' = IF doneChan = "nil" THEN "open" ELSE doneChan
    /\ IF doneChan = "closed"
       THEN /\ spc' = [spc EXCEPT ![s] = "leave"]
            /\ result' = [result EXCEPT ![s] = "ErrServerClosed"]
       ELSE UNCHANGED <<spc, result>>
    /\ UNCHANGED <<listening, listeners, listenerWg, conns, connWg, cpc, cut, kpc, stopped, awaited>>

\* The select on getDoneChan() after a failed Accept.
CheckDone(s) ==
    /\ spc[s] = "failed"
    /\ doneChan' = IF doneChan = "nil" THEN "open" ELSE doneChan
    /\ result' = [result EXCEPT ![s] = IF doneChan = "closed" THEN "ErrServerClosed" ELSE "error"]
    /\ spc' = [spc EXCEPT ![s] = "leave"]
    /\ UNCHANGED <<listening, temps, listeners, listenerWg, conns, connWg, cpc, cut, kpc, stopped, awaited>>

\* Seeded bug: Done is called only for a listener still in the map, and Shutdown
\* has emptied the map.
UntrackListenerIfPresent(s) ==
    /\ spc[s] = "leave"
    /\ listeners' = listeners \ {s}
    /\ listenerWg' = IF s \in listeners THEN listenerWg - 1 ELSE listenerWg
    /\ listening' = [listening EXCEPT ![s] = FALSE]
    /\ spc' = [spc EXCEPT ![s] = "returned"]
    /\ UNCHANGED <<result, temps, conns, connWg, doneChan, cpc, cut, kpc, stopped, awaited>>

\* The deferred trackListener(l, false) and l.Close().
UntrackListener(s) ==
    /\ spc[s] = "leave"
    /\ listeners' = listeners \ {s}
    /\ listenerWg' = listenerWg - 1
    /\ listening' = [listening EXCEPT ![s] = FALSE]
    /\ spc' = [spc EXCEPT ![s] = "returned"]
    /\ UNCHANGED <<result, temps, conns, connWg, doneChan, cpc, cut, kpc, stopped, awaited>>

-----------------------------------------------------------------------------
(* HandleConn *)

\* ConnCallback turns the connection down, or NewServerConn fails: a bad client,
\* a deadline, a closed socket.  The connection was never counted.
HandshakeFails(c) ==
    /\ cpc[c] = "handshake"
    /\ cpc' = [cpc EXCEPT ![c] = "ended"]
    /\ cut' = cut \cup {c}
    /\ UNCHANGED <<srvVars, muVars, kpc, stopped, awaited>>

\* Seeded bug: a connection that finishes its handshake after a stop is counted
\* and served, but not entered in srv.conns.
TrackConnUnlessDone(c) ==
    /\ cpc[c] = "handshake" /\ c \notin cut
    /\ conns' = IF doneChan = "closed" THEN conns ELSE conns \cup {c}
    /\ connWg' = connWg + 1
    /\ cpc' = [cpc EXCEPT ![c] = "active"]
    /\ UNCHANGED <<srvVars, listeners, listenerWg, doneChan, cut, kpc, stopped, awaited>>

\* NewServerConn succeeds and trackConn(sshConn, true) counts the connection.
TrackConn(c) ==
    /\ cpc[c] = "handshake" /\ c \notin cut
    /\ conns' = conns \cup {c}
    /\ connWg' = connWg + 1
    /\ cpc' = [cpc EXCEPT ![c] = "active"]
    /\ UNCHANGED <<srvVars, listeners, listenerWg, doneChan, cut, kpc, stopped, awaited>>

\* The client hangs up, or the idle deadline passes.
Disconnect(c) ==
    /\ cpc[c] = "active" /\ c \notin cut
    /\ cut' = cut \cup {c}
    /\ UNCHANGED <<srvVars, muVars, cpc, kpc, stopped, awaited>>

\* The channel loop ends once the socket is closed.
ChannelsEnd(c) ==
    /\ cpc[c] = "active" /\ c \in cut
    /\ cpc' = [cpc EXCEPT ![c] = "leave"]
    /\ UNCHANGED <<srvVars, muVars, cut, kpc, stopped, awaited>>

\* Seeded bug: Done is called only for a connection still in srv.conns.
UntrackConnIfPresent(c) ==
    /\ cpc[c] = "leave"
    /\ conns' = conns \ {c}
    /\ connWg' = IF c \in conns THEN connWg - 1 ELSE connWg
    /\ cpc' = [cpc EXCEPT ![c] = "ended"]
    /\ UNCHANGED <<srvVars, listeners, listenerWg, doneChan, cut, kpc, stopped, awaited>>

\* The deferred trackConn(sshConn, false) and conn.Close().
UntrackConn(c) ==
    /\ cpc[c] = "leave"
    /\ conns' = conns \ {c}
    /\ connWg' = connWg - 1
    /\ cpc' = [cpc EXCEPT ![c] = "ended"]
    /\ UNCHANGED <<srvVars, listeners, listenerWg, doneChan, cut, kpc, stopped, awaited>>

-----------------------------------------------------------------------------
(* Shutdown and Close *)

\* Seeded bug: doneChan is left open.
CloseListenersOnly ==
    /\ listening' = [s \in Srv |-> listening[s] /\ s \notin listeners]
    /\ listeners' = {}
    /\ doneChan' = IF doneChan = "nil" THEN "open" ELSE doneChan
    /\ stopped' = stopped \cup {s \in listeners : spc[s] = "accept"}

\* closeListenersLocked and closeDoneChanLocked, which both do under srv.mu.
CloseListeners ==
    /\ listening' = [s \in Srv |-> listening[s] /\ s \notin listeners]
    /\ listeners' = {}
    /\ doneChan' = "closed"
    /\ stopped' = stopped \cup {s \in listeners : spc[s] = "accept"}

Shutdown(k) ==
    /\ kpc[k] = "idle"
    /\ CloseListeners
    /\ kpc' = [kpc EXCEPT ![k] = "listeners"]
    /\ awaited' = [awaited EXCEPT ![k] = TrackedConns]
    /\ UNCHANGED <<spc, result, temps, listenerWg, conns, connWg, cpc, cut>>

\* listenerWg.Wait() and then connWg.Wait() in the goroutine of Shutdown.
ListenersGone(k) ==
    /\ kpc[k] = "listeners" /\ listenerWg = 0
    /\ kpc' = [kpc EXCEPT ![k] = "conns"]
    /\ UNCHANGED <<srvVars, muVars, cpc, cut, stopped, awaited>>

\* Seeded bug: Shutdown polls srv.conns instead of waiting for connWg.
ConnsGoneByMap(k) ==
    /\ kpc[k] = "conns" /\ conns = {}
    /\ kpc' = [kpc EXCEPT ![k] = "finished"]
    /\ UNCHANGED <<srvVars, muVars, cpc, cut, stopped, awaited>>

ConnsGone(k) ==
    /\ kpc[k] = "conns" /\ connWg = 0
    /\ kpc' = [kpc EXCEPT ![k] = "finished"]
    /\ UNCHANGED <<srvVars, muVars, cpc, cut, stopped, awaited>>

\* The context given to Shutdown ends first.
ContextExpires(k) ==
    /\ kpc[k] \in {"listeners", "conns"}
    /\ kpc' = [kpc EXCEPT ![k] = "expired"]
    /\ UNCHANGED <<srvVars, muVars, cpc, cut, stopped, awaited>>

Close(k) ==
    /\ kpc[k] = "idle"
    /\ CloseListeners
    /\ cut' = cut \cup conns
    /\ conns' = {}
    /\ kpc' = [kpc EXCEPT ![k] = "closed"]
    /\ awaited' = [awaited EXCEPT ![k] = TrackedConns]
    /\ UNCHANGED <<spc, result, temps, listenerWg, connWg, cpc>>

-----------------------------------------------------------------------------

ServeStep(s) ==
    \/ TrackListener(s)
    \/ SetupFails(s)
    \/ \E c \in Conn : Accept(s, c)
    \/ AcceptFails(s)
    \/ AcceptFailsTemporarily(s)
    \/ CheckDone(s)
    \/ UntrackListener(s)

ConnStep(c) ==
    \/ HandshakeFails(c)
    \/ TrackConn(c)
    \/ Disconnect(c)
    \/ ChannelsEnd(c)
    \/ UntrackConn(c)

StopStep(k) ==
    \/ Shutdown(k)
    \/ ListenersGone(k)
    \/ ConnsGone(k)
    \/ ContextExpires(k)
    \/ Close(k)

Next ==
    \/ \E s \in Srv : ServeStep(s)
    \/ \E c \in Conn : ConnStep(c)
    \/ \E k \in Stop : StopStep(k)

Spec == Init /\ [][Next]_vars

\* The scheduler runs every goroutine that can run.  Nothing makes anybody call
\* Serve, a client hang up or finish its handshake, or an Accept fail on an open
\* listener.
Fairness ==
    /\ \A s \in Srv :
          /\ WF_vars(~listening[s] /\ AcceptFails(s))
          /\ WF_vars(CheckDone(s))
          /\ WF_vars(UntrackListener(s))
    /\ \A c \in Conn : WF_vars(ChannelsEnd(c)) /\ WF_vars(UntrackConn(c))
    /\ \A k \in Stop : WF_vars(ListenersGone(k)) /\ WF_vars(ConnsGone(k))

FairSpec == Spec /\ Fairness

-----------------------------------------------------------------------------
(* Properties *)

\* The wait groups count exactly the goroutines that have yet to call Done,
\* whatever Shutdown and Close removed from the maps meanwhile.
WgCounts ==
    /\ listenerWg = Cardinality(TrackedServes)
    /\ connWg = Cardinality(TrackedConns)

\* An established connection that is still open is in srv.conns, so that Close
\* reaches it, and a Serve that still accepts on an open listener is in
\* srv.listeners, so that Shutdown and Close reach it.
OpenIsTracked ==
    /\ TrackedConns \ cut \subseteq conns
    /\ \A s \in Srv : spc[s] = "accept" /\ listening[s] => s \in listeners

\* A Shutdown that returned without an error has outlived every connection that
\* was established when it was called, also when Close ran beside it.
ShutdownWaited ==
    \A k \in Stop : kpc[k] = "finished" => \A c \in awaited[k] : cpc[c] = "ended"

\* Both ways to stop come to an end.  Shutdown hangs only on something alive: a
\* client still connected, or a Serve that was entered after the listeners had
\* been closed.  Close ends every connection that was established when it was
\* called.
StopsEnd ==
    \A k \in Stop :
        /\ (kpc[k] \in {"listeners", "conns"}) ~>
              \/ kpc[k] \in {"finished", "expired"}
              \/ TrackedConns \ cut # {}
              \/ \E s \in Srv : spc[s] = "accept" /\ listening[s]
        /\ (kpc[k] = "closed") ~> (\A c \in awaited[k] : cpc[c] = "ended")

\* A Serve that was waiting in Accept when Shutdown or Close was called returns,
\* and with ErrServerClosed as the comment on that error says, unless the server
\* is used for another Serve, which may reset doneChan under it.
StoppedServeReturns ==
    \A s \in Srv :
        (s \in stopped) ~>
            /\ spc[s] = "returned"
            /\ result[s] = "ErrServerClosed" \/ \E t \in Srv \ {s} : spc[t] # "start"

\* What the comment on ErrServerClosed says of Serve: it is returned "after a call
\* to Shutdown or Close", also by a Serve that such a call met before its loop.
ServeAsDocumented ==
    \A s \in Srv :
        (spc[s] = "accept" /\ \E k \in Stop : kpc[k] # "idle") ~> (spc[s] = "returned")
=============================================================================
