------------------------------ MODULE SSHProxy ------------------------------
(***************************************************************************)
(* Sockets proxied over an SSH connection: a connection accepted by a      *)
(* forwarding and a direct-tcpip channel (internal/secure_shell/tcpip.go), *)
(* where the first copier to finish closes both ends, and a connection to  *)
(* the agent socket (internal/secure_shell/agent.go), where each copier    *)
(* half-closes its destination and both are waited for.                    *)
(***************************************************************************)
CONSTANTS
    Link,   \* SSH connections
    Pipe    \* proxied sockets

Via == {"forwarded", "direct", "agent"}

VARIABLES
    ended,  \* SSH connections that have ended
    via,    \* via[p]: what opened p, or "none"
    over,   \* over[p]: the SSH connection p goes over
    sock,   \* sock[p]: the socket; "eof" when its peer is done sending
    chan,   \* chan[p]: the channel, likewise
    out,    \* out[p]: the goroutine that copies from the socket to the channel
    in      \* in[p]: the one that copies from the channel to the socket

proxyVars == <<ended, via, over, sock, chan, out, in>>

EndState == {"none", "open", "eof", "closed"}
Copier == {"none", "copy", "ending", "closing", "ended"}

ProxyTypeOK ==
    /\ ended \subseteq Link
    /\ via \in [Pipe -> Via \cup {"none"}]
    /\ over \in [Pipe -> Link]
    /\ sock \in [Pipe -> EndState] /\ chan \in [Pipe -> EndState]
    /\ out \in [Pipe -> Copier] /\ in \in [Pipe -> Copier]

ProxyInit ==
    /\ ended = {}
    /\ via = [p \in Pipe |-> "none"]
    /\ over \in [Pipe -> Link]
    /\ sock = [p \in Pipe |-> "none"] /\ chan = [p \in Pipe |-> "none"]
    /\ out = [p \in Pipe |-> "none"] /\ in = [p \in Pipe |-> "none"]

\* A connection is accepted, also by a listener that outlived its SSH
\* connection, or direct-tcpip has dialled its destination.
NewSocket(p, v) ==
    /\ via[p] = "none"
    /\ v = "direct" => over[p] \notin ended
    /\ via' = [via EXCEPT ![p] = v]
    /\ sock' = [sock EXCEPT ![p] = "open"]
    /\ UNCHANGED <<ended, over, chan, out, in>>

Waiting(p) == via[p] # "none" /\ chan[p] = "none"

\* OpenChannel, or Accept for direct-tcpip; the two copiers start.
OpenChannel(p) ==
    /\ Waiting(p) /\ over[p] \notin ended
    /\ chan' = [chan EXCEPT ![p] = "open"]
    /\ out' = [out EXCEPT ![p] = "copy"] /\ in' = [in EXCEPT ![p] = "copy"]
    /\ UNCHANGED <<ended, via, over, sock>>

\* The client refuses the channel, or the SSH connection is over.
OpenChannelFails(p) ==
    /\ Waiting(p)
    /\ sock' = [sock EXCEPT ![p] = "closed"] /\ chan' = [chan EXCEPT ![p] = "closed"]
    /\ UNCHANGED <<ended, via, over, out, in>>

\* io.Copy returns: its source has ended, or was closed here, and the far peer has
\* taken what was read before.
CopyEnds(p) ==
    /\ \/ /\ out[p] = "copy" /\ sock[p] \in {"eof", "closed"}
          /\ out' = [out EXCEPT ![p] = "ending"] /\ UNCHANGED in
       \/ /\ in[p] = "copy" /\ chan[p] \in {"eof", "closed"}
          /\ in' = [in EXCEPT ![p] = "ending"] /\ UNCHANGED out
    /\ UNCHANGED <<ended, via, over, sock, chan>>

\* io.Copy returns with data in hand that the far peer does not take any more.
WriteFails(p) ==
    /\ \/ /\ out[p] = "copy" /\ chan[p] \in {"eof", "closed"}
          /\ out' = [out EXCEPT ![p] = "ending"] /\ UNCHANGED in
       \/ /\ in[p] = "copy" /\ sock[p] \in {"eof", "closed"}
          /\ in' = [in EXCEPT ![p] = "ending"] /\ UNCHANGED out
    /\ UNCHANGED <<ended, via, over, sock, chan>>

\* One of the copiers of p goes from one place to another.
CopierGoes(p, from, to) ==
    \/ out[p] = from /\ out' = [out EXCEPT ![p] = to] /\ UNCHANGED in
    \/ in[p] = from /\ in' = [in EXCEPT ![p] = to] /\ UNCHANGED out

\* tcpip.go: the deferred calls of either copier close the socket ...
CloseSocket(p) ==
    /\ via[p] # "agent"
    /\ CopierGoes(p, "ending", "closing")
    /\ sock' = [sock EXCEPT ![p] = "closed"]
    /\ UNCHANGED <<ended, via, over, chan>>

\* Seeded bug: only the end a copier reads from is closed.
CloseChannelNot(p) ==
    /\ CopierGoes(p, "closing", "ended")
    /\ UNCHANGED <<ended, via, over, sock, chan>>

\* ... and then the channel.
CloseChannel(p) ==
    /\ CopierGoes(p, "closing", "ended")
    /\ chan' = [chan EXCEPT ![p] = "closed"]
    /\ UNCHANGED <<ended, via, over, sock>>

\* Seeded bug: the first copier that is done closes the channel.
HalfCloseWhole(p) ==
    /\ via[p] = "agent"
    /\ CopierGoes(p, "ending", "ended")
    /\ chan' = [chan EXCEPT ![p] = "closed"]
    /\ UNCHANGED <<ended, via, over, sock>>

\* agent.go: a copier closes the far end for writing and calls wg.Done.
HalfClose(p) ==
    /\ via[p] = "agent"
    /\ CopierGoes(p, "ending", "ended")
    /\ UNCHANGED <<ended, via, over, sock, chan>>

\* agent.go: after wg.Wait the deferred calls close the channel, then the socket.
CloseAfterBoth(p) ==
    /\ via[p] = "agent" /\ out[p] = "ended" /\ in[p] = "ended"
    /\ \/ chan[p] # "closed" /\ chan' = [chan EXCEPT ![p] = "closed"] /\ UNCHANGED sock
       \/ /\ chan[p] = "closed" /\ sock[p] # "closed"
          /\ sock' = [sock EXCEPT ![p] = "closed"] /\ UNCHANGED chan
    /\ UNCHANGED <<ended, via, over, out, in>>

\* The peer of the socket, or of the channel, is done sending.
PeerEnds(p) ==
    /\ \/ sock[p] = "open" /\ sock' = [sock EXCEPT ![p] = "eof"] /\ UNCHANGED chan
       \/ chan[p] = "open" /\ chan' = [chan EXCEPT ![p] = "eof"] /\ UNCHANGED sock
    /\ UNCHANGED <<ended, via, over, out, in>>

\* The SSH connection ends, and its channels with it.
LinkEnds(l) ==
    /\ l \notin ended
    /\ ended' = ended \cup {l}
    /\ chan' = [p \in Pipe |-> IF over[p] = l /\ chan[p] = "open" THEN "eof" ELSE chan[p]]
    /\ UNCHANGED <<via, over, sock, out, in>>

\* The socket is gone, and its slot may serve another.
Reap(p) ==
    /\ sock[p] = "closed" /\ {out[p], in[p]} \subseteq {"none", "ended"}
    /\ via' = [via EXCEPT ![p] = "none"]
    /\ sock' = [sock EXCEPT ![p] = "none"] /\ chan' = [chan EXCEPT ![p] = "none"]
    /\ out' = [out EXCEPT ![p] = "none"] /\ in' = [in EXCEPT ![p] = "none"]
    /\ UNCHANGED <<ended, over>>

Proxies(p) ==
    \/ OpenChannel(p) \/ OpenChannelFails(p)
    \/ CopyEnds(p) \/ CloseSocket(p) \/ CloseChannel(p) \/ HalfClose(p) \/ CloseAfterBoth(p)

ProxyNext ==
    \/ \E p \in Pipe :
         \/ \E v \in Via : NewSocket(p, v)
         \/ Proxies(p) \/ WriteFails(p) \/ PeerEnds(p) \/ Reap(p)
    \/ \E l \in Link : LinkEnds(l)

ProxySpec == ProxyInit /\ [][ProxyNext]_proxyVars

\* The goroutines of a pipe run, and a request for a channel is answered; nothing
\* makes a write fail.  That CopyEnds is fair supposes peers that read: a copier
\* asleep in a write does not see the end of its source.
ProxyFairness == \A p \in Pipe : WF_proxyVars(Proxies(p))

-----------------------------------------------------------------------------
(* Properties *)

\* What is open is watched: a socket and channel in use have both their copiers,
\* and a channel whose socket is closed has one that is about to close it.
ProxyWatched ==
    \A p \in Pipe : via[p] \in {"forwarded", "direct"} /\ chan[p] \in {"open", "eof"} =>
        IF sock[p] = "closed" THEN "closing" \in {out[p], in[p]}
        ELSE {out[p], in[p]} \subseteq {"copy", "ending"}

\* Nobody gives up a proxy that both peers still use, and one of the agent is
\* closed by nobody before both copiers are done.
ProxyPatient ==
    \A p \in Pipe :
        /\ sock[p] = "open" /\ chan[p] = "open" => out[p] = "copy" /\ in[p] = "copy"
        /\ via[p] = "agent" /\ "closed" \in {sock[p], chan[p]} =>
              out[p] = in[p] /\ out[p] \in {"none", "ended"}

\* No socket or channel is left without a goroutine that will close it, and none
\* is closed early, however the two copiers and the peers interleave.
ProxyInv == ProxyTypeOK /\ ProxyWatched /\ ProxyPatient

\* A forwarded socket outlives neither its peers nor its SSH connection; one of
\* the agent lasts until both peers are done, so that each reads all the other
\* sent.  Either way it is closed in the end.
ProxyEnds ==
    \A p \in Pipe :
        (/\ via[p] # "none"
         /\ IF via[p] = "agent"
            THEN sock[p] = "eof" /\ chan[p] = "eof"
            ELSE over[p] \in ended \/ sock[p] = "eof" \/ chan[p] = "eof")
        ~> (sock[p] \in {"closed", "none"} /\ chan[p] \in {"closed", "none"})
=============================================================================
