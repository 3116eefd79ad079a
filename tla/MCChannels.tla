----------------------------- MODULE MCChannels -----------------------------
(***************************************************************************)
(* What an SSH connection carries, checked in one run: a session, the      *)
(* forwarding map and the sockets proxied over it.  The three share no     *)
(* state, so one of them moves in a behaviour.                             *)
(***************************************************************************)
EXTENDS SSHSession, ForwardedTCP, SSHProxy

VARIABLE part  \* the part that moves

channelVars == <<part, vars, forwardVars, proxyVars>>

ChannelInit ==
    /\ part \in {"session", "map", "sockets"}
    /\ Init /\ ForwardInit /\ ProxyInit

ChannelNext ==
    /\ UNCHANGED part
    /\ \/ part = "session" /\ Next /\ UNCHANGED <<forwardVars, proxyVars>>
       \/ part = "map" /\ ForwardNext /\ UNCHANGED <<vars, proxyVars>>
       \/ part = "sockets" /\ ProxyNext /\ UNCHANGED <<vars, forwardVars>>

\* A part that does not move has nothing enabled that is fair.
ChannelSpec ==
    ChannelInit /\ [][ChannelNext]_channelVars /\ Fairness /\ ForwardFairness /\ ProxyFairness
=============================================================================
