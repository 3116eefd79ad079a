--------------------------- MODULE RequestsProofs ---------------------------
(***************************************************************************)
(* The requests of the agent other than file copies and freezes: the umask *)
(* around SetFileMode and CreateDir, the user key of the SSH server, the   *)
(* network, and the tables of accounts and mounts, for any number of       *)
(* concurrent requests, clients, restarts, addresses and routes, and any   *)
(* configuration or table that may be read.                                *)
(***************************************************************************)
EXTENDS Umask, SSHAccess, Network, OSTables, SequenceTheorems, WellFoundedInduction,
        TLAPS

-----------------------------------------------------------------------------
(* Umask *)

\* A request remembers the original umask or none.
OldKnown == \A r \in FileRequest : old[r] \in {Mask, {}}

\* As long as nothing has overlapped, a request that has swapped the umask is
\* the only one, and it is the one that holds the original.
Alone ==
    ~overlap =>
        \A r \in FileRequest : Swapped(r) =>
            /\ umask = {} /\ old[r] = Mask
            /\ \A q \in FileRequest : Swapped(q) => q = r

\* The inductive invariant.
UmaskInv == UmaskSound /\ OldKnown /\ Alone

LEMMA InitUmaskInv == UmaskInit => UmaskInv
  BY UmaskAssumption, Zenon
     DEF UmaskInit, UmaskInv, UmaskSound, UmaskTypeOK, UndisturbedIsExact, UmaskContained,
         OldKnown, Alone, Swapped, RequestKind, Mode

\* Every step of a request, the guest and every shell preserve the invariant.
LEMMA NextUmaskInv == UmaskInv /\ [UmaskNext]_umaskVars => UmaskInv'
<1> SUFFICES ASSUME UmaskInv, [UmaskNext]_umaskVars PROVE UmaskInv'
  OBVIOUS
<1> USE UmaskAssumption DEF Swapped
<1>0. /\ UmaskTypeOK /\ UndisturbedIsExact /\ UmaskContained /\ OldKnown /\ Alone
  BY DEF UmaskInv, UmaskSound
<1>1. ASSUME NEW r \in FileRequest, NEW k \in RequestKind,
             NEW m \in Modes, Swap(r, k, m)
      PROVE  UmaskInv'
  <2>1. UmaskTypeOK'
    BY <1>0, <1>1 DEF Swap, UmaskTypeOK
  <2>2. UndisturbedIsExact'
    BY <1>0, <1>1 DEF Swap, UmaskTypeOK, UndisturbedIsExact
  <2>3. UmaskContained' /\ OldKnown'
    BY <1>0, <1>1 DEF Swap, UmaskTypeOK, UmaskContained, OldKnown
  <2>4. Alone'
    BY <1>0, <1>1 DEF Swap, UmaskTypeOK, UndisturbedIsExact, Alone
  <2> QED BY <2>1, <2>2, <2>3, <2>4 DEF UmaskInv, UmaskSound
<1>2. ASSUME NEW r \in FileRequest, SetMode(r) \/ MkdirAll(r) PROVE UmaskInv'
  <2>1. FileMode(fmode[r]) \in Mode
    BY <1>0 DEF FileMode, UmaskTypeOK, Mode
  <2>2. \/ UNCHANGED <<mode, asked>>
        \/ /\ asked' = FileMode(fmode[r])
           /\ mode' \in {FileMode(fmode[r]), FileMode(fmode[r]) \ umask}
           /\ ~overlap => mode' = asked'
    <3>1. ~overlap => umask = {}
      BY <1>0, <1>2 DEF SetMode, MkdirAll, Alone
    <3> QED BY <1>2, <3>1 DEF SetMode, MkdirAll
  <2>3. /\ step' = [step EXCEPT ![r] = "acted"] /\ step[r] = "swapped"
        /\ UNCHANGED <<umask, rkind, fmode, old, shell, overlap>>
    BY <1>2 DEF SetMode, MkdirAll
  <2>4. UmaskTypeOK'
    <3>1. mode' \in Mode \cup {Absent} /\ asked' \in Mode \cup {Absent}
      BY <1>0, <2>1, <2>2 DEF UmaskTypeOK, Mode
    <3> QED BY <1>0, <2>3, <3>1 DEF UmaskTypeOK
  <2>5. UndisturbedIsExact'
    BY <1>0, <2>2, <2>3 DEF UmaskTypeOK, UndisturbedIsExact, Alone
  <2>6. UmaskContained'
    <3>1. CASE UNCHANGED <<mode, asked>>
      BY <1>0, <2>3, <3>1 DEF UmaskContained
    <3>2. CASE asked' = FileMode(fmode[r]) /\ mode' \in {asked', asked' \ umask}
      <4>1. asked' \in Mode /\ mode' \in Mode
        BY <2>1, <3>2 DEF Mode
      <4>2. mode' \subseteq asked' /\ asked' \ Mask \subseteq mode'
        BY <1>0, <3>2 DEF UmaskContained
      <4> QED BY <1>0, <2>3, <4>1, <4>2 DEF UmaskContained
    <3> QED BY <2>2, <3>1, <3>2
  <2>7. OldKnown' /\ Alone'
    BY <1>0, <2>3 DEF UmaskTypeOK, OldKnown, Alone
  <2> QED BY <2>4, <2>5, <2>6, <2>7 DEF UmaskInv, UmaskSound
<1>3. ASSUME NEW r \in FileRequest, ActFails(r) PROVE UmaskInv'
  <2>1. UmaskTypeOK'
    BY <1>0, <1>3 DEF ActFails, UmaskTypeOK
  <2>2. UndisturbedIsExact'
    BY <1>0, <1>3 DEF ActFails, UmaskTypeOK, UndisturbedIsExact, Alone
  <2>3. UmaskContained' /\ OldKnown'
    BY <1>0, <1>3 DEF ActFails, UmaskTypeOK, UmaskContained, OldKnown
  <2>4. Alone'
    BY <1>0, <1>3 DEF ActFails, UmaskTypeOK, Alone
  <2> QED BY <2>1, <2>2, <2>3, <2>4 DEF UmaskInv, UmaskSound
<1>4. ASSUME NEW r \in FileRequest, Restore(r) PROVE UmaskInv'
  <2>1. UmaskTypeOK'
    <3>1. {} \in Mode /\ {} \in SUBSET Perm
      BY DEF Mode
    <3> QED BY <1>0, <1>4, <3>1 DEF Restore, UmaskTypeOK
  <2>2. UndisturbedIsExact'
    <3>1. ~overlap => old[r] = Mask
      BY <1>0, <1>4 DEF Restore, Alone
    <3> QED BY <1>0, <1>4, <3>1 DEF Restore, UndisturbedIsExact
  <2>3. UmaskContained' /\ OldKnown'
    BY <1>0, <1>4 DEF Restore, UmaskTypeOK, UmaskContained, OldKnown
  <2>4. Alone'
    BY <1>0, <1>4 DEF Restore, UmaskTypeOK, Alone
  <2> QED BY <2>1, <2>2, <2>3, <2>4 DEF UmaskInv, UmaskSound
<1>5. ASSUME NEW m \in Modes \cup {Absent}, GuestSets(m) PROVE UmaskInv'
  <2>1. UmaskTypeOK'
    BY <1>0, <1>5 DEF GuestSets, UmaskTypeOK
  <2>2. UndisturbedIsExact' /\ OldKnown' /\ Alone'
    BY <1>0, <1>5 DEF GuestSets, UndisturbedIsExact, OldKnown, Alone
  <2>3. UmaskContained'
    BY <1>0, <1>5 DEF GuestSets, UmaskContained
  <2> QED BY <2>1, <2>2, <2>3 DEF UmaskInv, UmaskSound
<1>6. CASE StartShell
  <2>1. UmaskTypeOK' /\ UmaskContained' /\ OldKnown' /\ Alone'
    BY <1>0, <1>6 DEF StartShell, UmaskTypeOK, UmaskContained, OldKnown, Alone
  <2>2. UndisturbedIsExact'
    BY <1>0, <1>6 DEF StartShell, UndisturbedIsExact
  <2> QED BY <2>1, <2>2 DEF UmaskInv, UmaskSound
<1>7. CASE UNCHANGED umaskVars
  BY <1>0, <1>7 DEF umaskVars, UmaskInv, UmaskSound, UmaskTypeOK, UndisturbedIsExact,
                    UmaskContained, OldKnown, Alone
<1> QED
  BY <1>1, <1>2, <1>3, <1>4, <1>5, <1>6, <1>7 DEF UmaskNext

\* However SetFileMode, CreateDir, shells and the guest interleave: requests that
\* do not overlap set the mode they were asked for or leave the path alone, and
\* those that do lose or keep the original umask only.
THEOREM UmaskIsSound == UmaskSpec => []UmaskSound
<1>1. UmaskInv => UmaskSound
  BY DEF UmaskInv
<1> QED
  BY InitUmaskInv, NextUmaskInv, <1>1, PTL DEF UmaskSpec

-----------------------------------------------------------------------------
(* The user key *)

\* A client has a key of this start of the agent or of an earlier one.
KeysOld == \A c \in Client : key[c] <= boot

\* The server knows this start's key pair or none: it accepts the public key from
\* GenerateKey on, and hands out nothing before.
DoorKeys ==
    /\ {served, accepted} \subseteq {0, boot}
    /\ sshd \in {"publish", "listen", "serve", "ready"} => accepted = boot
    /\ sshd \in {"down", "off", "generate"} => served = 0 /\ accepted = 0

\* An SSH connection ends with the server that accepted it.
InWhileReady == \A c \in Client : client[c] = "in" => sshd = "ready"

\* The inductive invariant.
AccessInv == AccessSound /\ KeysOld /\ DoorKeys /\ InWhileReady

LEMMA InitAccessInv == AccessInit => AccessInv
  BY AccessAssumption
     DEF AccessInit, AccessInv, AccessSound, AccessTypeOK, ClientStep, KeyOpensDoor, KeyFileGone,
         KeysOld, DoorKeys, InWhileReady

\* The goroutine of NewServer, the end of the process and its next start.
LEMMA AgentStep ==
    ASSUME AccessInv,
           \/ GenerateKey \/ Publish \/ ListenVsock \/ EnsureHandlers \/ StartFails
           \/ AgentEnds \/ AgentStarts
    PROVE  AccessInv'
<1> USE AccessAssumption DEF AccessInv, AccessSound, clientSide
<1>1. AccessTypeOK'
  <2>1. CASE AgentEnds
    BY <2>1 DEF AccessTypeOK, ClientStep, AgentEnds
  <2>2. CASE AgentStarts
    BY <2>2 DEF AccessTypeOK, AgentStarts
  <2>3. CASE GenerateKey \/ Publish \/ ListenVsock \/ EnsureHandlers \/ StartFails
    <3>1. UNCHANGED <<boot, clientSide>> /\ sshd' \in {"publish", "listen", "serve", "ready", "failed"}
      BY <2>3 DEF GenerateKey, Publish, ListenVsock, EnsureHandlers, StartFails
    <3>2. served' \in {served, boot} /\ accepted' \in {accepted, boot}
      BY <2>3 DEF GenerateKey, Publish, ListenVsock, EnsureHandlers, StartFails
    <3>3. handlers' \in {handlers, {"session"}}
      BY <2>3 DEF GenerateKey, Publish, ListenVsock, EnsureHandlers, StartFails
    <3> QED BY <3>1, <3>2, <3>3 DEF AccessTypeOK
  <2> QED BY <2>1, <2>2, <2>3
<1>2. KeyFileGone'
  BY DEF KeyFileGone, AccessTypeOK, GenerateKey, Publish, ListenVsock, EnsureHandlers, StartFails,
         AgentEnds, AgentStarts
<1>3. KeyOpensDoor' /\ KeysOld' /\ InWhileReady'
  BY DEF KeyOpensDoor, KeysOld, InWhileReady, AccessTypeOK, GenerateKey, Publish, ListenVsock,
         EnsureHandlers, StartFails, AgentEnds, AgentStarts
<1>4. DoorKeys'
  BY DEF DoorKeys, AccessTypeOK, GenerateKey, Publish, ListenVsock, EnsureHandlers, StartFails,
         AgentEnds, AgentStarts
<1> QED BY <1>1, <1>2, <1>3, <1>4

\* The steps of one client.
LEMMA ClientStepKeeps ==
    ASSUME AccessInv, NEW c \in Client,
           \/ Begin(c) \/ GetUserKey(c) \/ CreateTemp(c) \/ WriteKey(c) \/ Chmod(c) \/ Exec(c)
           \/ ClientFails(c) \/ RemoveKey(c) \/ Killed(c) \/ Again(c)
           \/ Handshake(c) \/ Refused(c)
           \/ \E t \in {"session", "direct-tcpip"} : OpenChannel(c, t)
    PROVE  AccessInv'
<1> USE AccessAssumption DEF AccessInv, AccessSound, agentSide, At
<1>1. CASE \/ Begin(c) \/ CreateTemp(c) \/ WriteKey(c) \/ Chmod(c) \/ Exec(c)
           \/ ClientFails(c) \/ RemoveKey(c) \/ Killed(c) \/ Refused(c)
  <2>1. \E to \in ClientStep \ {"in", "denied"} :
          /\ client' = [client EXCEPT ![c] = to]
          /\ \/ file' = file /\ (to \notin {"idle", "ask", "create", "error"} \/ ~file[c])
             \/ file' = [file EXCEPT ![c] = TRUE] /\ to = "write"
             \/ file' = [file EXCEPT ![c] = FALSE]
    BY <1>1 DEF Begin, CreateTemp, WriteKey, Chmod, Exec, ClientFails, RemoveKey, Killed, Refused,
                ClientStep, AccessTypeOK, KeyFileGone
  <2>2. UNCHANGED <<agentSide, key, chan>>
    BY <1>1 DEF Begin, CreateTemp, WriteKey, Chmod, Exec, ClientFails, RemoveKey, Killed, Refused
  <2>3. AccessTypeOK'
    BY <2>1, <2>2 DEF AccessTypeOK
  <2>4. KeyFileGone'
    BY <2>1, <2>2 DEF AccessTypeOK, KeyFileGone
  <2>5. KeyOpensDoor' /\ KeysOld' /\ InWhileReady' /\ DoorKeys'
    BY <2>1, <2>2 DEF AccessTypeOK, KeyOpensDoor, KeysOld, InWhileReady, DoorKeys
  <2> QED BY <2>3, <2>4, <2>5
<1>2. CASE GetUserKey(c)
  BY <1>2 DEF GetUserKey, AccessTypeOK, ClientStep, KeyFileGone, KeyOpensDoor, KeysOld, DoorKeys,
              InWhileReady
<1>3. CASE Again(c)
  BY <1>3 DEF Again, AccessTypeOK, ClientStep, KeyFileGone, KeyOpensDoor, KeysOld, DoorKeys,
              InWhileReady
<1>4. CASE Handshake(c)
  <2>1. KeyOpensDoor'
    BY <1>4 DEF Handshake, KeysEqual, AccessTypeOK, KeyOpensDoor, KeysOld, DoorKeys
  <2>2. AccessTypeOK' /\ KeyFileGone' /\ KeysOld' /\ DoorKeys' /\ InWhileReady'
    BY <1>4 DEF Handshake, AccessTypeOK, ClientStep, KeyFileGone, KeysOld, DoorKeys, InWhileReady
  <2> QED BY <2>1, <2>2
<1>5. CASE \E t \in {"session", "direct-tcpip"} : OpenChannel(c, t)
  BY <1>5 DEF OpenChannel, AccessTypeOK, ClientStep, KeyFileGone, KeyOpensDoor, KeysOld, DoorKeys,
              InWhileReady
<1> QED BY <1>1, <1>2, <1>3, <1>4, <1>5

LEMMA NextAccessInv == AccessInv /\ [AccessNext]_accessVars => AccessInv'
<1>1. ASSUME AccessInv, UNCHANGED accessVars PROVE AccessInv'
  BY <1>1 DEF accessVars, agentSide, clientSide, AccessInv, AccessSound, AccessTypeOK, KeyOpensDoor,
              KeyFileGone, KeysOld, DoorKeys, InWhileReady
<1> QED
  BY <1>1, AgentStep, ClientStepKeeps DEF AccessNext

\* A key that was handed out opens the door of the process that handed it out,
\* and a client that fails leaves no key file, for any number of clients and of
\* restarts of the agent.
THEOREM AccessIsSound == AccessSpec => []AccessSound
<1>1. AccessInv => AccessSound
  BY DEF AccessInv
<1> QED BY InitAccessInv, NextAccessInv, <1>1, PTL DEF AccessSpec

-----------------------------------------------------------------------------
(* The network *)

Reading == {"device", "tempdir", "mount", "parse", "umount", "rmdir"}
Gateways == {"link4", "default4", "default6"}
Applying == {"up", "addr", "routes"} \cup Gateways

\* A process does one task, has read its configuration when it applies it, and
\* returns an error at once but for the deferred calls of ReadData, which only a
\* failing call reaches.
Controlled ==
    /\ pc \in {"marker", "check", "list"} \cup Reading \cup Applying => task = "configure"
    /\ pc \in {"find", "down", "flush", "del"} => task = "deconfigure"
    /\ pc \in Applying => conf # <<>>
    /\ pc \in {"umount", "rmdir"} /\ verdict # "error" => conf # <<>>
    /\ pc \in {"umount", "rmdir"} /\ verdict = "error" => fault
    /\ verdict = "ok" => pc = "done"
    /\ verdict = "ok" /\ task = "configure" => conf # <<>>
    /\ verdict = "error" => pc \in {"umount", "rmdir", "done"}
    /\ pc \in Gateways => todo = conf[1].routes

\* What is left of the mount at each step.
MountTracked ==
    /\ pc \in {"marker", "check", "list", "device", "tempdir", "find", "down", "flush", "del"} => mnt = "none"
    /\ pc = "mount" => mnt = "dir"
    /\ pc \in {"parse", "umount"} => mnt = "mounted"
    /\ pc = "rmdir" => mnt \in {"dir", "stuck"}
    /\ pc \in Applying \cup {"done"} => mnt \in {"none", "stuck"}

\* While nobody else changes the network, netinit knows it: the interface it has
\* found is there and in the state it was put in, and the addresses it has listed
\* are the ones assigned, less what the kernel took along with one it has deleted.
NetworkKnown ==
    changes = 0 =>
        /\ pc \in Steps \ {"marker", "check", "find"} => held /\ link # "absent"
        /\ pc \in {"addr", "routes"} \cup Gateways => link = "up"
        /\ pc \in {"flush", "del"} => link = "down"
        /\ pc \in Reading \cup {"up"} => assigned = addrs
        /\ pc = "del" => addrs \subseteq assigned /\ (fault \/ assigned \subseteq addrs)
        /\ pc = "addr" => assigned \subseteq addrs

\* ... each address of the configuration is assigned or still to come, and one
\* that is still to come in a regular configuration will not be found assigned,
AddrsGiven ==
    changes = 0 =>
        /\ pc = "addr" =>
              /\ \A e \in ToSet(conf[1].addrs) : e \in ToSet(todo) \/ e.ip \in addrs
              /\ Regular(conf[1]) => \A k \in DOMAIN todo :
                    /\ todo[k].form = "canonical"
                    /\ todo[k].ip \in addrs => todo[k].ip \in assigned
                    /\ \A j \in DOMAIN todo : todo[j].ip = todo[k].ip => j = k
        /\ pc \in Gateways \cup {"routes"} => \A e \in ToSet(conf[1].addrs) : e.ip \in addrs

\* ... and so for the gateways, the first of which is reached when it is needed,
\* and for the routes through it.
RoutesGiven ==
    changes = 0 =>
        /\ pc = "default4" => Reach4
        /\ pc \in {"default6", "routes"} /\ Wants4(conf[1]) => "default4" \in routes
        /\ pc = "routes" /\ Wants6(conf[1]) => "default6" \in routes
        /\ pc = "routes" /\ ~fault /\ Reach4 =>
              \A r \in ToSet(conf[1].routes) : r \in ToSet(todo) \/ r \in routes

\* The inductive invariant.
NetInv ==
    /\ NetworkSound /\ NetinitDelivers /\ NetinitRepeats
    /\ Controlled /\ MountTracked
    /\ NetworkKnown /\ AddrsGiven /\ RoutesGiven

\* A set of numbers that is not empty has a least one.
LEMMA LeastNumber ==
    ASSUME NEW T \in SUBSET Nat, T # {}
    PROVE  Min(T) \in T
<1> DEFINE R == {ss \in Nat \X Nat : ss[1] < ss[2]}
<1>1. IsWellFoundedOn(R, Nat)
  BY NatLessThanWellFounded DEF OpToRel
<1>2. PICK x \in T : \A y \in T : ~ (<<y, x>> \in R)
  <2> HIDE DEF R
  <2> QED BY <1>1, WFMin
<1>3. \A y \in T : x <= y
  <2> SUFFICES ASSUME NEW y \in T PROVE x <= y
    OBVIOUS
  <2>1. x \in Nat /\ y \in Nat /\ ~ (<<y, x>> \in R)
    BY <1>2
  <2>2. ~ (y < x)
    BY <2>1
  <2> QED BY <2>1, <2>2
<1> QED BY <1>3 DEF Min

\* The first IPv4 address of a configuration is one of its addresses.
LEMMA FirstIsListed ==
    ASSUME NEW c \in Config, Places(c, Addr4) # {}
    PROVE  First4(c) \in Addr4 /\ \E e \in ToSet(c.addrs) : e.ip = First4(c)
<1>1. c.addrs \in Seq([ip: Addr, form: Form])
  BY DEF Config
<1>2. DOMAIN c.addrs \subseteq Nat
  BY <1>1, LenProperties
<1>3. Places(c, Addr4) \in SUBSET Nat
  BY <1>2 DEF Places
<1>4. Min(Places(c, Addr4)) \in Places(c, Addr4)
  BY <1>3, LeastNumber
<1> QED BY <1>4 DEF First4, Places, ToSet

\* A list is its first element and the rest of it.
LEMMA HeadAndRest ==
    ASSUME NEW S, NEW s \in Seq(S), s # <<>>
    PROVE  /\ Head(s) \in S /\ Tail(s) \in Seq(S)
           /\ ToSet(s) = {Head(s)} \cup ToSet(Tail(s))
           /\ 1 \in DOMAIN s /\ Head(s) = s[1]
           /\ \A k \in DOMAIN Tail(s) : k \in Nat /\ k > 0 /\ k + 1 \in DOMAIN s /\ Tail(s)[k] = s[k + 1]
<1>1. /\ Head(s) \in S /\ Head(s) = s[1]
      /\ Tail(s) \in Seq(S) /\ Len(Tail(s)) = Len(s) - 1
      /\ \A i \in 1..Len(Tail(s)) : Tail(s)[i] = s[i + 1]
      /\ Len(s) \in Nat /\ DOMAIN s = 1..Len(s) /\ Len(s) # 0
  BY HeadTailProperties, LenProperties, EmptySeq
<1>2. DOMAIN Tail(s) = 1..Len(s) - 1
  BY <1>1, LenProperties
<1>3. \A k \in DOMAIN Tail(s) : k \in Nat /\ k > 0 /\ k + 1 \in DOMAIN s /\ Tail(s)[k] = s[k + 1]
  BY <1>1, <1>2
<1>4. \A k \in DOMAIN s : k = 1 \/ (k - 1 \in DOMAIN Tail(s) /\ s[k] = Tail(s)[k - 1])
  BY <1>1, <1>2
<1>5. ToSet(s) = {Head(s)} \cup ToSet(Tail(s))
  <2>1. ToSet(s) \subseteq {Head(s)} \cup ToSet(Tail(s))
    <3>1. \A k \in DOMAIN s : s[k] \in {Head(s)} \cup ToSet(Tail(s))
      <4> SUFFICES ASSUME NEW k \in DOMAIN s, k # 1 PROVE s[k] \in ToSet(Tail(s))
        BY <1>1
      <4>1. k - 1 \in DOMAIN Tail(s) /\ s[k] = Tail(s)[k - 1]
        BY <1>4
      <4> QED BY <4>1 DEF ToSet
    <3> QED BY <3>1 DEF ToSet
  <2>2. {Head(s)} \cup ToSet(Tail(s)) \subseteq ToSet(s)
    BY <1>1, <1>3 DEF ToSet
  <2> QED BY <2>1, <2>2
<1> QED BY <1>1, <1>3, <1>5

\* The configuration that was read.
LEMMA ConfRead ==
    ASSUME NetworkTypeOK, conf # <<>>
    PROVE  /\ conf[1] \in Config
           /\ conf[1].addrs \in Seq([ip: Addr, form: Form])
           /\ conf[1].routes \in Seq(Extra)
<1>1. \E c \in Configs : conf = <<c>>
  BY DEF NetworkTypeOK
<1>2. conf[1] \in Config
  BY <1>1, NetworkAssumption
<1> QED BY <1>2 DEF Config

LEMMA InitNetInv == NetworkInit => NetInv
<1> SUFFICES ASSUME NetworkInit PROVE NetInv
  OBVIOUS
<1>1. NetworkTypeOK
  <2>1. 0 \in 0..MaxChanges
    BY NetworkAssumption
  <2> QED BY <2>1, Zenon DEF NetworkInit, NetworkTypeOK
<1>2. PanicsExplained /\ NetinitDelivers /\ NetinitRepeats
  BY DEF NetworkInit, PanicsExplained, NetinitDelivers, NetinitRepeats
<1>3. Controlled /\ MountTracked /\ NetworkKnown /\ AddrsGiven /\ RoutesGiven
  BY DEF NetworkInit, Controlled, MountTracked, NetworkKnown, AddrsGiven, RoutesGiven, Reading,
         Gateways, Applying, Steps
<1> QED BY <1>1, <1>2, <1>3 DEF NetInv, NetworkSound

\* A process that has just started or is not there.
LEMMA StartStep ==
    ASSUME NetInv, NetworkTypeOK', (\E m \in {"configure", "deconfigure"} : Start(m)) \/ Exit
    PROVE  NetInv'
<1>1. /\ pc' \in {"idle", "marker", "find"} /\ verdict' \notin {"ok", "error"} /\ mnt' = "none"
      /\ pc' = "marker" => task' = "configure"
      /\ pc' = "find" => task' = "deconfigure"
      /\ UNCHANGED agentVars
  BY DEF Start, Exit, Goto, NetInv, Controlled
<1>2. NetworkSound' /\ NetinitDelivers' /\ NetinitRepeats'
  BY <1>1 DEF NetInv, NetworkSound, PanicsExplained, agentVars, NetinitDelivers, NetinitRepeats
<1>3. Controlled' /\ MountTracked'
  BY <1>1 DEF Controlled, MountTracked, Reading, Applying, Gateways
<1>4. NetworkKnown' /\ AddrsGiven' /\ RoutesGiven'
  BY <1>1 DEF NetworkKnown, AddrsGiven, RoutesGiven, Reading, Gateways, Steps
<1> QED BY <1>2, <1>3, <1>4 DEF NetInv

\* Others may change the network at any time, and netinit then promises less.
LEMMA Disturbed ==
    ASSUME NetInv, NetworkSound', Disturbs,
           UNCHANGED <<controlVars, task, conf, todo, assigned, mnt, fault>>
    PROVE  NetInv'
<1>1. UNCHANGED <<pc, verdict, task, conf, todo, assigned, mnt, fault>>
  BY DEF controlVars
<1>2. pc = "idle" \/ changes' > 0
  BY NetworkAssumption DEF Disturbs, NetInv, NetworkSound, NetworkTypeOK
<1>3. Controlled' /\ MountTracked'
  BY <1>1 DEF NetInv, Controlled, MountTracked
<1>4. NetworkKnown' /\ AddrsGiven' /\ RoutesGiven'
  BY <1>1, <1>2 DEF NetworkKnown, AddrsGiven, RoutesGiven, Reading, Gateways, Steps
<1>5. NetinitDelivers' /\ NetinitRepeats'
  BY <1>1, <1>2 DEF NetInv, NetinitDelivers, NetinitRepeats
<1> QED BY <1>3, <1>4, <1>5 DEF NetInv

\* A step that fails ends netinit, for one of the reasons NetinitRepeats allows;
\* only the calls of ReadData have something to undo.
LEMMA Failing ==
    ASSUME NetInv, NetworkTypeOK', Fail, pc \in Steps \ {"umount", "rmdir"},
           UNCHANGED <<task, conf, mnt, changes, agentVars>>,
           pc \in {"mount", "parse"} => fault' /\ UNCHANGED <<link, addrs, assigned, held>>,
           \/ fault' \/ changes > 0 \/ link' = "absent"
           \/ task = "configure" /\ conf # <<>> /\ ~Regular(conf[1])
    PROVE  NetInv'
<1>1. /\ verdict' = "error"
      /\ pc = "mount" => pc' = "rmdir"
      /\ pc = "parse" => pc' = "umount"
      /\ pc \notin {"mount", "parse"} => pc' = "done"
  BY DEF Fail
<1>2. pc' \in {"umount", "rmdir", "done"}
  BY <1>1
<1>3. NetworkSound'
  BY DEF NetInv, NetworkSound, PanicsExplained, agentVars
<1>4. MountTracked'
  BY <1>1 DEF NetInv, MountTracked, Steps, Applying, Gateways
<1>5. NetinitDelivers'
  BY <1>1, <1>4 DEF NetinitDelivers, MountTracked
<1>6. NetinitRepeats'
  BY <1>2 DEF NetinitRepeats, NetInv
<1>7. Controlled'
  BY <1>1, <1>2 DEF NetInv, Controlled, Reading, Applying, Gateways
<1>8. NetworkKnown' /\ AddrsGiven' /\ RoutesGiven'
  BY <1>1, <1>2 DEF NetInv, NetworkKnown, AddrsGiven, RoutesGiven, Reading, Gateways, Steps
<1> QED BY <1>3, <1>4, <1>5, <1>6, <1>7, <1>8 DEF NetInv

\* netinit finds the interface and lists its addresses, for either task.
LEMMA FindStep ==
    ASSUME NetInv, NetworkTypeOK',
           \/ FindMarker \/ Check("check", "list") \/ ListAddrs("list", "device")
           \/ Check("find", "down") \/ ListAddrs("flush", "del")
    PROVE  NetInv'
<1>0. /\ NetworkSound /\ Controlled /\ MountTracked /\ NetworkKnown
      /\ UNCHANGED <<kernelVars, task, conf, mnt, history, agentVars>>
  BY DEF NetInv, FindMarker, Check, ListAddrs, netinitData
<1>1. CASE Fail
  <2>1. pc \in Steps \ {"umount", "rmdir", "mount", "parse"}
    BY DEF FindMarker, Check, ListAddrs, Steps
  <2>2. changes > 0 \/ link' = "absent"
    <3>1. CASE Check("check", "list") \/ Check("find", "down")
      BY <1>1, <3>1 DEF Check, Goto, Fail, kernelVars
    <3>2. CASE ListAddrs("list", "device") \/ ListAddrs("flush", "del")
      BY <1>1, <3>2 DEF ListAddrs, Goto, Fail
    <3>3. CASE FindMarker
      BY <1>1, <3>3 DEF FindMarker, Goto, Fail
    <3> QED BY <3>1, <3>2, <3>3
  <2> QED BY <1>0, <1>1, <2>1, <2>2, Failing DEF history
<1>2. CASE ~Fail
  <2>1. /\ UNCHANGED verdict
        /\ \/ pc = "marker" /\ pc' = "check"
           \/ pc = "check" /\ pc' = "list" /\ link # "absent" /\ held'
           \/ pc = "find" /\ pc' = "down" /\ link # "absent" /\ held'
           \/ /\ pc = "list" /\ pc' = "device" /\ held' = held
              /\ assigned' = IF held THEN addrs ELSE {}
           \/ /\ pc = "flush" /\ pc' = "del" /\ held' = held
              /\ assigned' = IF held THEN addrs ELSE {}
    BY <1>2 DEF FindMarker, Check, ListAddrs, Goto
  <2>2. NetworkSound' /\ NetinitDelivers' /\ NetinitRepeats'
    BY <1>0, <2>1 DEF NetworkSound, PanicsExplained, agentVars, NetinitDelivers, NetinitRepeats
  <2>3. Controlled' /\ MountTracked'
    BY <1>0, <2>1 DEF Controlled, MountTracked, Reading, Applying, Gateways
  <2>4. NetworkKnown' /\ AddrsGiven' /\ RoutesGiven'
    BY <1>0, <2>1 DEF NetworkKnown, AddrsGiven, RoutesGiven, Reading, Gateways, Steps, kernelVars,
                      history
  <2> QED BY <2>2, <2>3, <2>4 DEF NetInv
<1> QED BY <1>1, <1>2

\* ReadData mounts the NoCloud device, and undoes it again.
LEMMA ReadStep ==
    ASSUME NetInv, NetworkTypeOK',
           FindDevice \/ MakeTempDir \/ MountData \/ Parse \/ UnmountData \/ RemoveTempDir
    PROVE  NetInv'
<1>0. /\ NetworkSound /\ Controlled /\ MountTracked /\ NetworkKnown
      /\ UNCHANGED <<kernelVars, task, todo, assigned, held, history, agentVars, verdict>>
  BY DEF NetInv, FindDevice, MakeTempDir, MountData, Parse, UnmountData, RemoveTempDir, Goto,
         netinitData
<1>1. /\ pc = "device" => pc' = "tempdir" /\ mnt' = mnt /\ conf' = conf
      /\ pc = "tempdir" => pc' = "mount" /\ mnt' = "dir" /\ conf' = conf
      /\ pc = "mount" => pc' = "parse" /\ mnt' = "mounted" /\ conf' = conf
      /\ pc = "parse" => pc' = "umount" /\ mnt' = mnt /\ conf' # <<>>
      /\ pc = "umount" => pc' = "rmdir" /\ mnt' \in {"dir", "stuck"} /\ conf' = conf
      /\ pc = "rmdir" => /\ pc' = IF verdict = "error" THEN "done" ELSE "up"
                         /\ mnt' = IF mnt = "dir" THEN "none" ELSE mnt
                         /\ conf' = conf
      /\ pc \in Reading
  BY DEF FindDevice, MakeTempDir, MountData, Parse, UnmountData, RemoveTempDir, Goto, Reading,
         netinitData
<1>2. NetworkSound'
  BY <1>0 DEF NetworkSound, PanicsExplained, agentVars
<1>3. MountTracked'
  BY <1>0, <1>1 DEF MountTracked, Reading, Applying, Gateways
<1>4. Controlled'
  BY <1>0, <1>1 DEF Controlled, Reading, Applying, Gateways, history
<1>5. NetinitDelivers' /\ NetinitRepeats'
  BY <1>0, <1>1, <1>3 DEF NetinitDelivers, NetinitRepeats, MountTracked, Controlled, Reading, history
<1>6. NetworkKnown' /\ AddrsGiven' /\ RoutesGiven'
  BY <1>0, <1>1 DEF NetworkKnown, AddrsGiven, RoutesGiven, Reading, Gateways, Steps, kernelVars,
                    history
<1> QED BY <1>2, <1>3, <1>4, <1>5, <1>6 DEF NetInv

\* The link is brought up, and the list of addresses is to be gone through.
LEMMA UpStep == ASSUME NetInv, NetworkTypeOK', BringUp PROVE NetInv'
<1>0. /\ NetworkSound /\ NetworkTypeOK /\ Controlled /\ MountTracked /\ NetworkKnown
      /\ pc = "up" /\ conf # <<>> /\ task = "configure"
      /\ UNCHANGED <<addrs, routes, task, conf, assigned, held, mnt, history, agentVars>>
  BY DEF NetInv, NetworkSound, BringUp, Controlled, Applying
<1>1. CASE link = "absent"
  BY <1>0, <1>1, Failing DEF BringUp, Steps, history
<1>2. CASE link # "absent"
  <2>1. pc' = "addr" /\ UNCHANGED verdict /\ link' = "up" /\ todo' = conf[1].addrs
    BY <1>2 DEF BringUp, Goto
  <2>2. NetworkSound' /\ NetinitDelivers' /\ NetinitRepeats'
    BY <1>0, <2>1 DEF NetworkSound, PanicsExplained, agentVars, NetinitDelivers, NetinitRepeats
  <2>3. Controlled' /\ MountTracked'
    BY <1>0, <2>1 DEF Controlled, MountTracked, Reading, Applying, Gateways
  <2>4. NetworkKnown' /\ RoutesGiven'
    BY <1>0, <2>1 DEF NetworkKnown, RoutesGiven, Reading, Gateways, Steps, history
  <2>5. AddrsGiven'
    <3> SUFFICES ASSUME changes = 0
                 PROVE  Regular(conf[1]) => \A k \in DOMAIN conf[1].addrs :
                          /\ conf[1].addrs[k].form = "canonical"
                          /\ \A j \in DOMAIN conf[1].addrs :
                               conf[1].addrs[j].ip = conf[1].addrs[k].ip => j = k
      <4>1. changes' = 0 => assigned = addrs
        BY <1>0 DEF NetworkKnown, history, Reading
      <4> QED BY <1>0, <2>1, <4>1 DEF AddrsGiven, history, Gateways
    <3> DEFINE as == conf[1].addrs
    <3>1. as \in Seq([ip: Addr, form: Form])
      BY <1>0, ConfRead
    <3>2. \A k \in DOMAIN as : as[k] \in [ip: Addr, form: Form] /\ as[k] \in ToSet(as)
      BY <3>1, LenProperties, ElementOfSeq DEF ToSet
    <3> SUFFICES ASSUME \A e \in ToSet(as) : e.form = "canonical",
                        \A a, b \in DOMAIN as : as[a] = as[b] => a = b,
                        NEW k \in DOMAIN as, NEW j \in DOMAIN as, as[j].ip = as[k].ip
                 PROVE  j = k /\ as[k].form = "canonical"
      BY <3>2 DEF Regular, IsInjective
    <3>3. as[j].form = "canonical" /\ as[k].form = "canonical"
      BY <3>2
    <3>4. as[j] = as[k]
      BY <3>2, <3>3
    <3> QED BY <3>3, <3>4
  <2> QED BY <2>2, <2>3, <2>4, <2>5 DEF NetInv
<1> QED BY <1>1, <1>2

\* One address of the list.
LEMMA AddrStep == ASSUME NetInv, NetworkTypeOK', AssignAddr PROVE NetInv'
<1> DEFINE e == Head(todo)
<1>0. /\ NetworkTypeOK /\ PanicsExplained /\ Controlled /\ MountTracked /\ NetworkKnown /\ AddrsGiven
      /\ pc = "addr" /\ todo # <<>> /\ conf # <<>> /\ task = "configure"
      /\ todo' = Tail(todo)
      /\ UNCHANGED <<link, routes, task, conf, assigned, held, mnt, history, agentVars>>
  BY DEF NetInv, NetworkSound, AssignAddr, Controlled, Applying
<1>1. todo \in Seq([ip: Addr, form: Form])
  BY <1>0 DEF NetworkTypeOK
<1>2. /\ e \in [ip: Addr, form: Form] /\ ToSet(todo) = {e} \cup ToSet(todo')
      /\ 1 \in DOMAIN todo /\ e = todo[1]
      /\ \A k \in DOMAIN todo' : k \in Nat /\ k > 0 /\ k + 1 \in DOMAIN todo /\ todo'[k] = todo[k + 1]
  BY <1>0, <1>1, HeadAndRest
<1>3. /\ IF AlreadyAssigned(e) \/ CanAssign(e) THEN Goto("addr") ELSE Fail
      /\ addrs' = IF ~AlreadyAssigned(e) /\ CanAssign(e) THEN addrs \cup {e.ip} ELSE addrs
  BY DEF AssignAddr
<1> HIDE DEF e
<1>4. CASE ~ (AlreadyAssigned(e) \/ CanAssign(e))
  <2>1. changes > 0 \/ ~Regular(conf[1])
    <3> SUFFICES ASSUME changes = 0, Regular(conf[1]) PROVE FALSE
      BY <1>0, NetworkAssumption DEF NetworkTypeOK
    <3>1. e.form = "canonical" /\ (e.ip \in addrs => e.ip \in assigned) /\ link # "absent"
      BY <1>0, <1>2 DEF AddrsGiven, NetworkKnown, Steps
    <3> QED BY <1>4, <3>1 DEF AlreadyAssigned, CanAssign, ParsesAddr
  <2>2. pc \in Steps \ {"umount", "rmdir", "mount", "parse"}
    BY <1>0 DEF Steps
  <2> QED BY <1>0, <1>3, <1>4, <2>1, <2>2, Failing DEF history
<1>5. CASE AlreadyAssigned(e) \/ CanAssign(e)
  <2>1. pc' = "addr" /\ UNCHANGED verdict
    BY <1>3, <1>5 DEF Goto
  <2>2. NetworkSound' /\ NetinitDelivers' /\ NetinitRepeats'
    BY <1>0, <2>1 DEF NetworkSound, PanicsExplained, agentVars, NetinitDelivers, NetinitRepeats
  <2>3. Controlled' /\ MountTracked'
    BY <1>0, <2>1 DEF Controlled, MountTracked, Reading, Applying, Gateways
  <2>4. NetworkKnown' /\ RoutesGiven'
    BY <1>0, <1>3, <2>1 DEF NetworkKnown, RoutesGiven, Reading, Gateways, Steps, history
  <2>5. AddrsGiven'
    <3> SUFFICES ASSUME changes = 0
                 PROVE  /\ \A x \in ToSet(conf[1].addrs) : x \in ToSet(todo') \/ x.ip \in addrs'
                        /\ Regular(conf[1]) => \A k \in DOMAIN todo' :
                              /\ todo'[k].form = "canonical"
                              /\ todo'[k].ip \in addrs' => todo'[k].ip \in assigned
                              /\ \A j \in DOMAIN todo' : todo'[j].ip = todo'[k].ip => j = k
      BY <1>0, <2>1 DEF AddrsGiven, history, Gateways
    <3>1. e.ip \in addrs' /\ addrs \subseteq addrs' /\ addrs' \subseteq addrs \cup {e.ip}
      BY <1>0, <1>3, <1>5 DEF AlreadyAssigned, NetworkKnown
    <3>2. \A x \in ToSet(conf[1].addrs) : x \in ToSet(todo') \/ x.ip \in addrs'
      BY <1>0, <1>2, <3>1 DEF AddrsGiven
    <3>3. ASSUME Regular(conf[1]), NEW k \in DOMAIN todo'
          PROVE  /\ todo'[k].form = "canonical"
                 /\ todo'[k].ip \in addrs' => todo'[k].ip \in assigned
                 /\ \A j \in DOMAIN todo' : todo'[j].ip = todo'[k].ip => j = k
      <4>1. /\ k \in Nat /\ k > 0 /\ k + 1 \in DOMAIN todo /\ todo'[k] = todo[k + 1]
        BY <1>2
      <4>2. \A i, j \in DOMAIN todo : todo[j].ip = todo[i].ip => j = i
        BY <1>0, <3>3 DEF AddrsGiven
      <4>3. todo[k + 1].ip # e.ip
        BY <1>2, <4>1, <4>2
      <4>4. todo[k + 1].form = "canonical" /\ (todo[k + 1].ip \in addrs => todo[k + 1].ip \in assigned)
        BY <1>0, <3>3, <4>1 DEF AddrsGiven
      <4>5. ASSUME NEW j \in DOMAIN todo', todo'[j].ip = todo'[k].ip PROVE j = k
        <5>1. j \in Nat /\ j + 1 \in DOMAIN todo /\ todo'[j] = todo[j + 1]
          BY <1>2
        <5>2. j + 1 = k + 1
          BY <4>1, <4>2, <4>5, <5>1
        <5> QED BY <4>1, <5>1, <5>2
      <4> QED BY <3>1, <4>1, <4>3, <4>4, <4>5
    <3> QED BY <3>2, <3>3
  <2> QED BY <2>2, <2>3, <2>4, <2>5 DEF NetInv
<1> QED BY <1>4, <1>5

\* What is configured after the addresses: first the gateways that are wanted.
LEMMA GatewayOrder ==
    /\ GatewaysFrom("link4") \in Gateways \cup {"routes"}
    /\ GatewaysFrom("link4") = "default4" => Wants4(conf[1]) /\ First4(conf[1]) \notin Host4
    /\ GatewaysFrom("link4") \in {"default6", "routes"} => ~Wants4(conf[1])
    /\ GatewaysFrom("link4") = "routes" => ~Wants6(conf[1])
    /\ GatewaysFrom("default4") \in {"default4", "default6", "routes"}
    /\ GatewaysFrom("default4") \in {"default6", "routes"} => ~Wants4(conf[1])
    /\ GatewaysFrom("default4") = "routes" => ~Wants6(conf[1])
    /\ GatewaysFrom("default6") \in {"default6", "routes"}
    /\ GatewaysFrom("default6") = "routes" => ~Wants6(conf[1])
    /\ GatewaysFrom("routes") = "routes"
<1>1. /\ GatewaysFrom("routes") = "routes"
      /\ GatewaysFrom("default6") = IF Wants6(conf[1]) THEN "default6" ELSE "routes"
  BY DEF GatewaysFrom
<1>2. GatewaysFrom("default4") = IF Wants4(conf[1]) THEN "default4" ELSE GatewaysFrom("default6")
  BY <1>1 DEF GatewaysFrom
<1>3. GatewaysFrom("link4") =
        IF Wants4(conf[1]) /\ First4(conf[1]) \in Host4 THEN "link4" ELSE GatewaysFrom("default4")
  BY <1>1, <1>2 DEF GatewaysFrom
<1> QED BY <1>1, <1>2, <1>3 DEF Gateways

\* The addresses are there: an IPv4 gateway can be reached, over its own link
\* route where the first address is a host address.
LEMMA AddrsDoneStep == ASSUME NetInv, NetworkTypeOK', AddrsDone PROVE NetInv'
<1>0. /\ NetworkTypeOK /\ PanicsExplained /\ Controlled /\ MountTracked /\ NetworkKnown /\ AddrsGiven
      /\ pc = "addr" /\ todo = <<>> /\ conf # <<>> /\ task = "configure"
      /\ pc' = GatewaysFrom("link4") /\ UNCHANGED verdict
      /\ todo' = conf[1].routes
      /\ UNCHANGED <<kernelVars, task, conf, held, mnt, history, agentVars>>
  BY DEF NetInv, NetworkSound, AddrsDone, Controlled, Applying, Goto
<1>1. pc' \in Gateways \cup {"routes"}
  BY <1>0, GatewayOrder
<1>2. NetworkSound' /\ NetinitDelivers' /\ NetinitRepeats'
  BY <1>0, <1>1 DEF NetworkSound, PanicsExplained, agentVars, NetinitDelivers, NetinitRepeats, Gateways
<1>3. Controlled' /\ MountTracked'
  BY <1>0, <1>1 DEF Controlled, MountTracked, Reading, Applying, Gateways
<1>4. NetworkKnown'
  BY <1>0, <1>1 DEF NetworkKnown, Reading, Gateways, Steps, history, kernelVars
<1>5. ToSet(<<>>) = {}
  BY DEF ToSet
<1>6. changes = 0 => \A x \in ToSet(conf[1].addrs) : x.ip \in addrs
  BY <1>0, <1>5 DEF AddrsGiven
<1>7. AddrsGiven'
  BY <1>0, <1>1, <1>6 DEF AddrsGiven, history, kernelVars, Gateways
<1>8. changes = 0 /\ pc' = "default4" => Reach4
  <2> SUFFICES ASSUME changes = 0, pc' = "default4" PROVE Reach4
    OBVIOUS
  <2>1. Wants4(conf[1]) /\ First4(conf[1]) \notin Host4
    BY <1>0, GatewayOrder
  <2>2. First4(conf[1]) \in Addr4 /\ \E x \in ToSet(conf[1].addrs) : x.ip = First4(conf[1])
    BY <1>0, <2>1, ConfRead, FirstIsListed DEF Wants4
  <2> QED BY <1>6, <2>1, <2>2 DEF Reach4
<1>9. RoutesGiven'
  <2>1. UNCHANGED <<addrs, routes, conf, changes>>
    BY <1>0 DEF history, kernelVars
  <2>2. changes' = 0 /\ pc' = "default4" => Reach4'
    BY <1>8, <2>1 DEF Reach4
  <2>3. pc' \in {"default6", "routes"} => ~Wants4(conf'[1])
    BY <1>0, <2>1, GatewayOrder
  <2>4. pc' = "routes" => ~Wants6(conf'[1])
    BY <1>0, <2>1, GatewayOrder
  <2>5. todo' = conf'[1].routes
    BY <1>0
  <2> QED BY <2>2, <2>3, <2>4, <2>5 DEF RoutesGiven
<1> QED BY <1>2, <1>3, <1>4, <1>7, <1>9 DEF NetInv

\* A gateway is set; the default route is refused only if somebody interferes.
LEMMA GatewayStep ==
    ASSUME NetInv, NetworkTypeOK',
           \/ ReplaceGateway("link4", "default4")
           \/ ReplaceGateway("default4", "default6")
           \/ ReplaceGateway("default6", "routes")
    PROVE  NetInv'
<1>0. /\ NetworkTypeOK /\ PanicsExplained /\ Controlled /\ MountTracked /\ NetworkKnown /\ AddrsGiven
      /\ RoutesGiven
      /\ pc \in Gateways /\ conf # <<>> /\ task = "configure" /\ todo = conf[1].routes
      /\ UNCHANGED <<link, addrs, netinitData, history, agentVars>>
      /\ (held /\ Accepts(pc)) \/ (Fail /\ UNCHANGED routes)
  BY DEF NetInv, NetworkSound, ReplaceGateway, Controlled, Applying, Gateways
<1>a. UNCHANGED <<link, addrs, task, conf, todo, assigned, held, mnt, fault, changes, agent, listing>>
  BY <1>0 DEF netinitData, history, agentVars
<1>1. CASE ~ (held /\ Accepts(pc))
  <2>1. changes > 0
    <3> SUFFICES ASSUME changes = 0 PROVE FALSE
      BY <1>0, NetworkAssumption DEF NetworkTypeOK
    <3>1. held /\ link = "up" /\ (pc = "default4" => Reach4)
      BY <1>0 DEF NetworkKnown, RoutesGiven, Gateways, Steps
    <3>2. pc \notin Extra
      BY <1>0, NetworkAssumption DEF Gateways
    <3> QED BY <1>0, <1>1, <3>1, <3>2 DEF Accepts, Gateways
  <2>2. pc \in Steps \ {"umount", "rmdir", "mount", "parse"}
    BY <1>0 DEF Steps, Gateways
  <2> QED BY <1>0, <1>1, <1>a, <2>1, <2>2, Failing DEF agentVars
<1>2. CASE held /\ Accepts(pc)
  <2>1. /\ UNCHANGED verdict /\ routes' = routes \cup {pc}
        /\ pc = "link4" => pc' = GatewaysFrom("default4")
        /\ pc = "default4" => pc' = GatewaysFrom("default6")
        /\ pc = "default6" => pc' = GatewaysFrom("routes")
    BY <1>2 DEF ReplaceGateway, Goto
  <2>2. pc' \in {"default4", "default6", "routes"}
    BY <1>0, <2>1, GatewayOrder DEF Gateways
  <2>3. NetworkSound' /\ NetinitDelivers' /\ NetinitRepeats'
    BY <1>0, <1>a, <2>2 DEF NetworkSound, PanicsExplained, NetinitDelivers, NetinitRepeats
  <2>4. Controlled' /\ MountTracked'
    BY <1>0, <1>a, <2>1, <2>2 DEF Controlled, MountTracked, Reading, Applying, Gateways
  <2>5. NetworkKnown' /\ AddrsGiven'
    BY <1>0, <1>a, <2>2 DEF NetworkKnown, AddrsGiven, Reading, Gateways, Steps
  <2>6. RoutesGiven'
    <3>1. pc' = "default4" => Reach4'
      BY <1>0, <2>1, GatewayOrder DEF Reach4, Gateways
    <3>2. changes = 0 /\ pc' \in {"default6", "routes"} /\ Wants4(conf[1]) => "default4" \in routes'
      BY <1>0, <2>1, GatewayOrder DEF RoutesGiven, Gateways
    <3>3. pc' = "routes" /\ Wants6(conf[1]) => "default6" \in routes'
      BY <1>0, <2>1, GatewayOrder DEF Gateways
    <3> QED BY <1>0, <1>a, <3>1, <3>2, <3>3 DEF RoutesGiven
  <2> QED BY <2>3, <2>4, <2>5, <2>6 DEF NetInv
<1> QED BY <1>1, <1>2

\* One route of the list; a route that fails is left out.
LEMMA RouteStep == ASSUME NetInv, NetworkTypeOK', ConfigureRoute PROVE NetInv'
<1> DEFINE h == Head(todo)
<1>0. /\ NetworkTypeOK /\ PanicsExplained /\ Controlled /\ MountTracked /\ NetworkKnown /\ AddrsGiven
      /\ RoutesGiven
      /\ pc = "routes" /\ todo # <<>> /\ conf # <<>> /\ task = "configure"
      /\ todo' = Tail(todo)
      /\ routes' = IF held /\ Accepts(h) THEN routes \cup {h} ELSE routes
      /\ UNCHANGED <<link, addrs, controlVars, task, conf, assigned, held, mnt, history, agentVars>>
  BY DEF NetInv, NetworkSound, ConfigureRoute, Controlled, Applying
<1>a. UNCHANGED <<link, addrs, pc, verdict, task, conf, assigned, held, mnt, fault, changes, agent,
                  listing>>
  BY <1>0 DEF controlVars, history, agentVars
<1>1. todo \in Seq(Extra)
  BY <1>0 DEF NetworkTypeOK
<1>2. h \in Extra /\ ToSet(todo) = {h} \cup ToSet(todo')
  BY <1>0, <1>1, HeadAndRest
<1> HIDE DEF h
<1>3. NetworkSound' /\ NetinitDelivers' /\ NetinitRepeats'
  BY <1>0, <1>a DEF NetworkSound, PanicsExplained, NetinitDelivers, NetinitRepeats
<1>4. Controlled' /\ MountTracked'
  BY <1>0, <1>a DEF Controlled, MountTracked, Reading, Applying, Gateways
<1>5. NetworkKnown' /\ AddrsGiven'
  BY <1>0, <1>a DEF NetworkKnown, AddrsGiven, Reading, Gateways, Steps
<1>6. RoutesGiven'
  <2>1. routes \subseteq routes' /\ Reach4' = Reach4
    BY <1>0, <1>a, <1>2, NetworkAssumption DEF Reach4
  <2>2. changes = 0 /\ Reach4 => h \in routes'
    BY <1>0, <1>2 DEF NetworkKnown, Steps, Accepts
  <2>3. changes = 0 /\ ~fault /\ Reach4 =>
          \A r \in ToSet(conf[1].routes) : r \in ToSet(todo') \/ r \in routes'
    BY <1>0, <1>2, <2>1, <2>2 DEF RoutesGiven
  <2>4. changes = 0 => /\ Wants4(conf[1]) => "default4" \in routes'
                       /\ Wants6(conf[1]) => "default6" \in routes'
    BY <1>0, <2>1 DEF RoutesGiven
  <2> QED BY <1>0, <1>a, <2>1, <2>3, <2>4 DEF RoutesGiven
<1> QED BY <1>3, <1>4, <1>5, <1>6 DEF NetInv

\* netinit returns without an error.
LEMMA ReturnStep == ASSUME NetInv, NetworkTypeOK', Configured \/ Deconfigured PROVE NetInv'
<1>0. /\ NetworkTypeOK /\ PanicsExplained /\ Controlled /\ MountTracked /\ NetworkKnown /\ AddrsGiven
      /\ RoutesGiven
      /\ pc' = "done" /\ verdict' = "ok"
      /\ UNCHANGED <<kernelVars, netinitData, history, agentVars>>
  BY DEF NetInv, NetworkSound, Configured, Deconfigured
<1>a. UNCHANGED <<link, addrs, routes, task, conf, todo, assigned, held, mnt, fault, changes, agent,
                  listing>>
  BY <1>0 DEF kernelVars, netinitData, history, agentVars
<1>1. \/ pc = "routes" /\ todo = <<>> /\ task = "configure" /\ conf # <<>>
      \/ pc = "del" /\ assigned = {} /\ task = "deconfigure"
  BY <1>0 DEF Configured, Deconfigured, Controlled, Applying
<1>2. NetworkSound' /\ NetinitRepeats'
  BY <1>0, <1>a DEF NetworkSound, PanicsExplained, NetinitRepeats
<1>3. Controlled' /\ MountTracked'
  BY <1>0, <1>1, <1>a DEF Controlled, MountTracked, Reading, Applying, Gateways
<1>4. NetworkKnown' /\ AddrsGiven' /\ RoutesGiven'
  BY <1>0 DEF NetworkKnown, AddrsGiven, RoutesGiven, Reading, Gateways, Steps
<1>5. NetinitDelivers'
  <2>1. mnt' \in {"none", "stuck"}
    BY <1>0, <1>3 DEF MountTracked
  <2>2. changes = 0 /\ task = "deconfigure" => addrs = {} /\ link = "down"
    BY <1>0, <1>1 DEF NetworkKnown, Reading
  <2>3. ASSUME changes = 0, task = "configure"
        PROVE  /\ link = "up"
               /\ \A x \in ToSet(conf[1].addrs) : x.ip \in addrs
               /\ Wants4(conf[1]) => "default4" \in routes
               /\ Wants6(conf[1]) => "default6" \in routes
               /\ ~fault /\ Reach4 => ToSet(conf[1].routes) \subseteq routes
    <3>1. pc = "routes" /\ ToSet(todo) = {}
      BY <1>1, <2>3 DEF ToSet
    <3>2. link = "up" /\ \A x \in ToSet(conf[1].addrs) : x.ip \in addrs
      BY <1>0, <2>3, <3>1 DEF NetworkKnown, AddrsGiven
    <3>3. /\ Wants4(conf[1]) => "default4" \in routes
          /\ Wants6(conf[1]) => "default6" \in routes
          /\ ~fault /\ Reach4 => ToSet(conf[1].routes) \subseteq routes
      BY <1>0, <2>3, <3>1 DEF RoutesGiven
    <3> QED BY <3>2, <3>3
  <2>4. Reach4' = Reach4
    BY <1>a DEF Reach4
  <2> QED BY <1>a, <2>1, <2>2, <2>3, <2>4 DEF NetinitDelivers
<1> QED BY <1>2, <1>3, <1>4, <1>5 DEF NetInv

\* netinitDeconfigureInterface: the link goes down and the addresses go.
LEMMA DeconfigureStep ==
    ASSUME NetInv, NetworkTypeOK', TakeDown \/ \E a \in Addr : FlushAddr(a)
    PROVE  NetInv'
<1>0. /\ NetworkTypeOK /\ PanicsExplained /\ Controlled /\ MountTracked /\ NetworkKnown
      /\ pc \in {"down", "del"} /\ task = "deconfigure"
      /\ UNCHANGED <<task, conf, todo, held, mnt, changes, agent, listing>>
  BY DEF NetInv, NetworkSound, TakeDown, FlushAddr, Controlled, netinitData, history, agentVars
<1>1. CASE Fail
  <2>1. fault' \/ changes > 0
    <3> SUFFICES ASSUME changes = 0, ~fault' PROVE FALSE
      BY <1>0, NetworkAssumption DEF NetworkTypeOK
    <3>1. CASE TakeDown
      <4>1. link # "absent"
        BY <1>0 DEF NetworkKnown, Steps
      <4>2. pc = "down" /\ pc' = "flush"
        BY <3>1, <4>1 DEF TakeDown, Goto
      <4> QED BY <1>1, <4>2 DEF Fail
    <3>2. CASE \E a \in Addr : FlushAddr(a)
      <4>1. PICK a \in Addr : FlushAddr(a)
        BY <3>2
      <4>2. pc = "del" /\ pc' = "done" /\ verdict' = "error" /\ a \in assigned
        BY <1>1, <4>1 DEF FlushAddr, Fail
      <4>3. a \notin addrs
        BY <4>1, <4>2 DEF FlushAddr, Goto
      <4>4. fault' = fault
        BY <4>1, <4>3 DEF FlushAddr
      <4> QED BY <1>0, <4>2, <4>3, <4>4 DEF NetworkKnown
    <3> QED BY <3>1, <3>2
  <2>2. pc \in Steps \ {"umount", "rmdir", "mount", "parse"}
    BY <1>0 DEF Steps
  <2> QED BY <1>0, <1>1, <2>1, <2>2, Failing DEF agentVars
<1>2. CASE ~Fail
  <2>1. /\ UNCHANGED verdict
        /\ \/ pc = "down" /\ pc' = "flush" /\ link' = "down"
           \/ /\ pc = "del" /\ pc' = "del" /\ link' = link
              /\ \E a \in Addr, gone \in SUBSET Addr :
                   /\ a \in gone /\ assigned' = assigned \ {a} /\ addrs' = addrs \ gone
                   /\ fault' = (fault \/ gone # {a})
    <3>1. CASE TakeDown
      BY <1>2, <3>1 DEF TakeDown, Goto, GoesDown
    <3>2. CASE \E a \in Addr : FlushAddr(a)
      <4>1. PICK a \in Addr : FlushAddr(a)
        BY <3>2
      <4>2. a \in addrs
        BY <1>2, <4>1 DEF FlushAddr
      <4>3. PICK gone \in GoingWith(a) :
              /\ addrs' = addrs \ gone /\ fault' = (fault \/ gone # {a}) /\ Goto("del")
        BY <4>1, <4>2 DEF FlushAddr
      <4>4. a \in gone /\ gone \in SUBSET Addr
        BY <1>0, <4>3 DEF GoingWith, NetworkTypeOK
      <4> QED BY <4>1, <4>3, <4>4 DEF FlushAddr, Goto
    <3> QED BY <3>1, <3>2
  <2>2. NetworkSound' /\ NetinitDelivers' /\ NetinitRepeats'
    BY <1>0, <2>1 DEF NetworkSound, PanicsExplained, NetinitDelivers, NetinitRepeats
  <2>3. Controlled' /\ MountTracked'
    BY <1>0, <2>1 DEF Controlled, MountTracked, Reading, Applying, Gateways
  <2>4. NetworkKnown' /\ AddrsGiven' /\ RoutesGiven'
    <3>1. changes = 0 /\ pc' = "del" =>
              addrs' \subseteq assigned' /\ (fault' \/ assigned' \subseteq addrs')
      BY <1>0, <2>1 DEF NetworkKnown
    <3> QED BY <1>0, <2>1, <3>1 DEF NetworkKnown, AddrsGiven, RoutesGiven, Reading, Gateways, Steps
  <2> QED BY <2>2, <2>3, <2>4 DEF NetInv
<1> QED BY <1>1, <1>2

\* A step that fails for a reason of its own.
LEMMA StepFailsStep == ASSUME NetInv, NetworkTypeOK', StepFails PROVE NetInv'
<1>0. /\ NetworkTypeOK /\ PanicsExplained /\ Controlled /\ MountTracked /\ NetworkKnown /\ AddrsGiven
      /\ RoutesGiven
      /\ fault' = TRUE
      /\ UNCHANGED <<link, addrs, routes, task, conf, assigned, held, mnt, changes, agent, listing>>
  BY DEF NetInv, NetworkSound, StepFails, kernelVars, agentVars
<1>1. CASE pc # "routes"
  BY <1>0, <1>1, Failing DEF StepFails, agentVars
<1>2. CASE pc = "routes"
  <2>1. UNCHANGED <<pc, verdict>>
    BY <1>2 DEF StepFails, controlVars
  <2>2. NetworkSound' /\ NetinitDelivers' /\ NetinitRepeats'
    BY <1>0, <1>2, <2>1 DEF NetworkSound, PanicsExplained, NetinitDelivers, NetinitRepeats
  <2>3. Controlled' /\ MountTracked'
    BY <1>0, <1>2, <2>1 DEF Controlled, MountTracked, Reading, Applying, Gateways
  <2>4. NetworkKnown' /\ AddrsGiven' /\ RoutesGiven'
    BY <1>0, <1>2, <2>1 DEF NetworkKnown, AddrsGiven, RoutesGiven, Reading, Gateways, Steps
  <2> QED BY <2>2, <2>3, <2>4 DEF NetInv
<1> QED BY <1>1, <1>2

\* Every step leaves a table of the right type.
LEMMA NetTypes == ASSUME NetInv, NetworkNext PROVE NetworkTypeOK'
<1> USE DEF kernelVars, controlVars, netinitData, history, agentVars, Goto, Fail
<1>0. NetworkTypeOK /\ Controlled /\ 0 \in 0..MaxChanges
  BY NetworkAssumption DEF NetInv, NetworkSound
<1>1. CASE (\E m \in {"configure", "deconfigure"} : Start(m)) \/ Exit
  BY <1>0, <1>1 DEF Start, Exit, NetworkTypeOK, Steps
<1>2. CASE Check("check", "list") \/ Check("find", "down")
  <2>1. held' \in BOOLEAN
    BY <1>2, Zenon DEF Check
  <2>2. pc' \in {"list", "down", "done"} /\ verdict' \in {verdict, "error"}
    BY <1>2 DEF Check
  <2>3. UNCHANGED <<link, addrs, routes, task, conf, todo, assigned, mnt, fault, changes, agent, listing>>
    BY <1>2 DEF Check
  <2> QED BY <1>0, <2>1, <2>2, <2>3 DEF NetworkTypeOK, Steps
<1>3. CASE ListAddrs("list", "device") \/ ListAddrs("flush", "del")
  BY <1>0, <1>3 DEF ListAddrs, NetworkTypeOK, Steps
<1>4. CASE FindMarker \/ FindDevice \/ MakeTempDir \/ MountData \/ UnmountData \/ RemoveTempDir
  BY <1>0, <1>4 DEF FindMarker, FindDevice, MakeTempDir, MountData, UnmountData, RemoveTempDir, NetworkTypeOK, Steps
<1>5. CASE Parse
  BY <1>0, <1>5 DEF Parse, NetworkTypeOK, Steps
<1>6. CASE BringUp
  <2>1. conf[1].addrs \in Seq([ip: Addr, form: Form])
    BY <1>0, <1>6, ConfRead DEF BringUp, Controlled, Applying
  <2> QED BY <1>0, <1>6, <2>1 DEF BringUp, NetworkTypeOK, Steps
<1>7. CASE AssignAddr
  <2>1. Head(todo) \in [ip: Addr, form: Form] /\ Tail(todo) \in Seq([ip: Addr, form: Form])
    BY <1>0, <1>7, HeadAndRest DEF AssignAddr, NetworkTypeOK
  <2>2. addrs' \in SUBSET Addr /\ pc' \in {"addr", "done"} /\ verdict' \in {verdict, "error"}
    BY <1>0, <1>7, <2>1 DEF AssignAddr, NetworkTypeOK
  <2> QED BY <1>0, <1>7, <2>1, <2>2 DEF AssignAddr, NetworkTypeOK, Steps
<1>8. CASE AddrsDone
  <2>1. conf[1].routes \in Seq(Extra)
    BY <1>0, <1>8, ConfRead DEF AddrsDone, Controlled, Applying
  <2>2. pc' \in {"link4", "default4", "default6", "routes"}
    BY <1>8, GatewayOrder DEF AddrsDone, Gateways
  <2> QED BY <1>0, <1>8, <2>1, <2>2 DEF AddrsDone, NetworkTypeOK, Steps
<1>9. CASE \/ ReplaceGateway("link4", "default4") \/ ReplaceGateway("default4", "default6")
           \/ ReplaceGateway("default6", "routes")
  <2>1. pc' \in {"link4", "default4", "default6", "routes", "done"} /\ verdict' \in {verdict, "error"}
    BY <1>9, GatewayOrder DEF ReplaceGateway, Gateways
  <2>2. routes' \subseteq Route
    BY <1>0, <1>9 DEF ReplaceGateway, NetworkTypeOK, Route, Routes4
  <2>3. todo \in Seq(Extra) /\ UNCHANGED todo
    BY <1>0, <1>9 DEF ReplaceGateway, NetworkTypeOK
  <2> QED BY <1>0, <1>9, <2>1, <2>2, <2>3 DEF ReplaceGateway, NetworkTypeOK, Steps
<1>10. CASE ConfigureRoute
  <2>1. Head(todo) \in Extra /\ Tail(todo) \in Seq(Extra)
    BY <1>0, <1>10, HeadAndRest DEF ConfigureRoute, NetworkTypeOK
  <2>2. routes' \subseteq Route
    BY <1>0, <1>10, <2>1 DEF ConfigureRoute, NetworkTypeOK, Route, Routes4
  <2> QED BY <1>0, <1>10, <2>1, <2>2 DEF ConfigureRoute, NetworkTypeOK, Steps
<1>11. CASE Configured \/ Deconfigured
  BY <1>0, <1>11 DEF Configured, Deconfigured, NetworkTypeOK
<1>12. CASE TakeDown
  BY <1>0, <1>12 DEF TakeDown, GoesDown, NetworkTypeOK, Steps
<1>13. CASE \E a \in Addr : FlushAddr(a)
  <2>1. PICK a \in Addr : FlushAddr(a)
    BY <1>13
  <2>2. addrs' \subseteq addrs /\ routes' \subseteq routes /\ fault' \in BOOLEAN
    <3>1. CASE a \in addrs
      BY <1>0, <2>1, <3>1 DEF FlushAddr, RoutesWithout, NetworkTypeOK
    <3>2. CASE a \notin addrs
      BY <1>0, <2>1, <3>2 DEF FlushAddr, NetworkTypeOK
    <3> QED BY <3>1, <3>2
  <2>3. /\ pc' \in {"del", "done"} /\ verdict' \in {verdict, "error"} /\ assigned' \subseteq assigned
        /\ UNCHANGED <<link, task, conf, todo, held, mnt, changes, agent, listing>>
    BY <1>0, <2>1 DEF FlushAddr, Goto, Fail, agentVars
  <2> QED BY <1>0, <2>2, <2>3 DEF NetworkTypeOK, Steps
<1>14. CASE StepFails
  <2>1. CASE pc # "routes"
    BY <1>0, <1>14, <2>1 DEF StepFails, NetworkTypeOK, Steps
  <2>2. CASE pc = "routes"
    <3>1. Tail(todo) \in Seq(Extra)
      BY <1>0, <1>14, <2>2, HeadAndRest DEF StepFails, NetworkTypeOK
    <3> QED BY <1>0, <1>14, <2>2, <3>1 DEF StepFails, NetworkTypeOK, Steps
  <2> QED BY <2>1, <2>2
<1>15. CASE Requests
  <2>1. CASE (\E a \in Addr : AddIPAddr(a) \/ DelIPAddr(a)) \/ SetInterfaceLinkUp \/ SetInterfaceLinkDown
    <3>1. link' \in {"absent", "down", "up"} /\ addrs' \subseteq Addr /\ routes' \subseteq Route /\ Asked
      BY <1>0, <2>1 DEF AddIPAddr, DelIPAddr, SetInterfaceLinkUp, SetInterfaceLinkDown, GoesDown,
                        RoutesWithout, NetworkTypeOK
    <3>2. changes' \in 0..MaxChanges
      BY <1>0, <3>1, NetworkAssumption DEF Asked, Disturbs, NetworkTypeOK
    <3> QED BY <1>0, <3>1, <3>2 DEF NetworkTypeOK, Asked
  <2>2. CASE \E r \in RouteRequests : AddRoute(r) \/ DelRoute(r)
    <3>1. RouteRequests \subseteq Route
      BY DEF RouteRequests, RouteOf, Route, Routes4
    <3>2. link' = link /\ addrs' = addrs /\ routes' \subseteq Route /\ Asked
      BY <1>0, <2>2, <3>1 DEF AddRoute, DelRoute, NetworkTypeOK
    <3>3. changes' \in 0..MaxChanges
      BY <1>0, <3>2, NetworkAssumption DEF Asked, Disturbs, NetworkTypeOK
    <3> QED BY <1>0, <3>2, <3>3 DEF NetworkTypeOK, Asked
  <2>3. CASE ListRoutes \/ NameRoutes \/ AgentRestarts
    BY <1>0, <2>3 DEF ListRoutes, NameRoutes, AgentRestarts, NetworkTypeOK
  <2> QED BY <1>15, <2>1, <2>2, <2>3 DEF Requests
<1>16. CASE Unplug \/ Plug
  <2>1. changes' \in 0..MaxChanges
    BY <1>0, <1>16, NetworkAssumption DEF Unplug, Plug, Disturbs, NetworkTypeOK
  <2>2. CASE Unplug
    BY <1>0, <2>1, <2>2 DEF Unplug, NetworkTypeOK
  <2>3. CASE Plug
    BY <1>0, <2>1, <2>3 DEF Plug, NetworkTypeOK
  <2> QED BY <1>16, <2>2, <2>3
<1>17. CASE Blackhole
  BY <1>0, <1>17 DEF Blackhole, NetworkTypeOK, Route
<1> QED
  BY <1>1, <1>2, <1>3, <1>4, <1>5, <1>6, <1>7, <1>8, <1>9, <1>10, <1>11, <1>12, <1>13, <1>14, <1>15,
     <1>16, <1>17
     DEF NetworkNext, Netinit

\* Requests to the agent, and what else happens in the guest.
LEMMA GuestStep ==
    ASSUME NetInv, NetworkTypeOK', Requests \/ Unplug \/ Plug \/ Blackhole
    PROVE  NetInv'
<1>0. PanicsExplained
  BY DEF NetInv, NetworkSound
<1>1. CASE \/ \E a \in Addr : AddIPAddr(a) \/ DelIPAddr(a)
           \/ SetInterfaceLinkUp \/ SetInterfaceLinkDown
           \/ \E r \in RouteRequests : AddRoute(r) \/ DelRoute(r)
           \/ Unplug \/ Plug
  <2>1. Disturbs /\ UNCHANGED <<controlVars, task, conf, todo, assigned, mnt, fault, agent>>
    BY <1>1 DEF AddIPAddr, DelIPAddr, SetInterfaceLinkUp, SetInterfaceLinkDown, AddRoute, DelRoute,
                Asked, Unplug, Plug, netinitData, agentVars
  <2>2. listing' = listing \/ (listing = "linked" /\ listing' = "orphan")
    BY <1>1 DEF AddIPAddr, DelIPAddr, SetInterfaceLinkUp, SetInterfaceLinkDown, AddRoute, DelRoute,
                Asked, Unplug, Plug, agentVars
  <2>3. NetworkSound'
    BY <1>0, <2>1, <2>2 DEF NetworkSound, PanicsExplained
  <2> QED BY <2>1, <2>3, Disturbed
<1>2. CASE ListRoutes \/ NameRoutes \/ AgentRestarts
  <2>1. UNCHANGED <<kernelVars, controlVars, netinitData, history>> /\ PanicsExplained'
    BY <1>0, <1>2 DEF ListRoutes, NameRoutes, AgentRestarts, PanicsExplained
  <2>2. UNCHANGED <<link, addrs, routes, pc, verdict, task, conf, todo, assigned, held, mnt, fault,
                    changes>>
    BY <2>1 DEF kernelVars, controlVars, netinitData, history
  <2> QED BY <2>1, <2>2 DEF NetInv, NetworkSound, NetinitDelivers, NetinitRepeats, Controlled,
             MountTracked, NetworkKnown, AddrsGiven, RoutesGiven, Reach4
<1>3. CASE Blackhole
  <2>1. /\ UNCHANGED <<link, addrs, pc, verdict, task, conf, todo, assigned, held, mnt, fault,
                       changes, agent, listing>>
        /\ routes' \in {routes \cup {"blackhole"}, routes \ {"blackhole"}}
    BY <1>3 DEF Blackhole, controlVars, netinitData, history, agentVars
  <2>2. /\ Reach4' = Reach4
        /\ \A r \in Extra \cup {"default4", "default6"} : r \in routes' <=> r \in routes
    BY <2>1, NetworkAssumption DEF Reach4
  <2>3. conf # <<>> => ToSet(conf[1].routes) \subseteq Extra
    BY ConfRead DEF NetInv, NetworkSound, ToSet
  <2>4. NetworkSound' /\ NetinitRepeats' /\ Controlled' /\ MountTracked'
    BY <2>1 DEF NetInv, NetworkSound, PanicsExplained, NetinitRepeats, Controlled, MountTracked
  <2>5. NetworkKnown' /\ AddrsGiven'
    BY <2>1 DEF NetInv, NetworkKnown, AddrsGiven
  <2>6. RoutesGiven'
    <3>1. pc = "routes" => conf # <<>>
      BY DEF NetInv, Controlled, Applying
    <3> QED BY <2>1, <2>2, <2>3, <3>1 DEF NetInv, RoutesGiven
  <2>7. NetinitDelivers'
    <3>1. verdict = "ok" /\ task = "configure" => conf # <<>>
      BY DEF NetInv, Controlled
    <3> QED BY <2>1, <2>2, <2>3, <3>1 DEF NetInv, NetinitDelivers
  <2> QED BY <2>4, <2>5, <2>6, <2>7 DEF NetInv
<1> QED BY <1>1, <1>2, <1>3 DEF Requests

\* Every step of the network preserves the invariant.
LEMMA NextNetInv == NetInv /\ [NetworkNext]_networkVars => NetInv'
<1>1. ASSUME NetInv, UNCHANGED networkVars PROVE NetInv'
  <2>1. UNCHANGED <<link, addrs, routes, pc, verdict, task, conf, todo, assigned, held, mnt, fault,
                    changes, agent, listing>>
    BY <1>1 DEF networkVars, kernelVars, controlVars, netinitData, history, agentVars
  <2>2. NetworkSound' /\ NetinitRepeats' /\ Controlled' /\ MountTracked'
    BY <1>1, <2>1 DEF NetInv, NetworkSound, NetworkTypeOK, PanicsExplained, NetinitRepeats,
                      Controlled, MountTracked
  <2>3. NetinitDelivers' /\ NetworkKnown' /\ AddrsGiven' /\ RoutesGiven'
    BY <1>1, <2>1 DEF NetInv, NetinitDelivers, NetworkKnown, AddrsGiven, RoutesGiven, Reach4
  <2> QED BY <2>2, <2>3 DEF NetInv
<1>2. ASSUME NetInv, NetworkNext PROVE NetInv'
  BY <1>2, NetTypes, StartStep, FindStep, ReadStep, UpStep, AddrStep, AddrsDoneStep, GatewayStep,
     RouteStep, ReturnStep, DeconfigureStep, StepFailsStep, GuestStep
     DEF NetworkNext, Netinit
<1> QED BY <1>1, <1>2

\* netinit that returns nil has done what it was asked for, for any addresses,
\* any configuration and any interleaving with the agent's network requests.
THEOREM NetinitAlwaysDelivers == NetworkSpec => []NetinitDelivers
<1>1. NetInv => NetinitDelivers
  BY DEF NetInv
<1> QED BY InitNetInv, NextNetInv, <1>1, PTL DEF NetworkSpec

\* netinit can be repeated from whatever state runs before it have left.
THEOREM NetinitCanBeRepeated == NetworkSpec => []NetinitRepeats
<1>1. NetInv => NetinitRepeats
  BY DEF NetInv
<1> QED BY InitNetInv, NextNetInv, <1>1, PTL DEF NetworkSpec

\* The routing table keeps its type, and an agent that panicked did so over a
\* route without an interface.
THEOREM NetworkIsSound == NetworkSpec => []NetworkSound
<1>1. NetInv => NetworkSound
  BY DEF NetInv
<1> QED BY InitNetInv, NextNetInv, <1>1, PTL DEF NetworkSpec

-----------------------------------------------------------------------------
(* Accounts and mount points *)

\* What the loop of GetOSUsers and GetOSGroups knows after n lines: they are
\* readable, and the map has their names with the id of the last line of each.
Reads(lines, m, n) ==
    /\ \A i \in 1..n : lines[i].ignored \/ lines[i].parses
    /\ \A i \in 1..n : ~lines[i].ignored => lines[i].name \in DOMAIN m
    /\ \A t \in DOMAIN m : \E i \in 1..n :
          /\ ~lines[i].ignored /\ lines[i].name = t /\ m[t] = lines[i].id % IdSpan
          /\ \A j \in 1..n : ~lines[j].ignored /\ lines[j].name = t => j <= i

\* What the loop of GetMountPoints knows after n lines: the filesystems among
\* them are reached, nothing else is listed, and only the target of a link is
\* listed twice.
Covers(lines, ms, n) ==
    /\ \A i \in Frozen(lines) : i <= n => \E k \in DOMAIN ms :
          ms[k].source \in {lines[i].source, ListedAs(lines[i])}
    /\ \A k \in DOMAIN ms : \E i \in Frozen(lines) :
          ms[k] = [source |-> ListedAs(lines[i]), file |-> lines[i].file]
    /\ \A k, l \in DOMAIN ms :
          k < l /\ ms[k].source = ms[l].source =>
              \E i \in Frozen(lines) : lines[i].kind = "link" /\ lines[i].target = ms[l].source

MPEntry == [source: STRING, file: Nat]

\* Which tables a request reads, and how far it has come.
TablesTyped ==
    /\ DOMAIN text = Table /\ DOMAIN names = {"passwd", "group"}
    /\ text["passwd"] \in Seq(Account) /\ text["group"] \in Seq(Account)
    /\ text["mounts"] \in Seq(MountLine)
    /\ list \in Seq(MPEntry)
    /\ open \in Table \cup {"none"} /\ pos \in Nat
    /\ open # "none" => pos <= Len(text[open])
    /\ job = "none" => open = "none" /\ list = <<>>
    /\ open \in {"passwd", "group"} => job = "chown"
    /\ open = "mounts" => job = "mounts"
    /\ job = "none" => names["passwd"] = NoNames /\ names["group"] = NoNames
    /\ open = "passwd" => names["group"] = NoNames

\* The inductive invariant.
TablesInv ==
    /\ TablesTyped /\ OwnerResolves /\ MountsCovered
    /\ open = "passwd" => Reads(text["passwd"], names["passwd"], pos)
    /\ open = "group" => /\ Reads(text["passwd"], names["passwd"], Len(text["passwd"]))
                         /\ Reads(text["group"], names["group"], pos)
    /\ open = "mounts" => Covers(text["mounts"], list, pos)

\* One more line of accounts.
LEMMA ReadsOne ==
    ASSUME NEW lines \in Seq(Account), NEW m, NEW n \in Nat, n < Len(lines), Reads(lines, m, n),
           lines[n + 1].ignored \/ lines[n + 1].parses
    PROVE  Reads(lines,
                 IF lines[n + 1].ignored THEN m ELSE Put(m, lines[n + 1].name, lines[n + 1].id), n + 1)
<1> DEFINE l == lines[n + 1]
           p == Put(m, l.name, l.id)
<1>0. \A i \in 1..(n + 1) : i \in 1..n \/ i = n + 1
  OBVIOUS
<1>1. CASE l.ignored
  BY <1>0, <1>1 DEF Reads
<1>2. CASE ~l.ignored
  <2>1. /\ DOMAIN p = DOMAIN m \cup {l.name}
        /\ p[l.name] = l.id % IdSpan
        /\ \A t \in DOMAIN m : t # l.name => p[t] = m[t]
    BY DEF Put
  <2> HIDE DEF p
  <2>2. \A i \in 1..(n + 1) : lines[i].ignored \/ lines[i].parses
    BY <1>0 DEF Reads
  <2>3. \A i \in 1..(n + 1) : ~lines[i].ignored => lines[i].name \in DOMAIN p
    BY <1>0, <2>1 DEF Reads
  <2>4. ASSUME NEW t \in DOMAIN p
        PROVE  \E i \in 1..(n + 1) :
                 /\ ~lines[i].ignored /\ lines[i].name = t /\ p[t] = lines[i].id % IdSpan
                 /\ \A j \in 1..(n + 1) : ~lines[j].ignored /\ lines[j].name = t => j <= i
    <3>1. CASE t = l.name
      <4>1. n + 1 \in 1..(n + 1) /\ \A j \in 1..(n + 1) : j <= n + 1
        OBVIOUS
      <4> QED BY <1>2, <2>1, <3>1, <4>1
    <3>2. CASE t # l.name
      <4>1. PICK i \in 1..n :
              /\ ~lines[i].ignored /\ lines[i].name = t /\ m[t] = lines[i].id % IdSpan
              /\ \A j \in 1..n : ~lines[j].ignored /\ lines[j].name = t => j <= i
        BY <2>1, <2>4, <3>2 DEF Reads
      <4>2. \A j \in 1..(n + 1) : ~lines[j].ignored /\ lines[j].name = t => j <= i
        BY <1>0, <3>2, <4>1
      <4> QED BY <2>1, <2>4, <3>2, <4>1, <4>2
    <3> QED BY <3>1, <3>2
  <2> QED BY <1>2, <2>2, <2>3, <2>4 DEF Reads, p
<1> QED BY <1>1, <1>2

\* All lines: the map resolves a text to what the lines mean by it.
LEMMA ReadsAll ==
    ASSUME NEW lines \in Seq(Account), NEW m, Reads(lines, m, Len(lines)), NEW t
    PROVE  /\ Readable(lines)
           /\ \A id \in Resolve(m, t) : MeansId(lines, t, Owner(id))
           /\ Resolve(m, t) = {} => ~Means(lines, t)
<1>1. DOMAIN lines = 1..Len(lines)
  BY LenProperties
<1>2. Readable(lines)
  BY <1>1 DEF Reads, Readable
<1>3. t \in DOMAIN m <=> Valid(lines, t) # {}
  BY <1>1 DEF Reads, Valid
<1>4. t \in DOMAIN m => MeansId(lines, t, Owner(m[t]))
  BY <1>1 DEF Reads, Valid, MeansId
<1>5. \A id \in Resolve(m, t) : MeansId(lines, t, Owner(id))
  BY <1>3, <1>4 DEF Resolve, MeansId
<1>6. Resolve(m, t) = {} => ~Means(lines, t)
  BY <1>3 DEF Resolve, Means
<1> QED BY <1>2, <1>5, <1>6

\* One more line of mounts: it is skipped, or its source is added to the list.
LEMMA CoversOne ==
    ASSUME NEW lines \in Seq(MountLine), NEW ms \in Seq(MPEntry), NEW n \in Nat, n < Len(lines),
           Covers(lines, ms, n)
    PROVE  LET l == lines[n + 1] IN
           /\ (\E k \in DOMAIN ms : ms[k].source = l.source) => Covers(lines, ms, n + 1)
           /\ n + 1 \notin Frozen(lines) => Covers(lines, ms, n + 1)
           /\ /\ n + 1 \in Frozen(lines)
              /\ ~\E k \in DOMAIN ms : ms[k].source = l.source
              => Covers(lines, Append(ms, [source |-> ListedAs(l), file |-> l.file]), n + 1)
<1> DEFINE l == lines[n + 1]
           e == [source |-> ListedAs(l), file |-> l.file]
           as == Append(ms, e)
<1>0. \A i \in Frozen(lines) : i \in Nat
  BY LenProperties DEF Frozen, Freezable
<1>1. \A i \in Frozen(lines) : i <= n + 1 => i <= n \/ i = n + 1
  BY <1>0
<1>2. ASSUME NEW k \in DOMAIN ms, ms[k].source = l.source PROVE Covers(lines, ms, n + 1)
  BY <1>1, <1>2 DEF Covers
<1>3. ASSUME n + 1 \notin Frozen(lines) PROVE Covers(lines, ms, n + 1)
  BY <1>1, <1>3 DEF Covers
<1>4. ASSUME n + 1 \in Frozen(lines), ~\E k \in DOMAIN ms : ms[k].source = l.source
      PROVE  Covers(lines, as, n + 1)
  <2>1. l \in MountLine
    BY ElementOfSeq
  <2>2. e \in MPEntry /\ e.source = ListedAs(l)
    BY <2>1 DEF MPEntry, MountLine, ListedAs
  <2> HIDE DEF e
  <2>a. /\ DOMAIN ms = 1..Len(ms) /\ Len(ms) \in Nat /\ DOMAIN as = 1..(Len(ms) + 1)
        /\ \A k \in 1..Len(ms) : as[k] = ms[k]
        /\ as[Len(ms) + 1] = e
    BY <2>2, AppendProperties, LenProperties
  <2> HIDE DEF as
  <2>3. PICK N \in Nat : /\ DOMAIN ms = 1..N /\ DOMAIN as = 1..(N + 1)
                         /\ \A k \in 1..N : as[k] = ms[k]
                         /\ as[N + 1] = e
    BY <2>a
  <2>b. /\ \A k \in 1..N : k \in 1..(N + 1)
        /\ \A k \in 1..(N + 1) : k \in 1..N \/ k = N + 1
        /\ \A j \in 1..(N + 1), k \in 1..(N + 1) : j < k => j \in 1..N
    OBVIOUS
  <2>4. \A i \in Frozen(lines) : i <= n + 1 => \E k \in DOMAIN as :
          as[k].source \in {lines[i].source, ListedAs(lines[i])}
    <3>1. e.source \in {l.source, ListedAs(l)}
      BY <2>2 DEF ListedAs
    <3>2. N + 1 \in DOMAIN as /\ as[N + 1].source \in {l.source, ListedAs(l)}
      BY <2>3, <3>1
    <3>3. \A i \in Frozen(lines) : i <= n => \E k \in 1..N :
            ms[k].source \in {lines[i].source, ListedAs(lines[i])}
      BY <2>3 DEF Covers
    <3>4. \A i \in Frozen(lines) : i <= n => \E k \in DOMAIN as :
            as[k].source \in {lines[i].source, ListedAs(lines[i])}
      BY <2>3, <2>b, <3>3
    <3> QED BY <1>1, <3>2, <3>4
  <2>5. ASSUME NEW j \in DOMAIN as, NEW k \in DOMAIN as, j < k, as[j].source = as[k].source
        PROVE  \E i \in Frozen(lines) : lines[i].kind = "link" /\ lines[i].target = as[k].source
    <3>1. CASE k \in 1..N
      <4>1. j \in DOMAIN ms /\ k \in DOMAIN ms /\ as[j] = ms[j] /\ as[k] = ms[k]
        BY <2>3, <2>b, <2>5, <3>1
      <4> QED BY <2>5, <4>1 DEF Covers
    <3>2. CASE k = N + 1
      <4>1. j \in DOMAIN ms /\ ms[j].source = e.source
        BY <2>3, <2>b, <2>5, <3>2
      <4>2. l.kind = "link" /\ l.target = e.source
        BY <1>4, <2>2, <4>1 DEF ListedAs
      <4> QED BY <1>4, <2>3, <3>2, <4>2
    <3> QED BY <2>3, <2>b, <3>1, <3>2
  <2>6. ASSUME NEW k \in DOMAIN as
        PROVE  \E i \in Frozen(lines) :
                 as[k] = [source |-> ListedAs(lines[i]), file |-> lines[i].file]
    <3>1. CASE k \in 1..N
      <4>1. k \in DOMAIN ms /\ as[k] = ms[k]
        BY <2>3, <3>1
      <4>2. \E i \in Frozen(lines) :
              ms[k] = [source |-> ListedAs(lines[i]), file |-> lines[i].file]
        BY <4>1 DEF Covers
      <4> QED BY <4>1, <4>2
    <3>2. CASE k = N + 1
      BY <1>4, <2>3, <3>2 DEF e
    <3> QED BY <2>3, <2>b, <2>6, <3>1, <3>2
  <2> QED BY <2>4, <2>5, <2>6 DEF Covers
<1> QED BY <1>2, <1>3, <1>4

\* Before a request nothing was read.
Fresh ==
    /\ job = "none" /\ open = "none" /\ pos = 0
    /\ text = [f \in Table |-> <<>>]
    /\ names = [f \in {"passwd", "group"} |-> NoNames]
    /\ list = <<>>

LEMMA FreshTyped == Fresh => TablesTyped
<1> SUFFICES ASSUME Fresh PROVE TablesTyped
  OBVIOUS
<1>1. /\ DOMAIN text = Table
      /\ text["passwd"] = <<>> /\ text["group"] = <<>> /\ text["mounts"] = <<>>
  BY DEF Fresh, Table
<1>2. /\ DOMAIN names = {"passwd", "group"}
      /\ names["passwd"] = NoNames /\ names["group"] = NoNames
  BY DEF Fresh
<1>3. \A S : <<>> \in Seq(S)
  OBVIOUS
<1>4. list = <<>> /\ list \in Seq(MPEntry)
  BY <1>3 DEF Fresh
<1> QED BY <1>1, <1>2, <1>3, <1>4 DEF Fresh, TablesTyped

LEMMA InitTablesInv == TablesInit => TablesInv
<1> SUFFICES ASSUME TablesInit PROVE TablesInv
  OBVIOUS
<1>1. TablesTyped
  BY FreshTyped DEF TablesInit, Fresh
<1>2. job = "none" /\ open = "none"
  BY DEF TablesInit
<1> QED BY <1>1, <1>2 DEF TablesInv, OwnerResolves, MountsCovered

\* SetFileOwner reads passwd, then group, and resolves what it was given.
LEMMA OwnerStep ==
    ASSUME TablesInv,
           \/ \E a \in Accounts :
                (\E o \in Text, g \in GroupText : SetFileOwner(o, g, a)) \/ OpenGroup(a)
           \/ ReadAccount \/ Chown
    PROVE  TablesInv'
<1>0. TablesTyped /\ OwnerResolves /\ MountsCovered
  BY DEF TablesInv
<1>1. ASSUME NEW a \in Accounts, NEW o \in Text, NEW g \in GroupText, SetFileOwner(o, g, a)
      PROVE  TablesInv'
  <2>1. /\ job = "none" /\ open = "none" /\ job' = "chown" /\ open' = "passwd" /\ pos' = 0
        /\ text' = [text EXCEPT !["passwd"] = a] /\ UNCHANGED <<names, list, answer>>
    BY <1>0, <1>1 DEF SetFileOwner, OpenTable, TablesTyped
  <2>2. a \in Seq(Account)
    BY TablesAssumption
  <2>3. TablesTyped'
    <3>1. /\ DOMAIN text' = Table /\ text'["passwd"] = a
          /\ text'["group"] = text["group"] /\ text'["mounts"] = text["mounts"]
      BY <1>0, <2>1 DEF TablesTyped, Table
    <3>2. 0 <= Len(a)
      BY <2>2, LenProperties
    <3>3. names["group"] = NoNames /\ list \in Seq(MPEntry)
      BY <1>0, <2>1 DEF TablesTyped
    <3> QED BY <1>0, <2>1, <2>2, <3>1, <3>2, <3>3 DEF TablesTyped, Table
  <2>4. DOMAIN names["passwd"] = {}
    <3>1. names["passwd"] = NoNames
      BY <1>0, <2>1 DEF TablesTyped
    <3> QED BY <3>1 DEF NoNames
  <2>5. Reads(text'["passwd"], names'["passwd"], 0)
    <3>1. \A i \in 1..0 : FALSE
      OBVIOUS
    <3> QED BY <2>1, <2>4, <3>1 DEF Reads
  <2> QED BY <2>1, <2>3, <2>5 DEF TablesInv, OwnerResolves, MountsCovered
<1>2. ASSUME NEW a \in Accounts, OpenGroup(a) PROVE TablesInv'
  <2>1. /\ open = "passwd" /\ open' = "group" /\ pos = Len(text["passwd"]) /\ pos' = 0
        /\ text' = [text EXCEPT !["group"] = a] /\ UNCHANGED <<job, who, names, list, answer>>
    BY <1>2 DEF OpenGroup, OpenTable, AtEnd
  <2>2. a \in Seq(Account)
    BY TablesAssumption
  <2>3. TablesTyped'
    <3>1. /\ DOMAIN text' = Table /\ text'["group"] = a
          /\ text'["passwd"] = text["passwd"] /\ text'["mounts"] = text["mounts"]
      BY <1>0, <2>1 DEF TablesTyped, Table
    <3>2. 0 <= Len(a)
      BY <2>2, LenProperties
    <3>3. job = "chown"
      BY <1>0, <2>1 DEF TablesTyped
    <3> QED BY <1>0, <2>1, <2>2, <3>1, <3>2, <3>3 DEF TablesTyped, Table
  <2>4. DOMAIN names["group"] = {}
    <3>1. names["group"] = NoNames
      BY <1>0, <2>1 DEF TablesTyped
    <3> QED BY <3>1 DEF NoNames
  <2>5. Reads(text'["group"], names'["group"], 0)
    <3>1. \A i \in 1..0 : FALSE
      OBVIOUS
    <3> QED BY <2>1, <2>4, <3>1 DEF Reads
  <2>6. text'["passwd"] = text["passwd"]
    BY <1>0, <2>1 DEF TablesTyped, Table
  <2>7. Reads(text'["passwd"], names'["passwd"], Len(text'["passwd"]))
    BY <2>1, <2>6 DEF TablesInv
  <2> QED BY <2>1, <2>3, <2>5, <2>7 DEF TablesInv, OwnerResolves, MountsCovered
<1>3. CASE ReadAccount
  <2> DEFINE f == open
             n == pos
             l == text[open][pos + 1]
  <2>1. /\ f \in {"passwd", "group"} /\ n \in Nat /\ n < Len(text[f]) /\ text[f] \in Seq(Account)
        /\ job = "chown" /\ pos' = n + 1
        /\ UNCHANGED <<job, who, text, list>>
    <3>1. text[open] \in Seq(Account) /\ pos <= Len(text[open]) /\ pos # Len(text[open])
      BY <1>0, <1>3 DEF ReadAccount, AtEnd, TablesTyped
    <3>2. Len(text[open]) \in Nat
      BY <3>1, LenProperties
    <3> QED BY <1>0, <1>3, <3>1, <3>2 DEF ReadAccount, TablesTyped
  <2>2. Reads(text[f], names[f], n)
    BY <2>1 DEF TablesInv
  <2>3. CASE ~l.ignored /\ ~l.parses
    <3>1. open' = "none" /\ answer' = NoAnswer /\ UNCHANGED names
      BY <1>3, <2>3 DEF ReadAccount, Return, Line
    <3>2. TablesTyped'
      BY <1>0, <2>1, <3>1 DEF TablesTyped
    <3>3. ~Readable(text[f])
      <4>1. n + 1 \in DOMAIN text[f]
        BY <2>1, LenProperties
      <4> QED BY <2>3, <4>1 DEF Readable
    <3>4. ~answer'.ok
      BY <3>1 DEF NoAnswer
    <3>5. OwnerResolves'
      BY <2>1, <3>1, <3>3, <3>4 DEF OwnerResolves
    <3> QED BY <2>1, <3>1, <3>2, <3>5 DEF TablesInv, MountsCovered
  <2>4. CASE l.ignored \/ l.parses
    <3>1. /\ UNCHANGED <<open, answer>>
          /\ names' = IF l.ignored THEN names ELSE [names EXCEPT ![f] = Put(names[f], l.name, l.id)]
      BY <1>3, <2>4 DEF ReadAccount, Line
    <3>2. /\ names'[f] = IF l.ignored THEN names[f] ELSE Put(names[f], l.name, l.id)
          /\ \A h \in {"passwd", "group"} : h # f => names'[h] = names[h]
          /\ DOMAIN names' = {"passwd", "group"}
      BY <1>0, <2>1, <3>1 DEF TablesTyped
    <3>3. TablesTyped'
      BY <1>0, <2>1, <3>1, <3>2, LenProperties DEF TablesTyped
    <3>4. Reads(text[f], names'[f], n + 1)
      BY <2>1, <2>2, <2>4, <3>2, ReadsOne
    <3>5. open = "group" => Reads(text["passwd"], names'["passwd"], Len(text["passwd"]))
      BY <3>2 DEF TablesInv
    <3> QED BY <2>1, <3>1, <3>3, <3>4, <3>5 DEF TablesInv, OwnerResolves, MountsCovered
  <2> QED BY <2>3, <2>4
<1>4. CASE Chown
  <2>1. /\ open = "group" /\ open' = "none" /\ job = "chown" /\ pos = Len(text["group"])
        /\ UNCHANGED <<job, who, text, pos, names, list>>
    BY <1>0, <1>4 DEF Chown, Return, AtEnd, TablesTyped
  <2>2. TablesTyped'
    BY <1>0, <2>1 DEF TablesTyped
  <2> DEFINE U == Resolve(names["passwd"], who[1])
             G == Resolve(names["group"], who[2])
  <2>3. /\ Readable(text["passwd"])
        /\ \A id \in U : MeansId(text["passwd"], who[1], Owner(id))
        /\ U = {} => ~Means(text["passwd"], who[1])
    BY <1>0, <2>1, ReadsAll DEF TablesInv, TablesTyped
  <2>4. /\ Readable(text["group"])
        /\ \A id \in G : MeansId(text["group"], who[2], Owner(id))
        /\ G = {} => ~Means(text["group"], who[2])
    BY <1>0, <2>1, ReadsAll DEF TablesInv, TablesTyped
  <2>5. \/ \E u \in U, g \in G : answer' = [ok |-> TRUE, uid |-> Owner(u), gid |-> Owner(g)]
        \/ (U = {} \/ G = {}) /\ answer' = NoAnswer
    BY <1>4 DEF Chown, Return
  <2> HIDE DEF U, G
  <2>6. OwnerResolves'
    <3>1. CASE \E u \in U, g \in G : answer' = [ok |-> TRUE, uid |-> Owner(u), gid |-> Owner(g)]
      <4>1. /\ answer'.ok
            /\ \E u \in U : answer'.uid = Owner(u)
            /\ \E g \in G : answer'.gid = Owner(g)
        BY <3>1
      <4> QED BY <2>1, <2>3, <2>4, <4>1 DEF OwnerResolves
    <3>2. CASE (U = {} \/ G = {}) /\ answer' = NoAnswer
      <4>1. ~answer'.ok
        BY <3>2 DEF NoAnswer
      <4> QED BY <2>1, <2>3, <2>4, <3>2, <4>1 DEF OwnerResolves
    <3> QED BY <2>5, <3>1, <3>2
  <2> QED BY <2>1, <2>2, <2>6 DEF TablesInv, MountsCovered
<1> QED BY <1>1, <1>2, <1>3, <1>4

\* GetMountPoints goes through the mounts.
LEMMA MountStep ==
    ASSUME TablesInv, (\E m \in Mounts : GetMountPoints(m)) \/ ReadMount \/ MountsRead
    PROVE  TablesInv'
<1>0. TablesTyped /\ OwnerResolves /\ MountsCovered
  BY DEF TablesInv
<1>1. ASSUME NEW m \in Mounts, GetMountPoints(m) PROVE TablesInv'
  <2>1. /\ job = "none" /\ job' = "mounts" /\ open' = "mounts" /\ pos' = 0 /\ list = <<>>
        /\ text' = [text EXCEPT !["mounts"] = m] /\ UNCHANGED <<who, names, list, answer>>
    BY <1>0, <1>1 DEF GetMountPoints, OpenTable, TablesTyped
  <2>2. m \in Seq(MountLine) /\ text'["mounts"] = m
    BY <1>0, <2>1, TablesAssumption DEF TablesTyped, Table
  <2>3. TablesTyped'
    BY <1>0, <2>1, <2>2, LenProperties DEF TablesTyped, Table
  <2>4. Covers(m, <<>>, 0)
    <3>1. \A i \in Frozen(m) : i \in Nat /\ i >= 1
      BY <2>2, LenProperties DEF Frozen, Freezable
    <3> QED BY <3>1 DEF Covers
  <2> QED BY <2>1, <2>2, <2>3, <2>4 DEF TablesInv, OwnerResolves, MountsCovered
<1>2. CASE ReadMount
  <2> DEFINE n == pos
             l == text["mounts"][pos + 1]
             lines == text["mounts"]
  <2>1. /\ open = "mounts" /\ job = "mounts" /\ pos' = n + 1
        /\ n \in Nat /\ n < Len(lines) /\ lines \in Seq(MountLine) /\ list \in Seq(MPEntry)
        /\ UNCHANGED <<job, who, text, names>>
    <3>1. lines \in Seq(MountLine) /\ pos <= Len(lines) /\ pos # Len(lines)
      BY <1>0, <1>2 DEF ReadMount, AtEnd, TablesTyped
    <3>2. Len(lines) \in Nat
      BY <3>1, LenProperties
    <3> QED BY <1>0, <1>2, <3>1, <3>2 DEF ReadMount, TablesTyped
  <2>2. Covers(lines, list, n)
    BY <2>1 DEF TablesInv
  <2>3. CASE ~Skipped(l) /\ l.kind = "gone"
    <3>1. open' = "none" /\ answer' = NoAnswer /\ UNCHANGED list
      BY <1>2, <2>1, <2>3 DEF ReadMount, Return, Line
    <3>2. TablesTyped'
      BY <1>0, <2>1, <3>1 DEF TablesTyped
    <3>3. ~answer'.ok
      BY <3>1 DEF NoAnswer
    <3> QED BY <2>1, <3>1, <3>2, <3>3 DEF TablesInv, OwnerResolves, MountsCovered
  <2>4. CASE Skipped(l) \/ l.kind # "gone"
    <3>1. /\ UNCHANGED <<open, answer>>
          /\ list' = IF Skipped(l) \/ l.kind \in {"gone", "dm"} THEN list
                     ELSE Append(list, [source |-> ListedAs(l), file |-> l.file])
      BY <1>2, <2>1, <2>4 DEF ReadMount, Line
    <3>2. l \in MountLine /\ n + 1 \in DOMAIN lines
      BY <2>1, ElementOfSeq, LenProperties
    <3>3. [source |-> ListedAs(l), file |-> l.file] \in MPEntry
      BY <3>2 DEF ListedAs, MPEntry, MountLine
    <3>4. list' \in Seq(MPEntry)
      BY <2>1, <3>1, <3>3, AppendProperties
    <3>5. TablesTyped'
      BY <1>0, <2>1, <3>1, <3>4, LenProperties DEF TablesTyped
    <3>6. Covers(lines, list', n + 1)
      <4>1. CASE \E k \in DOMAIN list : list[k].source = l.source
        <5>1. list' = list
          BY <3>1, <4>1 DEF Skipped, Present
        <5> QED BY <2>1, <2>2, <4>1, <5>1, CoversOne
      <4>2. CASE n + 1 \notin Frozen(lines)
        <5>1. list' = list
          BY <3>1, <3>2, <4>2 DEF Skipped, Frozen, Freezable, MountLine, MountKind
        <5> QED BY <2>1, <2>2, <4>2, <5>1, CoversOne
      <4>3. CASE /\ n + 1 \in Frozen(lines)
                 /\ ~\E k \in DOMAIN list : list[k].source = l.source
        <5>1. list' = Append(list, [source |-> ListedAs(l), file |-> l.file])
          BY <3>1, <4>3 DEF Skipped, Present, Frozen, Freezable
        <5> QED BY <2>1, <2>2, <4>3, <5>1, CoversOne
      <4> QED BY <4>1, <4>2, <4>3
    <3> QED BY <2>1, <3>1, <3>5, <3>6 DEF TablesInv, OwnerResolves, MountsCovered
  <2> QED BY <2>3, <2>4
<1>3. CASE MountsRead
  <2>1. /\ open = "mounts" /\ open' = "none" /\ job = "mounts" /\ pos = Len(text["mounts"])
        /\ UNCHANGED <<job, who, text, pos, names, list>>
    BY <1>0, <1>3 DEF MountsRead, Return, AtEnd, TablesTyped
  <2>2. TablesTyped'
    BY <1>0, <2>1 DEF TablesTyped
  <2>3. \A i \in Frozen(text["mounts"]) : i <= Len(text["mounts"])
    BY <1>0, LenProperties DEF TablesTyped, Frozen, Freezable
  <2>4. Covers(text["mounts"], list, Len(text["mounts"]))
    BY <2>1 DEF TablesInv
  <2>5. MountsCovered'
    BY <2>1, <2>3, <2>4 DEF MountsCovered, Covers
  <2> QED BY <2>1, <2>2, <2>5 DEF TablesInv, OwnerResolves
<1> QED BY <1>1, <1>2, <1>3

\* Every step of a request preserves the invariant.
LEMMA NextTablesInv == TablesInv /\ [TablesNext]_tablesVars => TablesInv'
<1>1. ASSUME TablesInv, Forget PROVE TablesInv'
  <2>1. TablesTyped'
    <3>1. Fresh'
      BY <1>1 DEF Forget, Fresh
    <3> QED BY <3>1, FreshTyped, PTL
  <2> QED BY <1>1, <2>1 DEF Forget, TablesInv, OwnerResolves, MountsCovered
<1>2. ASSUME TablesInv, UNCHANGED tablesVars PROVE TablesInv'
  BY <1>2 DEF tablesVars, TablesInv, TablesTyped, OwnerResolves, MountsCovered
<1> QED BY <1>1, <1>2, OwnerStep, MountStep DEF TablesNext

\* SetFileOwner gives a file to whom the tables mean, for tables of any length.
THEOREM OwnersResolve == TablesSpec => []OwnerResolves
<1>1. TablesInv => OwnerResolves
  BY DEF TablesInv
<1> QED BY InitTablesInv, NextTablesInv, <1>1, PTL DEF TablesSpec

\* GetMountPoints lists every filesystem that can be frozen and is on neither a
\* dm- nor a loop device, and nothing else, for any mount table.
THEOREM MountsAreCovered == TablesSpec => []MountsCovered
<1>1. TablesInv => MountsCovered
  BY DEF TablesInv
<1> QED BY InitTablesInv, NextTablesInv, <1>1, PTL DEF TablesSpec
=============================================================================
