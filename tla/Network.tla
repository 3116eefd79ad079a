------------------------------ MODULE Network ------------------------------
(***************************************************************************)
(* The network of the guest and the two programs that change it: `netinit` *)
(* (cmd/agent/netinit.go), which configures an interface from the NoCloud  *)
(* data of internal/cloudinit or takes it down again, and the network      *)
(* requests of the running agent (core/network.go).  netinit is a process  *)
(* of its own, so a request may come between any two of its netlink calls. *)
(* There is one interface; the kernel's part is external.                  *)
(***************************************************************************)
EXTENDS Naturals, Sequences, SequencesExt

CONSTANTS
    Addr4, Addr6,  \* IPv4 and IPv6 addresses, each with its prefix length
    Host4,         \* the IPv4 addresses with a /32 prefix
    Extra,         \* IPv4 destinations routed through the IPv4 gateway
    Configs,       \* the configurations the NoCloud data may hold
    MaxChanges     \* bound: changes by others during one run of netinit

Addr == Addr4 \cup Addr6

\* How an address is written: as IPNet.String would write it, in another way
\* that parses ("2001:DB8::1/64"), without a prefix length, or malformed.
Form == {"canonical", "other", "bare", "bad"}

\* EthernetConfig; gw4 and gw6 tell whether there is a gateway.
Config ==
    [addrs: Seq([ip: Addr, form: Form]), gw4: BOOLEAN, gw6: BOOLEAN, routes: Seq(Extra)]

ASSUME NetworkAssumption ==
    /\ Host4 \subseteq Addr4 /\ Addr4 \cap Addr6 = {}
    /\ Extra \cap {"gateway", "default", "link4", "default4", "default6", "blackhole"} = {}
    /\ Configs \subseteq Config /\ Configs # {}
    /\ MaxChanges \in Nat

\* "link4" is the IPv4 gateway as a destination of its own, on the link;
\* "blackhole" stands for routes without an interface (blackhole, multipath).
Routes4 == {"link4", "default4"} \cup Extra
Route == Routes4 \cup {"default6", "blackhole"}

VARIABLES
    link,       \* the interface: "absent", "down" or "up"
    addrs,      \* its addresses
    routes,     \* the main routing table
    pc,         \* netinit: "idle", the step to take next, or "done"
    task,       \* "configure" or "deconfigure"
    conf,       \* the configuration it has read: a sequence of length 0 or 1
    todo,       \* what is left of the list it goes through
    assigned,   \* the addresses it has listed
    held,       \* its link object names the interface that is there now
    mnt,        \* the mount of the NoCloud device
    verdict,    \* what it returns
    fault,      \* history: a call failed that no model of the kernel explains, or the
                \* kernel took other addresses along with one that was deleted
    changes,    \* history: changes of the network by others meanwhile
    agent,      \* the agent process: "live" or "dead"
    listing     \* the routes a GetRouteList works on

kernelVars == <<link, addrs, routes>>
controlVars == <<pc, verdict>>
netinitData == <<task, conf, todo, assigned, held, mnt>>
history == <<fault, changes>>
agentVars == <<agent, listing>>
networkVars == <<kernelVars, controlVars, netinitData, history, agentVars>>

Steps == {"marker", "check", "list", "device", "tempdir", "mount", "parse", "umount", "rmdir",
          "up", "addr", "link4", "default4", "default6", "routes", "find", "down", "flush", "del"}

NetworkTypeOK ==
    /\ link \in {"absent", "down", "up"}
    /\ addrs \subseteq Addr /\ routes \subseteq Route
    /\ pc \in Steps \cup {"idle", "done"}
    /\ task \in {"configure", "deconfigure"}
    /\ conf \in {<<>>} \cup {<<c>> : c \in Configs}
    /\ pc = "addr" => todo \in Seq([ip: Addr, form: Form])
    /\ pc \in {"link4", "default4", "default6", "routes"} => todo \in Seq(Extra)
    /\ assigned \subseteq Addr
    /\ held \in BOOLEAN
    /\ mnt \in {"none", "dir", "mounted", "stuck"}
    /\ verdict \in {"none", "ok", "error"}
    /\ fault \in BOOLEAN /\ changes \in 0..MaxChanges
    /\ agent \in {"live", "dead"}
    /\ listing \in {"none", "empty", "linked", "orphan"}

NetworkInit ==
    /\ link = "down" /\ addrs = {} /\ routes = {}
    /\ pc = "idle" /\ task = "configure" /\ conf = <<>> /\ todo = <<>> /\ assigned = {}
    /\ held = FALSE /\ mnt = "none" /\ verdict = "none"
    /\ fault = FALSE /\ changes = 0
    /\ agent = "live" /\ listing = "none"

-----------------------------------------------------------------------------
(* The kernel *)

\* A gateway is accepted when it is on the link: by its own link route or by
\* the prefix of an address.  IPv6 gateways are link-local.
Reach4 == "link4" \in routes \/ addrs \cap (Addr4 \ Host4) # {}

Accepts(r) ==
    /\ link = "up"
    /\ r \in {"default4"} \cup Extra => Reach4

\* What may go when a is deleted: with the first address of an IPv4 subnet its
\* others go too, unless the interface promotes them.
GoingWith(a) ==
    LET others == IF a \in Addr4 \ Host4 THEN addrs \cap (Addr4 \ Host4) ELSE {}
    IN  {{a} \cup s : s \in SUBSET others}

\* The last IPv4 address takes the IPv4 routes with it.
RoutesWithout(gone) ==
    IF addrs \cap Addr4 \cap gone # {} /\ addrs \cap Addr4 \subseteq gone
    THEN routes \ Routes4
    ELSE routes

\* An interface that goes down loses its IPv6 addresses and all its routes.
GoesDown ==
    /\ link' = "down"
    /\ addrs' = addrs \cap Addr4
    /\ routes' = routes \cap {"blackhole"}

\* Somebody other than netinit changes the network.
Disturbs ==
    IF pc = "idle"
    THEN UNCHANGED changes
    ELSE changes < MaxChanges /\ changes' = changes + 1

-----------------------------------------------------------------------------
(* netinit: configuring *)

Goto(p) == pc' = p /\ UNCHANGED verdict

\* A return with an error; in ReadData the deferred calls come first.
Fail ==
    /\ verdict' = "error"
    /\ pc' = CASE pc = "mount" -> "rmdir" [] pc = "parse" -> "umount" [] OTHER -> "done"

\* A new process.
Start(m) ==
    /\ pc = "idle"
    /\ task' = m
    /\ Goto(IF m = "configure" THEN "marker" ELSE "find")
    /\ conf' = <<>> /\ todo' = <<>> /\ assigned' = {} /\ held' = FALSE /\ mnt' = "none"
    /\ fault' = FALSE /\ changes' = 0
    /\ UNCHANGED <<kernelVars, agentVars>>

\* IsNoCloudMarkerPresent finds the marker in the SMBIOS tables.
FindMarker ==
    /\ pc = "marker"
    /\ Goto("check")
    /\ UNCHANGED <<kernelVars, netinitData, history, agentVars>>

\* LinkByName finds a physical device.
Check(p, next) ==
    /\ pc = p
    /\ held' = (link # "absent")
    /\ IF link = "absent" THEN Fail ELSE Goto(next)
    /\ UNCHANGED <<kernelVars, task, conf, todo, assigned, mnt, history, agentVars>>

\* AddrList picks the addresses with the index of the link object, none if the
\* interface it was made of has gone.
ListAddrs(p, next) ==
    /\ pc = p
    /\ assigned' = IF held THEN addrs ELSE {}
    /\ Goto(next)
    /\ UNCHANGED <<kernelVars, task, conf, todo, held, mnt, history, agentVars>>

\* GetDeviceAttr asks blkid about one block device after the other, until one is
\* labelled CIDATA.
FindDevice ==
    /\ pc = "device"
    /\ Goto("tempdir")
    /\ UNCHANGED <<kernelVars, netinitData, history, agentVars>>

\* ReadData makes a directory to mount it on.
MakeTempDir ==
    /\ pc = "tempdir"
    /\ mnt' = "dir"
    /\ Goto("mount")
    /\ UNCHANGED <<kernelVars, task, conf, todo, assigned, held, history, agentVars>>

MountData ==
    /\ pc = "mount"
    /\ mnt' = "mounted"
    /\ Goto("parse")
    /\ UNCHANGED <<kernelVars, task, conf, todo, assigned, held, history, agentVars>>

\* network-config is read, decoded and searched for the MAC address.
Parse ==
    /\ pc = "parse"
    /\ \E c \in Configs : conf' = <<c>>
    /\ Goto("umount")
    /\ UNCHANGED <<kernelVars, task, todo, assigned, held, mnt, history, agentVars>>

\* The deferred calls of ReadData; their errors are not looked at.
UnmountData ==
    /\ pc = "umount"
    /\ mnt' \in {"dir", "stuck"}
    /\ Goto("rmdir")
    /\ UNCHANGED <<kernelVars, task, conf, todo, assigned, held, history, agentVars>>

RemoveTempDir ==
    /\ pc = "rmdir"
    /\ mnt' = IF mnt = "dir" THEN "none" ELSE mnt
    /\ Goto(IF verdict = "error" THEN "done" ELSE "up")
    /\ UNCHANGED <<kernelVars, task, conf, todo, assigned, held, history, agentVars>>

\* SetInterfaceLinkUp goes by name.
BringUp ==
    /\ pc = "up"
    /\ IF link = "absent" THEN Fail ELSE Goto("addr")
    /\ link' = IF link = "absent" THEN link ELSE "up"
    /\ todo' = conf[1].addrs
    /\ UNCHANGED <<addrs, routes, task, conf, assigned, held, mnt, history, agentVars>>

\* What netlink.ParseAddr accepts; ParseCIDR also takes a bare address.
ParsesAddr(e) == e.form \in {"canonical", "other"}

\* Only the canonical spelling is found among the addresses listed before.
AlreadyAssigned(e) == e.form = "canonical" /\ e.ip \in assigned

CanAssign(e) == ParsesAddr(e) /\ link # "absent" /\ e.ip \notin addrs

AssignAddr ==
    /\ pc = "addr" /\ todo # <<>>
    /\ LET e == Head(todo)
       IN  /\ IF AlreadyAssigned(e) \/ CanAssign(e) THEN Goto("addr") ELSE Fail
           /\ addrs' = IF ~AlreadyAssigned(e) /\ CanAssign(e) THEN addrs \cup {e.ip} ELSE addrs
    /\ todo' = Tail(todo)
    /\ UNCHANGED <<link, routes, task, conf, assigned, held, mnt, history, agentVars>>

\* ip4addrs and ip6addrs: the places of a family's addresses in the list.
Places(c, family) == {i \in DOMAIN c.addrs : c.addrs[i].ip \in family}

\* ip4addrs[0]
First4(c) == c.addrs[Min(Places(c, Addr4))].ip

Wants4(c) == Places(c, Addr4) # {} /\ c.gw4
Wants6(c) == Places(c, Addr6) # {} /\ c.gw6

\* The next gateway to configure, in the code's order.
GatewaysFrom(p) ==
    IF p = "link4" /\ Wants4(conf[1]) /\ First4(conf[1]) \in Host4 THEN "link4"
    ELSE IF p \in {"link4", "default4"} /\ Wants4(conf[1]) THEN "default4"
    ELSE IF p # "routes" /\ Wants6(conf[1]) THEN "default6"
    ELSE "routes"

AddrsDone ==
    /\ pc = "addr" /\ todo = <<>>
    /\ Goto(GatewaysFrom("link4"))
    /\ todo' = conf[1].routes /\ assigned' = {}
    /\ UNCHANGED <<kernelVars, task, conf, held, mnt, history, agentVars>>

\* Seeded bug: "add" where the code says "replace".
AddGateway(r, next) ==
    /\ pc = r
    /\ IF held /\ Accepts(r) /\ r \notin routes
       THEN routes' = routes \cup {r} /\ Goto(GatewaysFrom(next))
       ELSE UNCHANGED routes /\ Fail
    /\ UNCHANGED <<link, addrs, netinitData, history, agentVars>>

\* UpdateRouteTable("replace", ...), by the index of the link object.
ReplaceGateway(r, next) ==
    /\ pc = r
    /\ IF held /\ Accepts(r)
       THEN routes' = routes \cup {r} /\ Goto(GatewaysFrom(next))
       ELSE UNCHANGED routes /\ Fail
    /\ UNCHANGED <<link, addrs, netinitData, history, agentVars>>

\* UpdateRouteTable("add", ...); an error is only logged.
ConfigureRoute ==
    /\ pc = "routes" /\ todo # <<>>
    /\ routes' = IF held /\ Accepts(Head(todo)) THEN routes \cup {Head(todo)} ELSE routes
    /\ todo' = Tail(todo)
    /\ UNCHANGED <<link, addrs, controlVars, task, conf, assigned, held, mnt, history, agentVars>>

Configured ==
    /\ pc = "routes" /\ todo = <<>>
    /\ pc' = "done" /\ verdict' = "ok"
    /\ UNCHANGED <<kernelVars, netinitData, history, agentVars>>

-----------------------------------------------------------------------------
(* netinit: deconfiguring *)

\* Seeded bug: the link is left up.
TakeDownNot ==
    /\ pc = "down"
    /\ IF link = "absent" THEN Fail ELSE Goto("flush")
    /\ UNCHANGED <<kernelVars, netinitData, history, agentVars>>

TakeDown ==
    /\ pc = "down"
    /\ IF link = "absent" THEN Fail /\ UNCHANGED kernelVars ELSE Goto("flush") /\ GoesDown
    /\ UNCHANGED <<netinitData, history, agentVars>>

\* UpdateAddrList("del", ...); the first error ends it.
FlushAddr(a) ==
    /\ pc = "del" /\ a \in assigned
    /\ assigned' = assigned \ {a}
    /\ IF a \in addrs
       THEN \E gone \in GoingWith(a) :
              /\ addrs' = addrs \ gone /\ routes' = RoutesWithout(gone)
              /\ fault' = (fault \/ gone # {a})
              /\ Goto("del")
       ELSE Fail /\ UNCHANGED <<addrs, routes, fault>>
    /\ UNCHANGED <<link, task, conf, todo, held, mnt, changes, agentVars>>

Deconfigured ==
    /\ pc = "del" /\ assigned = {}
    /\ pc' = "done" /\ verdict' = "ok"
    /\ UNCHANGED <<kernelVars, netinitData, history, agentVars>>

\* A step fails for a reason of its own: no marker, a device that cannot be opened
\* or that blkid cannot probe, none with the label, not iso9660, no such MAC
\* address, a netlink error.  A route that fails is only logged.
StepFails ==
    /\ pc \in Steps \ {"umount", "rmdir"}
    /\ fault' = TRUE
    /\ IF pc = "routes"
       THEN todo # <<>> /\ todo' = Tail(todo) /\ UNCHANGED controlVars
       ELSE Fail /\ UNCHANGED todo
    /\ UNCHANGED <<kernelVars, task, conf, assigned, held, mnt, changes, agentVars>>

\* netinit exits, or is killed between two steps; what it mounted stays.
Exit ==
    /\ pc # "idle"
    /\ pc' = "idle" /\ verdict' = "none"
    /\ conf' = <<>> /\ todo' = <<>> /\ assigned' = {} /\ held' = FALSE /\ mnt' = "none"
    /\ fault' = FALSE /\ changes' = 0
    /\ UNCHANGED <<kernelVars, task, agentVars>>

Netinit ==
    \/ \E m \in {"configure", "deconfigure"} : Start(m)
    \/ FindMarker \/ Check("check", "list") \/ ListAddrs("list", "device")
    \/ FindDevice \/ MakeTempDir \/ MountData \/ Parse \/ UnmountData \/ RemoveTempDir
    \/ BringUp \/ AssignAddr \/ AddrsDone
    \/ ReplaceGateway("link4", "default4")
    \/ ReplaceGateway("default4", "default6")
    \/ ReplaceGateway("default6", "routes")
    \/ ConfigureRoute \/ Configured
    \/ Check("find", "down") \/ TakeDown
    \/ ListAddrs("flush", "del") \/ (\E a \in Addr : FlushAddr(a)) \/ Deconfigured
    \/ StepFails
    \/ Exit

-----------------------------------------------------------------------------
(* Requests to the agent: one netlink call each, unless it only reads *)

Asked ==
    /\ agent = "live"
    /\ Disturbs
    /\ UNCHANGED <<controlVars, netinitData, fault, agentVars>>

AddIPAddr(a) ==
    /\ link # "absent" /\ a \notin addrs
    /\ addrs' = addrs \cup {a}
    /\ UNCHANGED <<link, routes>>
    /\ Asked

DelIPAddr(a) ==
    /\ a \in addrs
    /\ \E gone \in GoingWith(a) : addrs' = addrs \ gone /\ routes' = RoutesWithout(gone)
    /\ UNCHANGED link
    /\ Asked

SetInterfaceLinkUp ==
    /\ link = "down"
    /\ link' = "up"
    /\ UNCHANGED <<addrs, routes>>
    /\ Asked

SetInterfaceLinkDown ==
    /\ link = "up"
    /\ GoesDown
    /\ Asked

\* The route a client's `add` or `del` stands for: no gateway makes a link
\* route, and "default" needs one to know its family.
RouteOf(dst, gw) ==
    CASE gw = "none" /\ dst = "gateway" -> {"link4"}
      [] gw = "v4" /\ dst = "default" -> {"default4"}
      [] gw = "v6" /\ dst = "default" -> {"default6"}
      [] gw = "v4" /\ dst \in Extra -> {dst}
      [] OTHER -> {}

RouteRequests ==
    UNION {RouteOf(dst, gw) : dst \in {"gateway", "default"} \cup Extra, gw \in {"none", "v4", "v6"}}

\* Seeded bug: the error of LinkByName is dropped, and link.Attrs() panics.
AddRouteUnchecked(r) ==
    IF link = "absent"
    THEN /\ agent = "live" /\ agent' = "dead"
         /\ UNCHANGED <<kernelVars, controlVars, netinitData, history, listing>>
    ELSE /\ Accepts(r) /\ r \notin routes
         /\ routes' = routes \cup {r}
         /\ UNCHANGED <<link, addrs>>
         /\ Asked

AddRoute(r) ==
    /\ link # "absent" /\ Accepts(r) /\ r \notin routes
    /\ routes' = routes \cup {r}
    /\ UNCHANGED <<link, addrs>>
    /\ Asked

DelRoute(r) ==
    /\ link # "absent" /\ r \in routes
    /\ routes' = routes \ {r}
    /\ UNCHANGED <<link, addrs>>
    /\ Asked

\* GetRouteList, first the routes ...
ListRoutes ==
    /\ agent = "live" /\ listing = "none"
    /\ listing' = IF "blackhole" \in routes THEN "orphan"
                  ELSE IF routes # {} \/ (link = "up" /\ addrs # {}) THEN "linked"
                  ELSE "empty"
    /\ UNCHANGED <<kernelVars, controlVars, netinitData, history, agent>>

\* ... then InterfaceByIndex for each, whose error is ignored: a route without
\* an interface is a nil dereference.  It ends the process, unless one of the
\* interceptors the gRPC library adds recovers; the repository has none.
NameRoutes ==
    /\ agent = "live" /\ listing # "none"
    /\ \/ listing = "orphan" /\ agent' = "dead" /\ UNCHANGED listing
       \/ listing' = "none" /\ UNCHANGED agent
    /\ UNCHANGED <<kernelVars, controlVars, netinitData, history>>

\* The service manager starts the agent again.
AgentRestarts ==
    /\ agent = "dead"
    /\ agent' = "live" /\ listing' = "none"
    /\ UNCHANGED <<kernelVars, controlVars, netinitData, history>>

Requests ==
    \/ \E a \in Addr : AddIPAddr(a) \/ DelIPAddr(a)
    \/ SetInterfaceLinkUp \/ SetInterfaceLinkDown
    \/ \E r \in RouteRequests : AddRoute(r) \/ DelRoute(r)
    \/ ListRoutes \/ NameRoutes
    \/ AgentRestarts

-----------------------------------------------------------------------------
(* The guest *)

Unplug ==
    /\ link # "absent"
    /\ link' = "absent" /\ addrs' = {} /\ routes' = routes \cap {"blackhole"}
    /\ held' = FALSE
    /\ listing' = IF listing = "linked" THEN "orphan" ELSE listing
    /\ Disturbs
    /\ UNCHANGED <<controlVars, task, conf, todo, assigned, mnt, fault, agent>>

Plug ==
    /\ link = "absent"
    /\ link' = "down"
    /\ Disturbs
    /\ UNCHANGED <<addrs, routes, controlVars, netinitData, fault, agentVars>>

\* A route without an interface comes or goes.
Blackhole ==
    /\ routes' = IF "blackhole" \in routes THEN routes \ {"blackhole"} ELSE routes \cup {"blackhole"}
    /\ UNCHANGED <<link, addrs, controlVars, netinitData, history, agentVars>>

NetworkNext == Netinit \/ Requests \/ Unplug \/ Plug \/ Blackhole

NetworkSpec == NetworkInit /\ [][NetworkNext]_networkVars

-----------------------------------------------------------------------------
(* Properties *)

\* netinitConfigureInterface that returns nil, undisturbed, has brought the
\* link up with every address and gateway, and the routes that can be reached;
\* netinitDeconfigureInterface has left no address and no link.  Either way the
\* mount of the NoCloud device is gone, unless unmounting it failed.
NetinitDelivers ==
    pc = "done" =>
        /\ mnt \in {"none", "stuck"}
        /\ verdict = "ok" /\ changes = 0 /\ task = "deconfigure" => addrs = {} /\ link = "down"
        /\ verdict = "ok" /\ changes = 0 /\ task = "configure" =>
              /\ link = "up"
              /\ \A e \in ToSet(conf[1].addrs) : e.ip \in addrs
              /\ Wants4(conf[1]) => "default4" \in routes
              /\ Wants6(conf[1]) => "default6" \in routes
              /\ ~fault /\ Reach4 => ToSet(conf[1].routes) \subseteq routes

\* A configuration all of whose addresses are written canonically, once each.
Regular(c) ==
    /\ \A e \in ToSet(c.addrs) : e.form = "canonical"
    /\ IsInjective(c.addrs)

\* netinit can be repeated: from whatever state earlier runs, complete or
\* killed, and earlier requests left, it fails only if a call fails, an address
\* it is to delete has gone with another of its subnet, there is no interface,
\* somebody else changes the network meanwhile, or an address is not written
\* canonically or not once.
NetinitRepeats ==
    pc = "done" /\ verdict = "error" =>
        \/ fault \/ changes > 0
        \/ link = "absent"
        \/ task = "configure" /\ conf # <<>> /\ ~Regular(conf[1])

\* A request takes the agent down only where a route it lists has no interface.
PanicsExplained == agent = "dead" => listing = "orphan"

\* Netlink requests, netinit and the guest's own changes leave a table of the
\* right type, and an agent that only such a route has taken down.
NetworkSound == NetworkTypeOK /\ PanicsExplained
=============================================================================
