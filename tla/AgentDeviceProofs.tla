------------------------- MODULE AgentDeviceProofs -------------------------
(***************************************************************************)
(* ListenAndServe leaves nothing behind and the serial port has one user   *)
(* at a time, for any addresses, scans and requests.  The invariant of     *)
(* AgentServe is proved for AgentServe and carried over to AgentDevice,    *)
(* which implements it; the device's own part rests on it.                 *)
(***************************************************************************)
EXTENDS AgentDevice, TLAPS

\* Who holds a listener: it is bound once, offered once, and handed to one Serve,
\* which GracefulStop finds.
Hands ==
    /\ \A k, l \in offer : k = l
    /\ \A l \in offer : srv[l] = "none"
    /\ toBind \cap (processed \cup offer) = {}
    /\ \A a \in Addr : srv[a] # "none" => a \in processed
    /\ lpc = "open" => srv[Main] = "none"
    /\ lpc = "none" => rpcs = 0 /\ \A l \in Listener : srv[l] = "none"
    /\ grpc # "up" => \A l \in open : srv[l] # "serving"

\* The order of the stop.
StopOrder ==
    /\ mpc = "setup" => lpc = "none"
    /\ mpc \in {"wait", "group"} => lpc = "closed"
    /\ mpc = "returned" => lpc \in {"none", "closed"}
    /\ mpc \in {"group", "returned"} => grpc = "stopped" \/ lpc = "none"
    /\ grpc = "stopped" => rpcs = 0
    /\ mpc = "returned" => \A l \in Listener : srv[l] \in {"none", "stopped", "failed"}

\* The inductive invariant of AgentServe.
HandsInv == TypeOK /\ SocketOwned /\ Hands /\ StopOrder

LEMMA InitHands == Init => HandsInv
  BY ServeAssumption DEF Init, HandsInv, TypeOK, SocketOwned, Hands, StopOrder, Listener

\* The listener goroutine.
LEMMA ListenersKeepHands == HandsInv /\ Listeners => HandsInv'
<1> SUFFICES ASSUME HandsInv, Listeners PROVE HandsInv'
  OBVIOUS
<1> USE ServeAssumption DEF HandsInv, TypeOK, SocketOwned, Hands, StopOrder, Listener, listenerVars
<1>1. CASE OpenMain
  BY <1>1 DEF OpenMain
<1>2. CASE OpenMainFails
  BY <1>2 DEF OpenMainFails
<1>3. CASE Scan
  BY <1>3 DEF Scan
<1>4. CASE ScanFails
  BY <1>4 DEF ScanFails
<1>5. CASE Scanned
  BY <1>5 DEF Scanned
<1>6. ASSUME NEW a \in Addr, Bind(a) PROVE HandsInv'
  <2>1. srv[a] = "none" /\ a # Main
    BY <1>6 DEF Bind
  <2> QED BY <1>6, <2>1 DEF Bind
<1>7. ASSUME NEW a \in Addr, BindFails(a) PROVE HandsInv'
  BY <1>7 DEF BindFails
<1>8. CASE Tick
  BY <1>8 DEF Tick
<1>9. CASE ScanCancelled
  BY <1>9 DEF ScanCancelled
<1> QED
  BY <1>1, <1>2, <1>3, <1>4, <1>5, <1>6, <1>7, <1>8, <1>9 DEF Listeners

\* The main goroutine and the one that stops the server.
LEMMA GoroutinesKeepHands == HandsInv /\ Goroutines => HandsInv'
<1> SUFFICES ASSUME HandsInv, Goroutines PROVE HandsInv'
  OBVIOUS
<1> USE ServeAssumption DEF HandsInv, TypeOK, SocketOwned, Hands, StopOrder, Listener, listenerVars
<1>1. ASSUME NEW l \in Listener, HandOver(l) PROVE HandsInv'
  BY <1>1 DEF HandOver, AfterHandOver
<1>2. CASE RangeEnds
  BY <1>2 DEF RangeEnds
<1>3. CASE IdleClosed
  BY <1>3 DEF IdleClosed
<1>4. CASE GroupWait
  BY <1>4 DEF GroupWait
<1>5. CASE GracefulStop
  BY <1>5 DEF GracefulStop
<1>6. CASE GracefulStopped
  BY <1>6 DEF GracefulStopped
<1>7. CASE SetUp \/ SetUpFails
  BY <1>7 DEF SetUp, SetUpFails
<1> QED
  BY <1>1, <1>2, <1>3, <1>4, <1>5, <1>6, <1>7 DEF Goroutines

\* The Serves, the requests and the guest.
LEMMA OthersKeepHands ==
    ASSUME HandsInv,
           \/ \E l \in Listener : ServeStarts(l) \/ ServeFails(l) \/ ServeStops(l)
           \/ RpcStarts \/ RpcEnds \/ Signal
           \/ \E a \in Addr : AddressUp(a)
           \/ UNCHANGED vars
    PROVE  HandsInv'
<1> USE ServeAssumption DEF HandsInv, TypeOK, SocketOwned, Hands, StopOrder, Listener, listenerVars
<1>1. ASSUME NEW l \in Listener, ServeStarts(l) PROVE HandsInv'
  BY <1>1 DEF ServeStarts
<1>2. ASSUME NEW l \in Listener, ServeFails(l) PROVE HandsInv'
  BY <1>2 DEF ServeFails
<1>3. ASSUME NEW l \in Listener, ServeStops(l) PROVE HandsInv'
  BY <1>3 DEF ServeStops
<1>4. CASE RpcStarts
  BY <1>4 DEF RpcStarts
<1>5. CASE RpcEnds
  BY <1>5 DEF RpcEnds
<1>6. CASE Signal
  BY <1>6 DEF Signal
<1>7. ASSUME NEW a \in Addr, AddressUp(a) PROVE HandsInv'
  BY <1>7 DEF AddressUp
<1>8. CASE UNCHANGED vars
  BY <1>8 DEF vars
<1> QED
  BY <1>1, <1>2, <1>3, <1>4, <1>5, <1>6, <1>7, <1>8

LEMMA NextHands == HandsInv /\ [Next]_vars => HandsInv'
  BY ListenersKeepHands, GoroutinesKeepHands, OthersKeepHands DEF Next

LEMMA HandsAlways == Spec => []HandsInv
  BY InitHands, NextHands, PTL DEF Spec

-----------------------------------------------------------------------------
(* The device *)

\* With the serial port as its main listener the agent is still AgentServe: the
\* device adds steps of its own and delays others, and nothing else.
THEOREM DeviceImplementsServe == DeviceSpec => Spec
<1>1. DeviceInit => Init
  BY DEF DeviceInit
<1>2. [DeviceNext]_allVars => [Next]_vars
  <2> SUFFICES ASSUME [DeviceNext]_allVars PROVE [Next]_vars
    OBVIOUS
  <2>1. CASE Device \/ DeviceConnEnds \/ UNCHANGED allVars
    BY <2>1 DEF Device, TakeSlot, LockAccept, AcceptReturns, DeviceConnEnds, allVars
  <2>2. CASE MainGoroutine
    BY <2>2 DEF MainGoroutine, DeviceHandOver, Next, Goroutines
  <2>3. CASE Unaffected
    BY <2>3 DEF Unaffected, Next
  <2>4. ASSUME NEW l \in Listener,
               DeviceServeStarts(l) \/ DeviceServeFails(l) \/ DeviceServeStops(l)
        PROVE  Next
    BY <2>4 DEF DeviceServeStarts, DeviceServeFails, DeviceServeStops, Next
  <2>5. CASE DeviceGracefulStop \/ DeviceGracefulStopped \/ DeviceRpcStarts
    BY <2>5 DEF DeviceGracefulStop, DeviceGracefulStopped, DeviceRpcStarts, Next, Goroutines
  <2> QED BY <2>1, <2>2, <2>3, <2>4, <2>5 DEF DeviceNext
<1> QED
  BY <1>1, <1>2, PTL DEF DeviceSpec, Spec

\* The Accept of the device belongs to a Serve, sleeps only while nobody uses an
\* open device, and the last connection is gone before GracefulStop returns.
AcceptHeld ==
    /\ acceptor \in {"slot", "lock", "sleep"} => srv[Main] = "serving"
    /\ transport = "vsock" => acceptor = "none"
    /\ acceptor \in {"lock", "sleep"} /\ Main \in open => conns = 0
    /\ grpc = "stopped" \/ lpc = "none" => conns = 0

\* The inductive invariant of the device, above that of AgentServe.
DeviceInv == DeviceTypeOK /\ DeviceExclusive /\ AcceptHeld

LEMMA InitDevice == DeviceInit => DeviceInv
<1> SUFFICES ASSUME DeviceInit PROVE DeviceInv
  OBVIOUS
<1>1. conns \in Nat /\ conns <= 1
  BY DEF DeviceInit
<1>2. AcceptHeld
  BY Zenon DEF DeviceInit, AcceptHeld
<1> QED
  BY <1>1, <1>2, Zenon DEF DeviceInit, DeviceInv, DeviceTypeOK, DeviceExclusive

LEMMA NextDevice == DeviceInv /\ HandsInv /\ HandsInv' /\ [DeviceNext]_allVars => DeviceInv'
<1> SUFFICES ASSUME DeviceInv, HandsInv, HandsInv', [DeviceNext]_allVars PROVE DeviceInv'
  OBVIOUS
<1> USE ServeAssumption
    DEF DeviceInv, DeviceTypeOK, DeviceExclusive, AcceptHeld, deviceVars, vars, listenerVars
<1>0. /\ TypeOK /\ Hands /\ Main \in Listener
      /\ srv \in [Listener -> {"none", "starting", "serving", "stopped", "failed"}]
  BY DEF HandsInv, TypeOK, Listener
<1>1. CASE TakeSlot
  BY <1>1 DEF TakeSlot
<1>2. CASE LockAccept
  BY <1>2 DEF LockAccept
<1>3. CASE AcceptReturns
  BY <1>0, <1>3 DEF AcceptReturns, Hands
<1>4. CASE DeviceConnEnds
  BY <1>4 DEF DeviceConnEnds
<1>5. ASSUME NEW l \in Listener, DeviceHandOver(l) PROVE DeviceInv'
  BY <1>0, <1>5 DEF DeviceHandOver, HandOver, AfterHandOver, Hands
<1>6. CASE /\ SetUp \/ SetUpFails \/ RangeEnds \/ IdleClosed \/ GroupWait
           /\ UNCHANGED <<transport, deviceVars>>
  BY <1>6 DEF SetUp, SetUpFails, RangeEnds, IdleClosed, GroupWait
<1>7. CASE Unaffected
  <2>1. CASE OpenMain
    BY <1>0, <1>7, <2>1 DEF Unaffected, OpenMain, Hands
  <2>2. ASSUME NEW a \in Addr, Bind(a) PROVE DeviceInv'
    BY <1>7, <2>2 DEF Unaffected, Bind
  <2>3. CASE \/ OpenMainFails \/ Scan \/ ScanFails \/ Scanned \/ Tick \/ ScanCancelled
             \/ RpcEnds \/ Signal
             \/ \E a \in Addr : BindFails(a) \/ AddressUp(a)
    BY <1>7, <2>3 DEF Unaffected, OpenMainFails, Scan, ScanFails, Scanned, Tick, ScanCancelled,
                      RpcEnds, Signal, BindFails, AddressUp
  <2> QED BY <1>7, <2>1, <2>2, <2>3 DEF Unaffected, Listeners
<1>8. ASSUME NEW l \in Listener, DeviceServeStarts(l) PROVE DeviceInv'
  BY <1>0, <1>8 DEF DeviceServeStarts, ServeStarts, IsDevice
<1>9. ASSUME NEW l \in Listener, DeviceServeFails(l) PROVE DeviceInv'
  BY <1>0, <1>9 DEF DeviceServeFails, ServeFails, IsDevice
<1>10. ASSUME NEW l \in Listener, DeviceServeStops(l) PROVE DeviceInv'
  BY <1>0, <1>10 DEF DeviceServeStops, ServeStops, IsDevice
<1>11. CASE DeviceGracefulStop
  BY <1>11 DEF DeviceGracefulStop, GracefulStop
<1>12. CASE DeviceGracefulStopped
  BY <1>12 DEF DeviceGracefulStopped, GracefulStopped
<1>13. CASE DeviceRpcStarts
  BY <1>13 DEF DeviceRpcStarts, RpcStarts
<1>14. CASE UNCHANGED allVars
  BY <1>14 DEF allVars
<1> QED
  BY <1>1, <1>2, <1>3, <1>4, <1>5, <1>6, <1>7, <1>8, <1>9, <1>10, <1>11, <1>12, <1>13, <1>14
     DEF DeviceNext, Device, MainGoroutine

LEMMA DeviceAlways == DeviceSpec => [](HandsInv /\ DeviceInv)
<1>1. DeviceSpec => []HandsInv
  BY DeviceImplementsServe, HandsAlways, PTL
<1> QED
  BY <1>1, InitDevice, NextDevice, PTL DEF DeviceSpec

\* Every open listener is in somebody's hands and the serial port has at most
\* one user, whatever addresses come up and whenever the agent is stopped.
THEOREM ServeHolds == DeviceSpec => []ServeInv
<1>1. HandsInv /\ DeviceInv => ServeInv
  BY DEF HandsInv, DeviceInv, ServeInv
<1> QED
  BY <1>1, DeviceAlways, PTL

\* When ListenAndServe returns there is no open socket, no Serve, no request, no
\* goroutine that opens listeners, and nobody on the device or in its Accept.
THEOREM ReturnsClean == DeviceSpec => []NothingLeftOfDevice
<1>1. HandsInv /\ DeviceInv => NothingLeftOfDevice
  <2> SUFFICES ASSUME HandsInv, DeviceInv, mpc = "returned"
               PROVE  /\ open = {} /\ rpcs = 0 /\ lpc \in {"none", "closed"}
                      /\ \A l \in Listener : srv[l] \in {"none", "stopped", "failed"}
                      /\ conns = 0 /\ ~Locked
    BY DEF NothingLeftOfDevice, NothingLeft
  <2>1. lpc \in {"none", "closed"} /\ rpcs = 0 /\ (grpc = "stopped" \/ lpc = "none")
    BY DEF HandsInv, StopOrder, Hands
  <2>2. \A l \in Listener : srv[l] \in {"none", "stopped", "failed"}
    BY DEF HandsInv, StopOrder
  <2>3. offer = {} /\ open \subseteq Listener
    BY <2>1 DEF HandsInv, TypeOK
  <2>4. open = {}
    BY <2>2, <2>3 DEF HandsInv, SocketOwned
  <2>5. conns = 0
    BY <2>1 DEF DeviceInv, AcceptHeld
  <2>6. ~Locked
    BY <2>2 DEF DeviceInv, AcceptHeld, Locked, Listener
  <2> QED BY <2>1, <2>2, <2>4, <2>5, <2>6
<1> QED
  BY <1>1, DeviceAlways, PTL
=============================================================================
