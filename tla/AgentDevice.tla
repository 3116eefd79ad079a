---------------------------- MODULE AgentDevice ----------------------------
(***************************************************************************)
(* AgentServe composed with its main listener, which is a vsock socket or, *)
(* in legacy mode, the virtio serial port (internal/devconn/devconn.go): a *)
(* single device handed out as a connection again and again, one at a time *)
(* (netutil.LimitListener), by an Accept that sleeps with the mutex held   *)
(* for which Close has to wait.  Closing the device ends the connection    *)
(* that is using it, unlike closing a listening socket.                    *)
(***************************************************************************)
EXTENDS AgentServe

VARIABLES
    transport,  \* what the main listener is: "vsock" or "device"
    acceptor,   \* the Accept of the device: "none", "slot", "lock", "sleep", "ended"
    conns,      \* connections on the device
    late        \* history: the device was handed out after it was closed

deviceVars == <<acceptor, conns, late>>
allVars == <<vars, transport, deviceVars>>

DeviceTypeOK ==
    /\ transport \in {"vsock", "device"}
    /\ acceptor \in {"none", "slot", "lock", "sleep", "ended"}
    /\ conns \in Nat
    /\ late \in BOOLEAN

DeviceInit ==
    /\ Init
    /\ transport \in {"vsock", "device"}
    /\ acceptor = "none" /\ conns = 0 /\ late = FALSE

IsDevice(l) == l = Main /\ transport = "device"

\* Seeded bug: the mutex is kept until the connection is over.
LockedForConn == acceptor = "sleep" \/ conns > 0

\* Accept holds the mutex from Lock to its return.
Locked == acceptor = "sleep"

-----------------------------------------------------------------------------
(* The device *)

\* Seeded bug: no limit on connections.
TakeAnySlot ==
    /\ acceptor = "slot" /\ srv[Main] = "serving"
    /\ acceptor' = "lock"
    /\ UNCHANGED <<vars, transport, conns, late>>

\* LimitListener.Accept: the one slot is free, or the listener was closed.
TakeSlot ==
    /\ acceptor = "slot" /\ srv[Main] = "serving"
    /\ conns = 0 \/ Main \notin open
    /\ acceptor' = "lock"
    /\ UNCHANGED <<vars, transport, conns, late>>

\* DeviceListener.Accept: Lock, and a second's sleep.
LockAccept ==
    /\ acceptor = "lock"
    /\ acceptor' = "sleep"
    /\ UNCHANGED <<vars, transport, conns, late>>

\* ok() is looked at after the sleep: the device, or EINVAL for a closed one.
AcceptReturns ==
    /\ acceptor = "sleep"
    /\ IF Main \in open
       THEN acceptor' = "slot" /\ conns' = conns + 1
       ELSE acceptor' = "ended" /\ UNCHANGED conns
    /\ late' = (late \/ (conns' > conns /\ Main \notin open))
    /\ UNCHANGED <<vars, transport>>

\* The connection ends, and LimitListener has its slot back: the host closes its
\* end, nobody is attached, or the device was closed under it.  DeviceConn.Close
\* leaves the device open, so a transport that gRPC gives up for a reason of its
\* own may still be in a Read of the file; connections are counted here, and that
\* Read is not.
DeviceConnEnds ==
    /\ conns > 0
    /\ conns' = conns - 1
    /\ UNCHANGED <<vars, transport, acceptor, late>>

Device == TakeSlot \/ LockAccept \/ AcceptReturns

-----------------------------------------------------------------------------
(* The steps of AgentServe that touch the device *)

\* A vsock listener, or WithoutTCP, leaves it at that; a device may be followed
\* by the search for addresses.
DeviceHandOver(l) ==
    /\ HandOver(l)
    /\ l = Main /\ transport = "vsock" => lpc' = "closed"
    /\ UNCHANGED <<transport, deviceVars>>

DeviceServeStarts(l) ==
    /\ ServeStarts(l)
    /\ acceptor' = IF IsDevice(l) THEN "slot" ELSE acceptor
    /\ UNCHANGED <<transport, conns, late>>

\* An open device never fails to be accepted.
DeviceServeFails(l) ==
    /\ ServeFails(l)
    /\ IsDevice(l) => srv[l] = "starting"
    /\ UNCHANGED <<transport, deviceVars>>

\* Serve returns once its Accept has.
DeviceServeStops(l) ==
    /\ ServeStops(l)
    /\ IsDevice(l) => acceptor = "ended"
    /\ UNCHANGED <<transport, deviceVars>>

\* GracefulStop closes the listeners, and Close waits for the mutex of Accept.
DeviceGracefulStop ==
    /\ ~Locked
    /\ GracefulStop
    /\ UNCHANGED <<transport, deviceVars>>

\* It returns when the connections are gone, too.
DeviceGracefulStopped ==
    /\ GracefulStopped
    /\ conns = 0
    /\ UNCHANGED <<transport, deviceVars>>

DeviceRpcStarts ==
    /\ RpcStarts
    /\ \E l \in Listener : srv[l] = "serving" /\ (IsDevice(l) => conns > 0)
    /\ UNCHANGED <<transport, deviceVars>>

-----------------------------------------------------------------------------

MainGoroutine ==
    \/ \E l \in Listener : DeviceHandOver(l)
    \/ (SetUp \/ SetUpFails \/ RangeEnds \/ IdleClosed \/ GroupWait) /\ UNCHANGED <<transport, deviceVars>>

Unaffected ==
    /\ Listeners \/ RpcEnds \/ Signal \/ \E a \in Addr : AddressUp(a)
    /\ UNCHANGED <<transport, deviceVars>>

DeviceNext ==
    \/ Device \/ DeviceConnEnds
    \/ MainGoroutine \/ Unaffected
    \/ \E l \in Listener :
         \/ DeviceServeStarts(l) \/ DeviceServeFails(l) \/ DeviceServeStops(l)
    \/ DeviceGracefulStop \/ DeviceGracefulStopped
    \/ DeviceRpcStarts

DeviceSpec == DeviceInit /\ [][DeviceNext]_allVars

\* Goroutines that can run do, the ticker ticks and requests end; nobody has to
\* send a signal, and no listener has to fail.  The device's Accept runs,
\* connections on a closed device end, and Close gets a mutex that is free again
\* and again: sync.Mutex hands itself to who has waited for a millisecond.
DeviceFairness ==
    /\ WF_allVars(Listeners /\ UNCHANGED <<transport, deviceVars>>)
    /\ WF_allVars(MainGoroutine)
    /\ SF_allVars(DeviceGracefulStop)
    /\ WF_allVars(DeviceGracefulStopped)
    /\ \A l \in Listener :
          WF_allVars(DeviceServeStarts(l) \/ (grpc # "up" /\ DeviceServeFails(l)) \/ DeviceServeStops(l))
    /\ WF_allVars(RpcEnds /\ UNCHANGED <<transport, deviceVars>>)
    /\ WF_allVars(Device)
    /\ WF_allVars(Main \notin open /\ DeviceConnEnds)

DeviceFairSpec == DeviceSpec /\ DeviceFairness

-----------------------------------------------------------------------------
(* Properties *)

\* The device has one connection at a time, and none that got it after it was
\* closed.
DeviceExclusive == conns <= 1 /\ ~late

\* An open listener is in somebody's hands and an open device is used by one
\* connection at most, all through a start, a scan and a stop.
ServeInv == TypeOK /\ DeviceTypeOK /\ SocketOwned /\ DeviceExclusive

\* When ListenAndServe returns, nothing is left of the device either.
NothingLeftOfDevice == NothingLeft /\ (mpc = "returned" => conns = 0 /\ ~Locked)
=============================================================================
