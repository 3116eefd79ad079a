-------------------------- MODULE SSHServerProofs ---------------------------
(***************************************************************************)
(* Proofs about SSHServer for every finite number of listeners and         *)
(* connections and any number of Shutdown and Close calls.                 *)
(***************************************************************************)
EXTENDS SSHServer, FiniteSetTheorems, TLAPS

(* The invariant: Shutdown's promise rests on the wait groups being exact,   *)
(* and on a connection that was tracked once never being tracked again.      *)
Later == {"active", "leave", "ended"}
AwaitedWereTracked == \A k \in Stop : \A c \in awaited[k] : cpc[c] \in Later

SrvInv ==
    /\ TypeOK
    /\ WgCounts
    /\ OpenIsTracked
    /\ AwaitedWereTracked
    /\ ShutdownWaited

(* The sets the wait groups count are finite. *)
LEMMA TrackedFinite == IsFiniteSet(TrackedServes) /\ IsFiniteSet(TrackedConns)
BY ServerAssumption, FS_Subset DEF TrackedServes, TrackedConns

(* Every step keeps the types; the only partial operation is the decrement   *)
(* of a wait group, which the counts keep above zero.                        *)
LEMMA TypeStep == TypeOK /\ WgCounts /\ [Next]_vars => TypeOK'
<1> SUFFICES ASSUME TypeOK, WgCounts, [Next]_vars PROVE TypeOK'
    OBVIOUS
<1> USE ServerAssumption DEF TypeOK, ServeAt, ConnAt, StopAt, srvVars, muVars
<1>1. ASSUME NEW s \in Srv, ServeStep(s) PROVE TypeOK'
    <2>1. CASE TrackListener(s)
        BY <2>1 DEF TrackListener
    <2>6. CASE SetupFails(s)
        BY <2>6 DEF SetupFails
    <2>2. ASSUME NEW c \in Conn, Accept(s, c) PROVE TypeOK'
        BY <2>2 DEF Accept
    <2>3. CASE AcceptFails(s) \/ CheckDone(s)
        BY <2>3 DEF AcceptFails, CheckDone
    <2>4. CASE AcceptFailsTemporarily(s)
        BY <2>4 DEF AcceptFailsTemporarily
    <2>5. CASE UntrackListener(s)
        <3>1. s \in TrackedServes
            BY <2>5 DEF UntrackListener, TrackedServes
        <3>2. listenerWg # 0
            BY <3>1, TrackedFinite, FS_EmptySet DEF WgCounts
        <3> QED
            BY <2>5, <3>2 DEF UntrackListener
    <2> QED
        BY <1>1, <2>1, <2>2, <2>3, <2>4, <2>5, <2>6 DEF ServeStep
<1>2. ASSUME NEW c \in Conn, ConnStep(c) PROVE TypeOK'
    <2>1. CASE HandshakeFails(c) \/ TrackConn(c) \/ Disconnect(c) \/ ChannelsEnd(c)
        BY <2>1 DEF HandshakeFails, TrackConn, Disconnect, ChannelsEnd
    <2>2. CASE UntrackConn(c)
        <3>1. c \in TrackedConns
            BY <2>2 DEF UntrackConn, TrackedConns
        <3>2. connWg # 0
            BY <3>1, TrackedFinite, FS_EmptySet DEF WgCounts
        <3> QED
            BY <2>2, <3>2 DEF UntrackConn
    <2> QED
        BY <1>2, <2>1, <2>2 DEF ConnStep
<1>3. ASSUME NEW k \in Stop, StopStep(k) PROVE TypeOK'
    <2>1. TrackedConns \in SUBSET Conn
        BY DEF TrackedConns
    <2>2. CASE Shutdown(k)
        BY <2>1, <2>2 DEF Shutdown, CloseListeners
    <2>3. CASE ListenersGone(k) \/ ConnsGone(k) \/ ContextExpires(k)
        BY <2>3 DEF ListenersGone, ConnsGone, ContextExpires
    <2>4. CASE Close(k)
        BY <2>1, <2>4 DEF Close, CloseListeners
    <2> QED
        BY <1>3, <2>2, <2>3, <2>4 DEF StopStep
<1>4. CASE UNCHANGED vars
    BY <1>4 DEF vars
<1> QED
    BY <1>1, <1>2, <1>3, <1>4 DEF Next

(* The two tracked sets change by one goroutine at a time, and each wait     *)
(* group moves with its set.                                                 *)
LEMMA CountStep == TypeOK /\ WgCounts /\ [Next]_vars => WgCounts'
<1> SUFFICES ASSUME TypeOK, WgCounts, [Next]_vars PROVE WgCounts'
    OBVIOUS
<1> USE DEF TypeOK, srvVars, muVars
<1> DEFINE SameServes == TrackedServes' = TrackedServes /\ listenerWg' = listenerWg
           SameConns == TrackedConns' = TrackedConns /\ connWg' = connWg
<1>1. SameServes /\ SameConns => WgCounts'
    BY DEF WgCounts
<1>2. ASSUME NEW s \in Srv, ServeStep(s) PROVE WgCounts'
    <2>1. CASE TrackListener(s)
        <3>1. s \notin TrackedServes /\ TrackedServes' = TrackedServes \cup {s}
            BY <2>1 DEF TrackListener, TrackedServes
        <3>2. Cardinality(TrackedServes') = Cardinality(TrackedServes) + 1
            BY <3>1, TrackedFinite, FS_AddElement
        <3>3. SameConns
            BY <2>1 DEF TrackListener, TrackedConns
        <3> QED
            BY <2>1, <3>2, <3>3 DEF TrackListener, WgCounts
    <2>2. ASSUME NEW c \in Conn, Accept(s, c) PROVE WgCounts'
        <3>1. SameServes
            BY <2>2 DEF Accept, TrackedServes
        <3>2. SameConns
            BY <2>2 DEF Accept, TrackedConns
        <3> QED
            BY <1>1, <3>1, <3>2
    <2>3. CASE SetupFails(s) \/ AcceptFails(s) \/ AcceptFailsTemporarily(s) \/ CheckDone(s)
        <3>1. SameServes
            BY <2>3 DEF SetupFails, AcceptFails, AcceptFailsTemporarily, CheckDone,
                        TrackedServes
        <3>2. SameConns
            BY <2>3 DEF SetupFails, AcceptFails, AcceptFailsTemporarily, CheckDone,
                        TrackedConns
        <3> QED
            BY <1>1, <3>1, <3>2
    <2>4. CASE UntrackListener(s)
        <3>1. s \in TrackedServes /\ TrackedServes' = TrackedServes \ {s}
            BY <2>4 DEF UntrackListener, TrackedServes
        <3>2. Cardinality(TrackedServes') = Cardinality(TrackedServes) - 1
            BY <3>1, TrackedFinite, FS_RemoveElement
        <3>3. SameConns
            BY <2>4 DEF UntrackListener, TrackedConns
        <3> QED
            BY <2>4, <3>2, <3>3 DEF UntrackListener, WgCounts
    <2> QED
        BY <1>2, <2>1, <2>2, <2>3, <2>4 DEF ServeStep
<1>3. ASSUME NEW c \in Conn, ConnStep(c) PROVE WgCounts'
    <2>1. SameServes
        BY <1>3 DEF ConnStep, HandshakeFails, TrackConn, Disconnect, ChannelsEnd,
                    UntrackConn, TrackedServes
    <2>2. CASE TrackConn(c)
        <3>1. c \notin TrackedConns /\ TrackedConns' = TrackedConns \cup {c}
            BY <2>2 DEF TrackConn, TrackedConns
        <3>2. Cardinality(TrackedConns') = Cardinality(TrackedConns) + 1
            BY <3>1, TrackedFinite, FS_AddElement
        <3> QED
            BY <2>1, <2>2, <3>2 DEF TrackConn, WgCounts
    <2>3. CASE UntrackConn(c)
        <3>1. c \in TrackedConns /\ TrackedConns' = TrackedConns \ {c}
            BY <2>3 DEF UntrackConn, TrackedConns
        <3>2. Cardinality(TrackedConns') = Cardinality(TrackedConns) - 1
            BY <3>1, TrackedFinite, FS_RemoveElement
        <3> QED
            BY <2>1, <2>3, <3>2 DEF UntrackConn, WgCounts
    <2>4. CASE HandshakeFails(c) \/ Disconnect(c) \/ ChannelsEnd(c)
        <3>1. SameConns
            BY <2>4 DEF HandshakeFails, Disconnect, ChannelsEnd, TrackedConns
        <3> QED
            BY <1>1, <2>1, <3>1
    <2> QED
        BY <1>3, <2>2, <2>3, <2>4 DEF ConnStep
<1>4. ASSUME NEW k \in Stop, StopStep(k) PROVE WgCounts'
    <2>1. SameServes
        BY <1>4 DEF StopStep, Shutdown, ListenersGone, ConnsGone, ContextExpires, Close,
                    CloseListeners, TrackedServes
    <2>2. SameConns
        BY <1>4 DEF StopStep, Shutdown, ListenersGone, ConnsGone, ContextExpires, Close,
                    CloseListeners, TrackedConns
    <2> QED
        BY <1>1, <2>1, <2>2
<1>5. CASE UNCHANGED vars
    BY <1>5 DEF vars, WgCounts, TrackedServes, TrackedConns
<1> QED
    BY <1>2, <1>3, <1>4, <1>5 DEF Next
(* Open connections and listeners stay within reach of Shutdown and Close. *)
LEMMA TrackedStep == TypeOK /\ OpenIsTracked /\ [Next]_vars => OpenIsTracked'
<1> SUFFICES ASSUME TypeOK, OpenIsTracked, [Next]_vars PROVE OpenIsTracked'
    OBVIOUS
<1> USE DEF TypeOK, srvVars, muVars, OpenIsTracked, TrackedConns
<1>1. ASSUME NEW s \in Srv, ServeStep(s) PROVE OpenIsTracked'
    <2>1. CASE TrackListener(s)
        BY <2>1 DEF TrackListener
    <2>2. ASSUME NEW c \in Conn, Accept(s, c) PROVE OpenIsTracked'
        BY <2>2 DEF Accept
    <2>3. CASE SetupFails(s)
        BY <2>3 DEF SetupFails
    <2>4. CASE AcceptFails(s) \/ CheckDone(s)
        BY <2>4 DEF AcceptFails, CheckDone
    <2>5. CASE AcceptFailsTemporarily(s)
        BY <2>5 DEF AcceptFailsTemporarily
    <2>6. CASE UntrackListener(s)
        BY <2>6 DEF UntrackListener
    <2> QED
        BY <1>1, <2>1, <2>2, <2>3, <2>4, <2>5, <2>6 DEF ServeStep
<1>2. ASSUME NEW c \in Conn, ConnStep(c) PROVE OpenIsTracked'
    \* UntrackConn drops a connection that is no longer tracked after the step.
    BY <1>2 DEF ConnStep, HandshakeFails, TrackConn, Disconnect, ChannelsEnd, UntrackConn
<1>3. ASSUME NEW k \in Stop, StopStep(k) PROVE OpenIsTracked'
    BY <1>3 DEF StopStep, Shutdown, ListenersGone, ConnsGone, ContextExpires, Close,
                CloseListeners
<1>4. CASE UNCHANGED vars
    BY <1>4 DEF vars
<1> QED
    BY <1>1, <1>2, <1>3, <1>4 DEF Next

(* A connection that was tracked stays past its handshake, and when connWg   *)
(* reaches zero every connection that was tracked has ended.                 *)
LEMMA WaitStep == SrvInv /\ [Next]_vars => AwaitedWereTracked' /\ ShutdownWaited'
<1> SUFFICES ASSUME SrvInv, [Next]_vars PROVE AwaitedWereTracked' /\ ShutdownWaited'
    OBVIOUS
<1> USE DEF SrvInv, TypeOK, srvVars, muVars, AwaitedWereTracked, ShutdownWaited, Later
<1>1. ASSUME NEW s \in Srv, ServeStep(s) PROVE AwaitedWereTracked' /\ ShutdownWaited'
    BY <1>1 DEF ServeStep, TrackListener, SetupFails, Accept, AcceptFails,
                AcceptFailsTemporarily, CheckDone, UntrackListener
<1>2. ASSUME NEW c \in Conn, ConnStep(c) PROVE AwaitedWereTracked' /\ ShutdownWaited'
    BY <1>2 DEF ConnStep, HandshakeFails, TrackConn, Disconnect, ChannelsEnd, UntrackConn
<1>3. ASSUME NEW k \in Stop, StopStep(k) PROVE AwaitedWereTracked' /\ ShutdownWaited'
    <2>1. TrackedConns = {c \in Conn : cpc[c] \in {"active", "leave"}}
        BY DEF TrackedConns
    <2>2. CASE Shutdown(k) \/ Close(k)
        BY <2>1, <2>2 DEF Shutdown, Close
    <2>3. CASE ListenersGone(k) \/ ContextExpires(k)
        BY <2>3 DEF ListenersGone, ContextExpires
    <2>4. CASE ConnsGone(k)
        <3>1. TrackedConns = {}
            BY <2>4, TrackedFinite, FS_EmptySet DEF ConnsGone, WgCounts
        <3>2. \A c \in awaited[k] : cpc[c] = "ended"
            BY <2>1, <3>1
        <3> QED
            BY <2>4, <3>2 DEF ConnsGone
    <2> QED
        BY <1>3, <2>2, <2>3, <2>4 DEF StopStep
<1>4. CASE UNCHANGED vars
    BY <1>4 DEF vars
<1> QED
    BY <1>1, <1>2, <1>3, <1>4 DEF Next

(* The invariant holds in every behaviour of the server. *)
LEMMA SrvAlways == Spec => []SrvInv
<1>1. Init => SrvInv
    <2> SUFFICES ASSUME Init PROVE SrvInv
        OBVIOUS
    <2> USE DEF Init
    <2>1. TypeOK
        BY ServerAssumption DEF TypeOK, ServeAt, ConnAt, StopAt
    <2>2. TrackedServes = {} /\ TrackedConns = {}
        BY DEF TrackedServes, TrackedConns
    <2>3. WgCounts
        BY <2>2, FS_EmptySet DEF WgCounts
    <2>4. OpenIsTracked /\ AwaitedWereTracked /\ ShutdownWaited
        BY <2>2 DEF OpenIsTracked, AwaitedWereTracked, ShutdownWaited
    <2> QED
        BY <2>1, <2>3, <2>4 DEF SrvInv
<1>2. SrvInv /\ [Next]_vars => SrvInv'
    BY TypeStep, CountStep, TrackedStep, WaitStep DEF SrvInv
<1> QED
    BY <1>1, <1>2, PTL DEF Spec

(* In every behaviour the wait groups count exactly the Serve and HandleConn *)
(* goroutines that have yet to call Done: never too few (a panic), never too *)
(* many (a Shutdown that hangs).                                             *)
THEOREM WaitGroupsExact == Spec => []WgCounts
<1>1. SrvInv => WgCounts
    BY DEF SrvInv
<1> QED
    BY <1>1, SrvAlways, PTL

(* In every behaviour Close and Shutdown can reach every open listener and   *)
(* every open established connection.                                        *)
THEOREM OpenAlwaysTracked == Spec => []OpenIsTracked
<1>1. SrvInv => OpenIsTracked
    BY DEF SrvInv
<1> QED
    BY <1>1, SrvAlways, PTL

(* In every behaviour a Shutdown that finished has outlived the connections  *)
(* that were established when it was called.                                 *)
THEOREM ShutdownWaits == Spec => []ShutdownWaited
<1>1. SrvInv => ShutdownWaited
    BY DEF SrvInv
<1> QED
    BY <1>1, SrvAlways, PTL
=============================================================================
