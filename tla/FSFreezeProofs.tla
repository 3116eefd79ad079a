--------------------------- MODULE FSFreezeProofs ---------------------------
(***************************************************************************)
(* What FSFreeze promises for every number of request goroutines, every    *)
(* set of filesystems and every bound: type correctness, and that the gate *)
(* is sound (GateSound) with the inductive invariant that shows it.        *)
(***************************************************************************)
EXTENDS FSFreeze, TLAPS

(* Every action of FSFreeze leaves every variable in its type. *)
LEMMA TypeInductive == TypeOK /\ [Next]_vars => TypeOK'
<1> SUFFICES ASSUME TypeOK, [Next]_vars PROVE TypeOK'
    OBVIOUS
<1> USE FSAssumption DEF TypeOK, Location, Reply
<1>1. \A w \in Budget : Spend(w) => left' \in [Budget -> Nat]
    BY DEF Spend
<1>2. ASSUME NEW h \in Handler, NEW m \in Method, Refuse(h, m) \/ Read(h, m) PROVE TypeOK'
    BY <1>2 DEF Refuse, Read, Answer
<1>3. ASSUME NEW h \in Handler, NEW m \in Method, Admit(h, m) PROVE TypeOK'
    <2>1. left' \in [Budget -> Nat]
        BY <1>1, <1>3 DEF Admit, Budget, Bounds
    <2>2. FirstStep(m) \in Location
        BY <1>3 DEF Admit, FirstStep, Method, Unary, Stream, ReadOnly
    <2>3. pc' \in [Handler -> Location]
        BY <1>3, <2>2 DEF Admit, Goto
    <2>4. todo' \in [Handler -> SUBSET FS]
        BY <1>3 DEF Admit
    <2>5. reply' \in [Handler -> Reply]
        BY <1>3 DEF Admit, Answer
    <2> QED
        BY <1>3, <2>1, <2>3, <2>4, <2>5 DEF Admit
<1>4. ASSUME NEW h \in Handler, ListToFreeze(h) PROVE TypeOK'
    BY <1>4 DEF ListToFreeze, Goto
<1>5. ASSUME NEW h \in Handler, Lock(h) PROVE TypeOK'
    BY <1>5 DEF Lock, Goto
<1>6. ASSUME NEW h \in Handler, NEW f \in FS, FreezeOne(h, f) PROVE TypeOK'
    BY <1>6 DEF FreezeOne, Opened
<1>7. ASSUME NEW h \in Handler, FreezeReturn(h) PROVE TypeOK'
    BY <1>7 DEF FreezeReturn, Return, Goto, Answer
<1>8. ASSUME NEW h \in Handler, ListToThaw(h) PROVE TypeOK'
    BY <1>8 DEF ListToThaw, Goto
<1>9. ASSUME NEW h \in Handler, NEW f \in FS, ThawOne(h, f) PROVE TypeOK'
    BY <1>9 DEF ThawOne, Opened
<1>10. ASSUME NEW h \in Handler, Unlock(h) PROVE TypeOK'
    BY <1>10 DEF Unlock, Return, Goto, Answer
<1>11. ASSUME NEW h \in Handler, FreezeOrThawFails(h) PROVE TypeOK'
    BY <1>1, <1>11 DEF FreezeOrThawFails, Return, Goto, Answer, Budget, Bounds
<1>12. ASSUME NEW h \in Handler, Write(h) PROVE TypeOK'
    BY <1>12 DEF Write, Return, Goto, Answer
<1>13. ASSUME NEW h \in Handler, Terminate(h) PROVE TypeOK'
    BY <1>13 DEF Terminate, Return, Goto, Answer
<1>14. CASE Signal
    BY <1>1, <1>14 DEF Signal, Budget, Bounds
<1>15. CASE GracefulStop
    BY <1>15 DEF GracefulStop, NewServer
<1>16. CASE Crash
    BY <1>1, <1>16 DEF Crash, NewServer, Budget, Bounds
<1>17. ASSUME NEW f \in FS, Mount(f) PROVE TypeOK'
    BY <1>1, <1>17 DEF Mount, agentVars, Budget, Bounds
<1>18. ASSUME NEW f \in FS, Unmount(f) PROVE TypeOK'
    BY <1>1, <1>18 DEF Unmount, agentVars, Budget, Bounds
<1>19. CASE UNCHANGED vars
    BY <1>19 DEF vars, agentVars
<1>20. CASE SecondSignal
    BY <1>1, <1>20 DEF SecondSignal, NewServer, Budget
<1> QED
    BY <1>2, <1>3, <1>4, <1>5, <1>6, <1>7, <1>8, <1>9, <1>10, <1>11, <1>12,
       <1>13, <1>14, <1>15, <1>16, <1>17, <1>18, <1>19, <1>20
    DEF Next, Request, Work, Guest

(* The state a fresh agent starts in is well typed. *)
LEMMA InitType == Init => TypeOK
<1>0. Bounds \in [Budget -> Nat]
    <2>1. /\ MaxFreezes \in Nat /\ MaxFaults \in Nat /\ MaxMounts \in Nat
          /\ MaxStops \in Nat
        BY BoundsAssumption
    <2> QED
        BY <2>1 DEF Bounds, Budget
<1> QED
    BY <1>0, FSAssumption DEF Init, TypeOK, Location, Reply

(* Type correctness: in every behaviour of the agent, whatever its requests  *)
(* do, every variable keeps its type; NoFreeze filesystems are never frozen. *)
THEOREM TypeCorrect == Spec => []TypeOK
BY InitType, TypeInductive, PTL DEF Spec

-----------------------------------------------------------------------------

(***************************************************************************)
(* GateSound alone is not inductive: Unlock clears the flag, so the proof  *)
(* must know that a clean Unfreeze has nothing left to thaw (CleanThaw)    *)
(* and FreezeOne adds to frozen, so it must know the lock is set           *)
(* (LoopIsLocked).                                                         *)
(***************************************************************************)
GateInv == TypeOK /\ GateSound /\ LoopIsLocked /\ CleanThaw

(* Every step of the agent, of its requests and of the guest preserves the   *)
(* invariant that relates the lock flag, the kernel's frozen filesystems and *)
(* the progress of the Freeze and Unfreeze loops.                            *)
LEMMA GateInductive == GateInv /\ [Next]_vars => GateInv'
<1> SUFFICES ASSUME GateInv, [Next]_vars PROVE GateInv'
    OBVIOUS
<1>0. TypeOK'
    BY TypeInductive DEF GateInv
<1> DEFINE Sound == GateSound /\ LoopIsLocked /\ CleanThaw
<1> USE DEF GateInv, TypeOK, GateSound, LoopIsLocked, CleanThaw, Freezing, Thawing
<1>1. ASSUME NEW h \in Handler, NEW m \in Method, Refuse(h, m) \/ Read(h, m) PROVE Sound'
    BY <1>1 DEF Refuse, Read
<1>2. ASSUME NEW h \in Handler, NEW m \in Method, Admit(h, m) PROVE Sound'
    <2>1. FirstStep(m) \in {"flist", "ulist", "write", "term"}
        BY <1>2 DEF Admit, FirstStep, Method, Unary, Stream, ReadOnly
    <2>2. \A g \in Handler : pc'[g] \in {"freeze", "thaw"} =>
              g # h /\ pc'[g] = pc[g] /\ todo'[g] = todo[g]
        BY <1>2, <2>1 DEF Admit, Goto
    <2> QED
        BY <1>2, <2>2 DEF Admit
<1>3. ASSUME NEW h \in Handler, ListToFreeze(h) PROVE Sound'
    BY <1>3 DEF ListToFreeze, Goto
<1>4. ASSUME NEW h \in Handler, Lock(h) PROVE Sound'
    BY <1>4 DEF Lock, Goto
<1>5. ASSUME NEW h \in Handler, NEW f \in FS, FreezeOne(h, f) PROVE Sound'
    BY <1>5 DEF FreezeOne
<1>6. ASSUME NEW h \in Handler, FreezeReturn(h) PROVE Sound'
    BY <1>6 DEF FreezeReturn, Return, Goto
<1>7. ASSUME NEW h \in Handler, ListToThaw(h) PROVE Sound'
    BY <1>7 DEF ListToThaw, Goto
<1>8. ASSUME NEW h \in Handler, NEW f \in FS, ThawOne(h, f) PROVE Sound'
    \* If f is still mounted it is thawed; if it is not, no clean request counts
    \* f among the frozen, so dropping it from todo loses nothing.
    BY <1>8 DEF ThawOne, Opened
<1>9. ASSUME NEW h \in Handler, Unlock(h) PROVE Sound'
    BY <1>9 DEF Unlock, Return, Goto
<1>10. ASSUME NEW h \in Handler, FreezeOrThawFails(h) PROVE Sound'
    BY <1>10 DEF FreezeOrThawFails, Return, Goto
<1>11. ASSUME NEW h \in Handler, Write(h) PROVE Sound'
    BY <1>11 DEF Write, Return, Goto
<1>12. ASSUME NEW h \in Handler, Terminate(h) PROVE Sound'
    BY <1>12 DEF Terminate, Return, Goto
<1>13. CASE Signal
    BY <1>0, <1>13 DEF Signal
<1>14. CASE GracefulStop
    BY <1>0, <1>14 DEF GracefulStop, NewServer
<1>15. CASE Crash
    BY <1>0, <1>15 DEF Crash, NewServer
<1>16. ASSUME NEW f \in FS, Mount(f) PROVE Sound'
    BY <1>16 DEF Mount, agentVars
<1>17. ASSUME NEW f \in FS, Unmount(f) PROVE Sound'
    BY <1>17 DEF Unmount, agentVars
<1>18. CASE UNCHANGED vars
    BY <1>0, <1>18 DEF vars, agentVars
<1>19. CASE SecondSignal
    BY <1>0, <1>19 DEF SecondSignal, NewServer
<1> QED
    BY <1>0, <1>1, <1>2, <1>3, <1>4, <1>5, <1>6, <1>7, <1>8, <1>9, <1>10, <1>11,
       <1>12, <1>13, <1>14, <1>15, <1>16, <1>17, <1>18, <1>19
    DEF Next, Request, Work, Guest

(* The invariant holds in every behaviour of the agent. *)
LEMMA GateAlways == Spec => []GateInv
<1>1. Init => GateInv
    <2>1. Init => GateSound /\ LoopIsLocked /\ CleanThaw
        BY DEF Init, GateSound, LoopIsLocked, CleanThaw, Freezing, Thawing
    <2> QED
        BY <2>1, InitType DEF GateInv
<1> QED
    BY <1>1, GateInductive, PTL DEF Spec

(* The gate is sound in every behaviour: after any number of concurrent      *)
(* freezes, partial failures, retries and restarts, an unlocked agent whose  *)
(* last Unfreeze was clean has no frozen filesystem behind it.               *)
THEOREM GateIsSound == Spec => []GateSound
<1>1. GateInv => GateSound
    BY DEF GateInv
<1> QED
    BY <1>1, GateAlways, PTL

(* The action property of a clean Unfreeze: the step that answers success    *)
(* leaves the agent unlocked and no filesystem frozen.                       *)
THEOREM CleanUnfreezeThawsAll == Spec => UnfreezeThawsAll
<1> DEFINE Thaws == \A h \in Handler :
        Thawing(h) /\ clean[h] /\ reply[h] = "none" /\ reply'[h] = "ok"
            => frozen' = {} /\ ~locked'
<1>1. GateInv /\ [Next]_vars => [Thaws]_vars
    <2> SUFFICES ASSUME GateInv, Next,
                        NEW h \in Handler, Thawing(h), clean[h],
                        reply[h] = "none", reply'[h] = "ok"
                 PROVE  frozen' = {} /\ ~locked'
        BY DEF Thaws
    <2> USE DEF GateInv, TypeOK
    \* Only the goroutine itself answers its request, and only Unlock with "ok".
    <2>1. Unlock(h)
        <3>1. ASSUME NEW g \in Handler, Request(g) PROVE FALSE
            BY <3>1 DEF Request, Refuse, Read, Admit, Answer, Thawing
        <3>2. ASSUME NEW g \in Handler, Work(g) PROVE Unlock(h)
            BY <3>2 DEF Work, ListToFreeze, Lock, FreezeOne, FreezeReturn, ListToThaw,
                        ThawOne, Unlock, FreezeOrThawFails, Write, Terminate,
                        Return, Answer, Thawing, Freezing
        <3>3. ASSUME Signal \/ SecondSignal \/ GracefulStop \/ Crash \/ Guest PROVE FALSE
            BY <3>3 DEF Signal, SecondSignal, GracefulStop, Crash, NewServer, Guest, Mount, Unmount,
                        agentVars
        <3> QED
            BY <3>1, <3>2, <3>3 DEF Next
    <2>2. frozen \subseteq todo[h] /\ todo[h] = {}
        BY <2>1 DEF Unlock, CleanThaw
    <2> QED
        BY <2>1, <2>2 DEF Unlock
<1>2. Spec => []GateInv
    BY GateAlways
<1> QED
    BY <1>1, <1>2, PTL DEF Spec, UnfreezeThawsAll

(* FSFreeze implements FreezeGate: every step of the agent is a step of the  *)
(* gate or leaves it alone.                                                  *)
THEOREM AgentImplementsGate == Spec => ImplementsGate
<1>1. Init => Gate!Init
    BY DEF Init, Gate!Init
<1>2. GateInv /\ [Next]_vars => [Gate!Next]_Gate!gateVars
    <2> SUFFICES ASSUME GateInv, [Next]_vars PROVE [Gate!Next]_Gate!gateVars
        OBVIOUS
    <2> USE DEF GateInv, TypeOK, Gate!gateVars
    <2>1. ASSUME NEW h \in Handler, Lock(h) PROVE Gate!Next
        BY <2>1 DEF Lock, Gate!Next, Gate!Close
    <2>2. ASSUME NEW h \in Handler, NEW f \in FS, FreezeOne(h, f) PROVE Gate!Next
        <3>1. locked \/ ~sound
            BY <2>2 DEF FreezeOne, LoopIsLocked
        <3>2. {Opened(f)} \ NoFreeze \in SUBSET (FS \ NoFreeze)
            BY FSAssumption DEF Opened
        <3> QED
            BY <2>2, <3>1, <3>2 DEF FreezeOne, Gate!Next, Gate!FreezeSome
    <2>3. ASSUME NEW h \in Handler, NEW f \in FS, ThawOne(h, f)
          PROVE  [Gate!Next]_Gate!gateVars
        <3>1. frozen' = frozen \ (frozen \cap {Opened(f)})
            BY <2>3 DEF ThawOne
        <3>2. frozen \cap {Opened(f)} \in SUBSET frozen
            OBVIOUS
        <3> QED
            BY <2>3, <3>1, <3>2 DEF ThawOne, Gate!Next, Gate!ThawSome
    <2>4. ASSUME NEW h \in Handler, Unlock(h) PROVE Gate!Next
        <3>1. clean[h] => frozen = {}
            BY <2>4 DEF Unlock, CleanThaw
        <3> QED
            BY <2>4, <3>1 DEF Unlock, Gate!Next, Gate!Open, Gate!Lose
    <2>5. ASSUME GracefulStop \/ Crash \/ SecondSignal PROVE Gate!Next
        BY <2>5 DEF GracefulStop, Crash, SecondSignal, NewServer, Gate!Next, Gate!Open, Gate!Lose
    <2>6. ASSUME NEW h \in Handler,
                 \/ Request(h)
                 \/ ListToFreeze(h) \/ FreezeReturn(h) \/ ListToThaw(h)
                 \/ FreezeOrThawFails(h) \/ Write(h) \/ Terminate(h)
          PROVE  UNCHANGED Gate!gateVars
        BY <2>6 DEF Request, Refuse, Read, Admit, ListToFreeze, FreezeReturn, ListToThaw,
                    FreezeOrThawFails, Write, Terminate
    <2>7. ASSUME Signal \/ Guest \/ UNCHANGED vars PROVE UNCHANGED Gate!gateVars
        BY <2>7 DEF Signal, Guest, Mount, Unmount, vars, agentVars
    <2> QED
        BY <2>1, <2>2, <2>3, <2>4, <2>5, <2>6, <2>7 DEF Next, Work
<1> QED
    BY <1>1, <1>2, GateAlways, PTL DEF Spec, ImplementsGate, Gate!Spec
=============================================================================
