------------------------------ MODULE FSFreeze ------------------------------
(***************************************************************************)
(* The freeze gate of the guest agent: the RPCs FreezeFileSystems and      *)
(* UnfreezeFileSystems of core/filesystem.go, the flag core.Server.locked, *)
(* the unary pre-handler interceptor that reads it, and the requests that  *)
(* the interceptor guards (or does not guard), each run by a goroutine of  *)
(* the gRPC server.                                                        *)
(*                                                                         *)
(* The kernel keeps the frozen superblocks, so they outlive the agent; the *)
(* agent keeps only the flag.  Filesystems are visited one ioctl at a time *)
(* and every other goroutine runs in between.                              *)
(***************************************************************************)
EXTENDS Naturals, FiniteSets

CONSTANTS
    Handler,      \* goroutines that gRPC runs requests in
    FS,           \* the block-device filesystems GetMountPoints can list
    Root,         \* the filesystem that holds the mount points of the others
    NoFreeze,     \* filesystems that answer FIFREEZE with EOPNOTSUPP
    MaxFreezes,   \* bound: Freeze requests
    MaxFaults,    \* bound: errors of open, ioctl or the mount table
    MaxMounts,    \* bound: changes of the mount table by the guest
    MaxStops      \* bound: SIGTERMs and abrupt deaths of the agent process

ASSUME FSAssumption ==
    /\ Root \in FS
    /\ NoFreeze \subseteq FS \ {Root}

ASSUME BoundsAssumption ==
    {MaxFreezes, MaxFaults, MaxMounts, MaxStops} \subseteq Nat

VARIABLES
    locked,   \* core.Server.locked
    frozen,   \* the superblocks the kernel holds frozen
    mounts,   \* the filesystems /proc/self/mounts lists
    phase,    \* the gRPC server: "up", or "stopping" in GracefulStop
    pc,       \* pc[h]: where the request of goroutine h is
    todo,     \* todo[h]: the filesystems the request has yet to visit
    reply,    \* reply[h]: what the last request of h answered
    left,     \* what is left of the bounds
    clean,    \* history: clean[h], see ListToThaw
    sound     \* history: whether locked = FALSE is to be believed

agentVars == <<locked, phase, pc, todo, reply>>
vars == <<agentVars, frozen, mounts, left, clean, sound>>

Location == {"idle", "flist", "flock", "freeze", "ulist", "thaw", "write", "term"}
Reply == {"none", "ok", "error", "refused"}
Bounds == [freeze |-> MaxFreezes, fault |-> MaxFaults, mount |-> MaxMounts,
           stop |-> MaxStops]
Budget == {"freeze", "fault", "mount", "stop"}

TypeOK ==
    /\ locked \in BOOLEAN
    /\ frozen \in SUBSET (FS \ NoFreeze)
    /\ mounts \in SUBSET FS
    /\ phase \in {"up", "stopping"}
    /\ pc \in [Handler -> Location]
    /\ todo \in [Handler -> SUBSET FS]
    /\ reply \in [Handler -> Reply]
    /\ left \in [Budget -> Nat]
    /\ clean \in [Handler -> BOOLEAN]
    /\ sound \in BOOLEAN

Init ==
    /\ locked = FALSE
    /\ frozen = {}
    /\ mounts = FS
    /\ phase = "up"
    /\ pc = [h \in Handler |-> "idle"]
    /\ todo = [h \in Handler |-> {}]
    /\ reply = [h \in Handler |-> "none"]
    /\ left = Bounds
    /\ clean = [h \in Handler |-> FALSE]
    /\ sound = TRUE

Spend(what) ==
    /\ left[what] > 0
    /\ left' = [left EXCEPT ![what] = @ - 1]

-----------------------------------------------------------------------------
(* Requests and the interceptor *)

\* GetFile stands for the unary requests that only read (md5, stat) or sync,
\* SetFile for those that write (owner, mode, mkdir).
Unary == {"Freeze", "Unfreeze", "SetFile", "GetFile", "GetInfo", "ShutdownAgent"}
Stream == {"UploadFile", "DownloadFile"}
Method == Unary \cup Stream

\* They change nothing here.
ReadOnly == {"GetFile", "GetInfo", "DownloadFile"}

\* Seeded bug: the list of exempt methods lost Unfreeze.
ExemptInfoOnly == {"GetInfo"}

\* What the unary interceptor lets through while the agent is locked; the
\* stream interceptor has its check commented out.
Exempt == {"GetInfo", "Unfreeze"}
Refuses(m) == locked /\ m \in Unary /\ m \notin Exempt

\* The first location of the handler of each method that changes something.
FirstStep(m) ==
    CASE m = "Freeze" -> "flist"
      [] m = "Unfreeze" -> "ulist"
      [] m \in {"SetFile", "UploadFile"} -> "write"
      [] m = "ShutdownAgent" -> "term"

Goto(h, l) == pc' = [pc EXCEPT ![h] = l]
Answer(h, r) == reply' = [reply EXCEPT ![h] = r]
Return(h, r) ==
    /\ Goto(h, "idle")
    /\ todo' = [todo EXCEPT ![h] = {}]
    /\ Answer(h, r)

\* Model bound: writers never hold the last goroutine (gRPC has no such limit).
SpareHandler(h) == \E g \in Handler \ {h} : pc[g] # "write"

Refuse(h, m) ==
    /\ phase = "up" /\ pc[h] = "idle"
    /\ Refuses(m)
    /\ Answer(h, "refused")
    /\ UNCHANGED <<locked, phase, pc, todo, frozen, mounts, left, clean, sound>>

\* Hashing or listing files, and the like, changes nothing and is done at once;
\* what is not there or cannot be read is an error.
Read(h, m) ==
    /\ phase = "up" /\ pc[h] = "idle"
    /\ ~Refuses(m) /\ m \in ReadOnly
    /\ Answer(h, "ok") \/ Answer(h, "error")
    /\ UNCHANGED <<locked, phase, pc, todo, frozen, mounts, left, clean, sound>>

Admit(h, m) ==
    /\ phase = "up" /\ pc[h] = "idle"
    /\ ~Refuses(m) /\ m \notin ReadOnly
    /\ CASE m = "Freeze" -> Spend("freeze")
         [] m = "ShutdownAgent" -> Spend("stop")
         [] OTHER -> UNCHANGED left
    /\ Goto(h, FirstStep(m))
    /\ IF FirstStep(m) = "write"
       THEN SpareHandler(h) /\ \E f \in mounts : todo' = [todo EXCEPT ![h] = {f}]
       ELSE UNCHANGED todo
    /\ Answer(h, "none")
    /\ UNCHANGED <<locked, phase, frozen, mounts, clean, sound>>

-----------------------------------------------------------------------------
(* FreezeFileSystems *)

Freezing(h) == pc[h] = "freeze"

ListToFreeze(h) ==
    /\ pc[h] = "flist"
    /\ Goto(h, "flock")
    /\ todo' = [todo EXCEPT ![h] = mounts]
    /\ UNCHANGED <<locked, phase, reply, frozen, mounts, left, clean, sound>>

\* Seeded bug: the call of s.lock() is missing before the loop.
LockMissing(h) ==
    /\ pc[h] = "flock"
    /\ Goto(h, "freeze")
    /\ clean' = [u \in Handler |-> FALSE]
    /\ UNCHANGED <<locked, phase, todo, reply, frozen, mounts, left, sound>>

\* s.lock(); from here on the request freezes, so no Unfreeze is clean.
Lock(h) ==
    /\ pc[h] = "flock"
    /\ locked' = TRUE
    /\ Goto(h, "freeze")
    /\ clean' = [u \in Handler |-> FALSE]
    /\ UNCHANGED <<phase, todo, reply, frozen, mounts, left, sound>>

\* Opening the mount point of a filesystem that was unmounted since the list
\* was read opens a directory of Root.
Opened(f) == IF f \in mounts THEN f ELSE Root

\* Seeded bug: EBUSY is retried instead of ignored.
FreezeOneRetries(h, f) ==
    /\ Freezing(h) /\ f \in todo[h]
    /\ frozen' = frozen \cup ({Opened(f)} \ NoFreeze)
    /\ todo' = [todo EXCEPT ![h] = IF Opened(f) \in frozen THEN @ ELSE @ \ {f}]
    /\ UNCHANGED <<locked, phase, pc, reply, mounts, left, clean, sound>>

\* FIFREEZE succeeds, or fails with EOPNOTSUPP or EBUSY, which are ignored.
FreezeOne(h, f) ==
    /\ Freezing(h) /\ f \in todo[h]
    /\ frozen' = frozen \cup ({Opened(f)} \ NoFreeze)
    /\ todo' = [todo EXCEPT ![h] = @ \ {f}]
    /\ UNCHANGED <<locked, phase, pc, reply, mounts, left, clean, sound>>

FreezeReturn(h) ==
    /\ Freezing(h) /\ todo[h] = {}
    /\ Return(h, "ok")
    /\ UNCHANGED <<locked, phase, frozen, mounts, left, clean, sound>>

-----------------------------------------------------------------------------
(* UnfreezeFileSystems *)

Thawing(h) == pc[h] = "thaw"

\* The request is clean when it sees every frozen filesystem in its list and
\* no Freeze is at work; it stays clean until a Freeze takes the lock or a
\* frozen filesystem is unmounted.
ListToThaw(h) ==
    /\ pc[h] = "ulist"
    /\ Goto(h, "thaw")
    /\ todo' = [todo EXCEPT ![h] = mounts]
    /\ clean' = [clean EXCEPT ![h] =
                    frozen \subseteq mounts /\ \A g \in Handler : ~Freezing(g)]
    /\ UNCHANGED <<locked, phase, reply, frozen, mounts, left, sound>>

\* FITHAW succeeds, or fails with EINVAL (not frozen), which is ignored.
ThawOne(h, f) ==
    /\ Thawing(h) /\ f \in todo[h]
    /\ frozen' = frozen \ {Opened(f)}
    /\ todo' = [todo EXCEPT ![h] = @ \ {f}]
    /\ UNCHANGED <<locked, phase, pc, reply, mounts, left, clean, sound>>

\* Seeded bug: the loop stops at the first filesystem it need not thaw.
UnlockEarly(h) ==
    /\ Thawing(h)
    /\ todo[h] \cap frozen # todo[h] \/ todo[h] = {}
    /\ locked' = FALSE
    /\ Return(h, "ok")
    /\ sound' = clean[h]
    /\ UNCHANGED <<phase, frozen, mounts, left, clean>>

\* s.unlock() and the successful answer.
Unlock(h) ==
    /\ Thawing(h) /\ todo[h] = {}
    /\ locked' = FALSE
    /\ Return(h, "ok")
    /\ sound' = clean[h]
    /\ UNCHANGED <<phase, frozen, mounts, left, clean>>

\* Seeded bug: a failing request releases the lock (defer s.unlock()).
FailsUnlocking(h) ==
    /\ pc[h] \in {"flist", "ulist"} \/ (pc[h] \in {"freeze", "thaw"} /\ todo[h] # {})
    /\ Spend("fault")
    /\ locked' = FALSE
    /\ Return(h, "error")
    /\ UNCHANGED <<phase, frozen, mounts, clean, sound>>

\* GetMountPoints, os.Open or the ioctl fails: the request returns the error
\* and leaves the flag and the filesystems as they are.
FreezeOrThawFails(h) ==
    /\ pc[h] \in {"flist", "ulist"} \/ (pc[h] \in {"freeze", "thaw"} /\ todo[h] # {})
    /\ Spend("fault")
    /\ Return(h, "error")
    /\ UNCHANGED <<locked, phase, frozen, mounts, clean, sound>>

-----------------------------------------------------------------------------
(* The other requests *)

Blocked(h) == pc[h] = "write" /\ todo[h] \cap frozen # {}

\* A write to a frozen filesystem sleeps in the kernel until it is thawed.
Write(h) ==
    /\ pc[h] = "write" /\ ~Blocked(h)
    /\ Return(h, "ok")
    /\ UNCHANGED <<locked, phase, frozen, mounts, left, clean, sound>>

\* Seeded bug: ShutdownAgent waits for the server to stop before it answers.
TerminateWaits(h) ==
    /\ pc[h] = "term" /\ phase = "up"
    /\ phase' = "stopping"
    /\ UNCHANGED <<locked, pc, todo, reply, frozen, mounts, left, clean, sound>>

\* GracefulShutdown: the agent sends itself SIGTERM and answers 3 s later.
Terminate(h) ==
    /\ pc[h] = "term"
    /\ phase' = "stopping"
    /\ Return(h, "ok")
    /\ UNCHANGED <<locked, frozen, mounts, left, clean, sound>>

-----------------------------------------------------------------------------
(* The process and the guest *)

\* A new process: locked starts FALSE whatever the kernel holds frozen.
NewServer ==
    /\ locked' = FALSE
    /\ phase' = "up"
    /\ pc' = [h \in Handler |-> "idle"]
    /\ todo' = [h \in Handler |-> {}]
    /\ reply' = [h \in Handler |-> "none"]
    /\ clean' = [h \in Handler |-> FALSE]
    /\ sound' = (frozen = {})
    /\ UNCHANGED <<frozen, mounts>>

\* SIGTERM or SIGINT from outside cancels the context ListenAndServe runs under.
Signal ==
    /\ phase = "up"
    /\ Spend("stop")
    /\ phase' = "stopping"
    /\ UNCHANGED <<locked, pc, todo, reply, frozen, mounts, clean, sound>>

\* runAgent stops catching signals after the first, so a second one kills the
\* process: from outside, or from a ShutdownAgent admitted before the stop (whose
\* signal is swallowed, see Terminate, when it comes before signal.Stop).
SecondSignal ==
    /\ phase = "stopping"
    /\ \/ Spend("stop")
       \/ UNCHANGED left /\ \E h \in Handler : pc[h] = "term"
    /\ NewServer

\* GracefulStop refuses new requests and returns when the last one has; then
\* the process exits and systemd starts it again.
GracefulStop ==
    /\ phase = "stopping"
    /\ \A h \in Handler : pc[h] = "idle"
    /\ NewServer
    /\ UNCHANGED left

Crash ==
    /\ Spend("stop")
    /\ NewServer

\* The guest mounts or unmounts a filesystem; a frozen superblock stays
\* frozen while it is unmounted, and one with a write under way is busy.
Mount(f) ==
    /\ f \notin mounts
    /\ Spend("mount")
    /\ mounts' = mounts \cup {f}
    /\ UNCHANGED <<agentVars, frozen, clean, sound>>

Unmount(f) ==
    /\ f \in mounts \ {Root}
    /\ \A h \in Handler : pc[h] = "write" => f \notin todo[h]
    /\ Spend("mount")
    /\ mounts' = mounts \ {f}
    /\ clean' = [h \in Handler |-> clean[h] /\ f \notin frozen]
    /\ UNCHANGED <<agentVars, frozen, sound>>

-----------------------------------------------------------------------------

Request(h) == \E m \in Method : Refuse(h, m) \/ Read(h, m) \/ Admit(h, m)

Work(h) ==
    \/ ListToFreeze(h)
    \/ Lock(h)
    \/ \E f \in FS : FreezeOne(h, f)
    \/ FreezeReturn(h)
    \/ ListToThaw(h)
    \/ \E f \in FS : ThawOne(h, f)
    \/ Unlock(h)
    \/ FreezeOrThawFails(h)
    \/ Write(h)
    \/ Terminate(h)

Guest == \E f \in FS : Mount(f) \/ Unmount(f)

Next ==
    \/ \E h \in Handler : Request(h) \/ Work(h)
    \/ Signal \/ SecondSignal
    \/ GracefulStop
    \/ Crash
    \/ Guest

Spec == Init /\ [][Next]_vars

\* The Go scheduler runs every goroutine that can run, GracefulStop and systemd
\* act when they can, and the operator repeats Unfreeze.
Fairness ==
    /\ \A h \in Handler : WF_vars(Work(h))
    /\ WF_vars(GracefulStop)
    /\ SF_vars(\E h \in Handler : Admit(h, "Unfreeze"))

FairSpec == Spec /\ Fairness

-----------------------------------------------------------------------------
(* Properties *)

\* The gate can be trusted: unless an Unfreeze ran against a Freeze, missed an
\* unmounted filesystem, or the process was restarted over frozen filesystems,
\* an agent that is not locked has left no filesystem frozen; after such an
\* accident one clean Unfreeze makes it true again.
GateSound == sound /\ ~locked => frozen = {}

\* The agent implements FreezeGate: the flag is the gate, to be believed when
\* sound.  Filesystems are frozen only behind a gate that is not open, and the
\* gate opens only when nothing is frozen.
Gate == INSTANCE FreezeGate WITH
    Freezable <- FS \ NoFreeze,
    gate <- IF locked THEN "closed" ELSE IF sound THEN "open" ELSE "unknown"

ImplementsGate == Gate!Spec

\* A goroutine still in the freezing loop of FreezeFileSystems has the lock set
\* under it, so the interceptor refuses writers while the loop runs.
LoopIsLocked == sound => \A h \in Handler : Freezing(h) => locked

\* A clean Unfreeze has left nothing frozen but what it has yet to visit, all of
\* it still mounted where the list says, and no Freeze runs beside it.
CleanThaw ==
    \A h \in Handler : Thawing(h) /\ clean[h] =>
        /\ frozen \subseteq todo[h] \cap mounts
        /\ \A g \in Handler : ~Freezing(g)

\* An Unfreeze that ran undisturbed and answers success has thawed everything,
\* also what Freezes that failed half way, an earlier raced Unfreeze or an
\* earlier agent process left frozen.
UnfreezeThawsAll ==
    [][\A h \in Handler :
          Thawing(h) /\ clean[h] /\ reply[h] = "none" /\ reply'[h] = "ok"
              => frozen' = {} /\ ~locked']_vars

\* GracefulStop waits for a writer that sleeps on a frozen filesystem, and lets
\* no Unfreeze in that would wake it.
Hung == phase = "stopping" /\ \E h \in Handler : Blocked(h)

\* Recovery: once faults, freezes, crashes and mounts have stopped, an operator
\* who repeats Unfreeze gets an unlocked agent with no mounted filesystem frozen,
\* unless a graceful stop hangs.
EventuallyRecovered == <>[]((~locked /\ frozen \cap mounts = {}) \/ Hung)

\* Every admitted request is answered, also the writers the interceptor let in
\* before the lock, or did not check, and that slept on a frozen filesystem;
\* only a stop that hangs keeps one from it.
EveryRequestReturns == \A h \in Handler : (pc[h] # "idle") ~> (pc[h] = "idle" \/ Hung)

\* A graceful stop ends in a new process, unless a writer sleeps on a frozen
\* filesystem: GracefulStop waits for that writer and lets no Unfreeze in.
StopEnds == (phase = "stopping") ~> (phase = "up" \/ Hung)

\* What cmd/client/usage.go says of fs-unfreeze ("unfreeze all frozen guest
\* filesystems"): when Unfreeze answers success nothing listed is left frozen.
UnfreezeAsDocumented ==
    [][\A h \in Handler : Thawing(h) /\ reply'[h] = "ok" => frozen' \cap mounts = {}]_vars
=============================================================================
