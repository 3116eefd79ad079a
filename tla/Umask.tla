------------------------------- MODULE Umask -------------------------------
(***************************************************************************)
(* SetFileMode and CreateDir (core/filesystem.go): each sets the umask of  *)
(* the whole process to 0, does its work and puts back what it found.      *)
(* Requests run concurrently, here on one path, and a shell of the SSH     *)
(* server inherits the umask of the moment it is started.                  *)
(***************************************************************************)
CONSTANTS
    FileRequest,   \* requests that may be in progress at once
    Perm,      \* permission bits
    Special,   \* setuid, setgid and sticky
    Mask,      \* the umask the agent was started with
    Modes      \* modes a request may ask for, and the path may be found with

RequestKind == {"SetFileMode", "CreateDir"}
Mode == SUBSET (Perm \cup Special)
Absent == {"absent"}    \* the mode of a path where there is nothing

ASSUME UmaskAssumption ==
    /\ Mask \subseteq Perm /\ Perm \cap Special = {}
    /\ Modes \subseteq Mode /\ Absent \notin Mode

VARIABLES
    umask,    \* of the process
    step,     \* step[r]: "idle", "swapped" or "acted"
    rkind,    \* rkind[r]: what request r is
    fmode,    \* fmode[r]: the mode it asks for
    old,      \* old[r]: the umask it found
    mode,     \* the mode of the path
    asked,    \* history: the mode it was to have, when it was last set
    shell,    \* the umask of the shell started last
    overlap   \* history: a request or a shell began while a request had swapped

umaskVars == <<umask, step, rkind, fmode, old, mode, asked, shell, overlap>>

UmaskTypeOK ==
    /\ umask \in SUBSET Perm
    /\ step \in [FileRequest -> {"idle", "swapped", "acted"}]
    /\ rkind \in [FileRequest -> RequestKind]
    /\ fmode \in [FileRequest -> Mode]
    /\ old \in [FileRequest -> SUBSET Perm]
    /\ mode \in Mode \cup {Absent} /\ asked \in Mode \cup {Absent}
    /\ shell \in SUBSET Perm
    /\ overlap \in BOOLEAN

UmaskInit ==
    /\ umask = Mask
    /\ step = [r \in FileRequest |-> "idle"]
    /\ rkind = [r \in FileRequest |-> "CreateDir"]
    /\ fmode = [r \in FileRequest |-> {}]
    /\ old = [r \in FileRequest |-> {}]
    /\ mode = Absent /\ asked = Absent
    /\ shell = Mask
    /\ overlap = FALSE

\* Between Umask(0000) and the deferred Umask(oldmask).
Swapped(r) == step[r] \in {"swapped", "acted"}

\* oldmask := syscall.Umask(0000).
Swap(r, k, m) ==
    /\ step[r] = "idle"
    /\ step' = [step EXCEPT ![r] = "swapped"]
    /\ rkind' = [rkind EXCEPT ![r] = k]
    /\ fmode' = [fmode EXCEPT ![r] = m]
    /\ old' = [old EXCEPT ![r] = umask]
    /\ umask' = {}
    /\ overlap' = (overlap \/ \E q \in FileRequest : Swapped(q))
    /\ UNCHANGED <<mode, asked, shell>>

\* The request's octal number becomes an os.FileMode, whose setuid, setgid and
\* sticky bits are elsewhere: only the permission bits reach the system call.
FileMode(m) == m \cap Perm

\* os.Chmod of what is there.
SetMode(r) ==
    /\ step[r] = "swapped" /\ rkind[r] = "SetFileMode"
    /\ mode # Absent
    /\ mode' = FileMode(fmode[r]) /\ asked' = mode'
    /\ step' = [step EXCEPT ![r] = "acted"]
    /\ UNCHANGED <<umask, rkind, fmode, old, shell, overlap>>

\* os.MkdirAll makes the directory, and its parents alike, under the umask of the
\* moment; a directory that is there it leaves as it is, and that is a success.
MkdirAll(r) ==
    /\ step[r] = "swapped" /\ rkind[r] = "CreateDir"
    /\ IF mode = Absent
       THEN mode' = FileMode(fmode[r]) \ umask /\ asked' = FileMode(fmode[r])
       ELSE UNCHANGED <<mode, asked>>
    /\ step' = [step EXCEPT ![r] = "acted"]
    /\ UNCHANGED <<umask, rkind, fmode, old, shell, overlap>>

\* Seeded bug: the error return skips the restore.
ActFailsHalfway(r) ==
    /\ step[r] = "swapped"
    /\ step' = [step EXCEPT ![r] = "idle"]
    /\ UNCHANGED <<umask, rkind, fmode, old, mode, asked, shell, overlap>>

\* The system call fails: nothing is there, it is no directory, it may not be
\* written.
ActFails(r) ==
    /\ step[r] = "swapped"
    /\ step' = [step EXCEPT ![r] = "acted"]
    /\ UNCHANGED <<umask, rkind, fmode, old, mode, asked, shell, overlap>>

\* The deferred Umask(oldmask), and the answer.
Restore(r) ==
    /\ step[r] = "acted"
    /\ step' = [step EXCEPT ![r] = "idle"]
    /\ umask' = old[r]
    /\ fmode' = [fmode EXCEPT ![r] = {}]
    /\ old' = [old EXCEPT ![r] = {}]
    /\ UNCHANGED <<rkind, mode, asked, shell, overlap>>

\* Something else in the guest makes, changes or removes the path.
GuestSets(m) ==
    /\ mode' = m /\ asked' = m
    /\ UNCHANGED <<umask, step, rkind, fmode, old, shell, overlap>>

\* A shell or a command of the SSH server is started.
StartShell ==
    /\ shell' = umask
    /\ overlap' = (overlap \/ \E q \in FileRequest : Swapped(q))
    /\ UNCHANGED <<umask, step, rkind, fmode, old, mode, asked>>

UmaskNext ==
    \/ \E r \in FileRequest :
         \/ \E k \in RequestKind, m \in Modes : Swap(r, k, m)
         \/ SetMode(r) \/ MkdirAll(r) \/ ActFails(r) \/ Restore(r)
    \/ \E m \in Modes \cup {Absent} : GuestSets(m)
    \/ StartShell

UmaskSpec == UmaskInit /\ [][UmaskNext]_umaskVars

-----------------------------------------------------------------------------
(* Properties *)

\* Requests that do not overlap leave the umask as the agent was started, failures
\* included, and do not show in a shell; and the path has the very mode that was
\* asked for by whoever set it last.  A CreateDir that finds a directory has not
\* set it, whatever mode it came with.
UndisturbedIsExact ==
    ~overlap =>
        /\ shell = Mask
        /\ (\A r \in FileRequest : ~Swapped(r)) => umask = Mask
        /\ mode = asked

\* The damage overlapping requests can do is bounded: the umask is the original
\* one or none, so the path never has a bit that whoever set it last did not ask
\* for, and lacks at most what the original umask takes away.
UmaskContained ==
    /\ umask \in {Mask, {}} /\ shell \in {Mask, {}}
    /\ mode = Absent <=> asked = Absent
    /\ mode \subseteq asked /\ asked \ Mask \subseteq mode

\* What SetFileMode, CreateDir and the SSH server may do to the umask together.
UmaskSound == UmaskTypeOK /\ UndisturbedIsExact /\ UmaskContained
=============================================================================
