----------------------------- MODULE StatPoller -----------------------------
(***************************************************************************)
(* The guest statistics of GetInfo: the goroutine StatPoller.Run, which    *)
(* refreshes one GuestInfo in place under its mutex, and the requests,     *)
(* which take the pointer under the mutex and read the fields after they   *)
(* have released it (core/stat_poller.go, core/guest_stat.go and           *)
(* services/agent).                                                        *)
(*                                                                         *)
(* A field's value is the number of the poll that wrote it, 0 for Go's     *)
(* zero value.  A field is written and read in one step; Memory stands for *)
(* the four counters read from /proc/meminfo and FreeTotal for their sum.  *)
(***************************************************************************)
EXTENDS Naturals, Sequences, Functions

CONSTANTS
    Request,     \* GetInfo requests in progress
    MaxPolls     \* bound: polls

ASSUME PollsAssumption == MaxPolls \in Nat

\* update() writes the fields in this order, guestInfoToProto reads them in the
\* other.
WriteOrder == <<"Uptime", "Loadavg", "Memory", "FreeTotal", "Swap", "Uname", "Blockdevs", "Users">>
ReadOrder == <<"Uptime", "Uname", "Loadavg", "Memory", "FreeTotal", "Swap", "Users", "Blockdevs">>
Field == Range(WriteOrder)
Zero == [f \in Field |-> 0]

VARIABLES
    mu,        \* p.mu: "free", or held by the "poller"
    stat,      \* p.stat is allocated
    info,      \* *p.stat
    poll,      \* the number of the current or last poll
    ppc,       \* Run: "new", "tick", "lock", "update", "logind", "spin",
               \* "failed", "stopped"
    wpos,      \* update(): the field of WriteOrder to write next
    rpc,       \* rpc[r]: "idle", "lock", "check", "convert", "ok", "notready"
    rpos,      \* rpos[r]: the field of ReadOrder to read next
    reply,     \* reply[r]: the message built so far
    atStart,   \* history: *p.stat when the request arrived
    raced      \* history: raced[r], a field was written while r read

pollerVars == <<mu, stat, info, poll, ppc, wpos>>
requestVars == <<rpc, rpos, reply, atStart>>
vars == <<pollerVars, requestVars, raced>>

TypeOK ==
    /\ mu \in {"free", "poller"}
    /\ mu = "poller" <=> ppc \in {"update", "logind", "spin"}
    /\ stat \in BOOLEAN
    /\ poll \in 0..MaxPolls
    /\ info \in [Field -> 0..poll]
    /\ ppc \in {"new", "tick", "lock", "update", "logind", "spin", "failed", "stopped"}
    /\ wpos \in 1..Len(WriteOrder) + 1
    /\ rpc \in [Request -> {"idle", "lock", "check", "convert", "ok", "notready"}]
    /\ rpos \in [Request -> 1..Len(ReadOrder) + 1]
    /\ reply \in [Request -> [Field -> 0..poll]]
    /\ atStart \in [Request -> [Field -> 0..poll]]
    /\ raced \in [Request -> BOOLEAN]

Init ==
    /\ mu = "free"
    /\ stat = FALSE
    /\ info = Zero
    /\ poll = 0
    /\ ppc = "new"
    /\ wpos = 1
    /\ rpc = [r \in Request |-> "idle"]
    /\ rpos = [r \in Request |-> 1]
    /\ reply = [r \in Request |-> Zero]
    /\ atStart = [r \in Request |-> Zero]
    /\ raced = [r \in Request |-> FALSE]

-----------------------------------------------------------------------------
(* StatPoller.Run *)

\* Run allocates p.stat, without the mutex, and waits for the first tick.
Allocate ==
    /\ ppc = "new"
    /\ stat' = TRUE
    /\ ppc' = "tick"
    /\ UNCHANGED <<mu, info, poll, wpos, requestVars, raced>>

Tick ==
    /\ ppc = "tick" /\ poll < MaxPolls
    /\ ppc' = "lock"
    /\ UNCHANGED <<mu, stat, info, poll, wpos, requestVars, raced>>

Cancelled ==
    /\ ppc = "tick"
    /\ ppc' = "stopped"
    /\ UNCHANGED <<mu, stat, info, poll, wpos, requestVars, raced>>

\* Seeded bug: every update starts from a fresh GuestInfo.
BeginUpdateEmpty ==
    /\ ppc = "lock" /\ mu = "free"
    /\ mu' = "poller"
    /\ ppc' = "update"
    /\ poll' = poll + 1
    /\ wpos' = 1
    /\ info' = Zero
    /\ UNCHANGED <<stat, requestVars, raced>>

BeginUpdate ==
    /\ ppc = "lock" /\ mu = "free"
    /\ mu' = "poller"
    /\ ppc' = "update"
    /\ poll' = poll + 1
    /\ wpos' = 1
    /\ UNCHANGED <<stat, info, requestVars, raced>>

\* The requests that hold the pointer and have fields to read.
Reading(r) == rpc[r] \in {"check", "convert"}

\* The next field gets the value of this poll, and update() goes on.
Write ==
    /\ info' = [info EXCEPT ![WriteOrder[wpos]] = poll]
    /\ wpos' = wpos + 1
    /\ ppc' = "update"
    /\ raced' = [r \in Request |-> raced[r] \/ Reading(r)]
    /\ UNCHANGED <<mu, stat, poll, requestVars>>

Filling(fields) == ppc = "update" /\ wpos <= Len(WriteOrder) /\ WriteOrder[wpos] \in fields

\* What comes from the one sysinfo(2) at the start of update(): the uptime, the
\* load and, after the memory, the swap.
Sysinfo == Filling({"Uptime", "Loadavg", "Swap"}) /\ Write

\* The counters of /proc/meminfo, then the sum of three of them.
UpdateMemStatFields == Filling({"Memory", "FreeTotal"}) /\ Write

UpdateUtsnameFields == Filling({"Uname"}) /\ Write

\* A new list of the devices in /sys/class/block, with the usage of the ones that
\* are mounted; it is put in place as a whole.
GetBlockdevStat == Filling({"Blockdevs"}) /\ Write

\* getLoggedUsers, the user entries of utmp.  When utmp exists but cannot be
\* opened the error is dropped and the list is empty.
ViaUtmpFile == Filling({"Users"}) /\ Write

\* There is no utmp: getLoggedUsers asks systemd-logind, over D-Bus, with the
\* mutex held.
NoUtmp ==
    /\ Filling({"Users"})
    /\ ppc' = "logind"
    /\ UNCHANGED <<mu, stat, info, poll, wpos, requestVars, raced>>

\* Its sessions, each with its properties.
ViaSystemd == ppc = "logind" /\ Write

\* Where update() can return an error: sysinfo, opening /proc/meminfo, scanning it,
\* uname, the block devices, systemd-logind.
CanFail == Filling({"Uptime", "Memory", "FreeTotal", "Uname", "Blockdevs"}) \/ ppc = "logind"

\* Seeded bug: the error path returns without unlocking the mutex.
UpdateFailsLocked ==
    /\ CanFail
    /\ ppc' = "failed"
    /\ UNCHANGED <<mu, stat, info, poll, wpos, requestVars, raced>>

\* update() fails: the deferred unlock runs, Run returns the error and nobody
\* looks at it; what was written stays.
UpdateFails ==
    /\ CanFail
    /\ mu' = "free"
    /\ ppc' = "failed"
    /\ UNCHANGED <<stat, info, poll, wpos, requestVars, raced>>

\* utmp.ReadFile tries again after any error but io.EOF, so an error that stays
\* keeps it in its loop, with the mutex held; the loop ends with the error.
UtmpSpins ==
    /\ Filling({"Users"})
    /\ ppc' = "spin"
    /\ UNCHANGED <<mu, stat, info, poll, wpos, requestVars, raced>>

SpinEnds ==
    /\ ppc = "spin"
    /\ ppc' = "update"
    /\ UNCHANGED <<mu, stat, info, poll, wpos, requestVars, raced>>

EndUpdate ==
    /\ ppc = "update" /\ wpos > Len(WriteOrder)
    /\ mu' = "free"
    /\ ppc' = "tick"
    /\ UNCHANGED <<stat, info, poll, wpos, requestVars, raced>>

-----------------------------------------------------------------------------
(* GetInfo *)

Arrive(r) ==
    /\ rpc[r] \in {"idle", "ok", "notready"}
    /\ rpc' = [rpc EXCEPT ![r] = "lock"]
    /\ rpos' = [rpos EXCEPT ![r] = 1]
    /\ reply' = [reply EXCEPT ![r] = Zero]
    /\ atStart' = [atStart EXCEPT ![r] = info]
    /\ raced' = [raced EXCEPT ![r] = FALSE]
    /\ UNCHANGED pollerVars

\* Seeded bug: Stat does not take the mutex.
StatUnlocked(r) ==
    /\ rpc[r] = "lock"
    /\ rpc' = [rpc EXCEPT ![r] = IF stat THEN "check" ELSE "notready"]
    /\ UNCHANGED <<pollerVars, rpos, reply, atStart, raced>>

\* StatPoller.Stat: the pointer, and the test for nil.
Stat(r) ==
    /\ rpc[r] = "lock" /\ mu = "free"
    /\ rpc' = [rpc EXCEPT ![r] = IF stat THEN "check" ELSE "notready"]
    /\ UNCHANGED <<pollerVars, rpos, reply, atStart, raced>>

\* st.Uptime == 0, read without the mutex.
CheckUptime(r) ==
    /\ rpc[r] = "check"
    /\ rpc' = [rpc EXCEPT ![r] = IF info["Uptime"] = 0 THEN "notready" ELSE "convert"]
    /\ UNCHANGED <<pollerVars, rpos, reply, atStart, raced>>

\* guestInfoToProto copies the fields one after the other.
ReadField(r) ==
    /\ rpc[r] = "convert" /\ rpos[r] <= Len(ReadOrder)
    /\ reply' = [reply EXCEPT ![r][ReadOrder[rpos[r]]] = info[ReadOrder[rpos[r]]]]
    /\ rpos' = [rpos EXCEPT ![r] = @ + 1]
    /\ UNCHANGED <<pollerVars, rpc, atStart, raced>>

SendReply(r) ==
    /\ rpc[r] = "convert" /\ rpos[r] > Len(ReadOrder)
    /\ rpc' = [rpc EXCEPT ![r] = "ok"]
    /\ UNCHANGED <<pollerVars, rpos, reply, atStart, raced>>

-----------------------------------------------------------------------------

WriteField ==
    \/ Sysinfo \/ UpdateMemStatFields \/ UpdateUtsnameFields \/ GetBlockdevStat
    \/ ViaUtmpFile \/ ViaSystemd

Update == BeginUpdate \/ WriteField \/ NoUtmp \/ UpdateFails \/ UtmpSpins \/ EndUpdate

Answering(r) == CheckUptime(r) \/ ReadField(r) \/ SendReply(r)

Next ==
    \/ Allocate \/ Tick \/ Cancelled \/ SpinEnds
    \/ Update
    \/ \E r \in Request : Arrive(r) \/ Stat(r) \/ Answering(r)

Spec == Init /\ [][Next]_vars

\* The scheduler runs both sides, the kernel and systemd-logind answer what update()
\* asks them, and sync.Mutex lets no waiter starve.
Fairness ==
    /\ WF_vars(Update)
    /\ \A r \in Request : SF_vars(Stat(r)) /\ WF_vars(Answering(r))

FairSpec == Spec /\ Fairness

-----------------------------------------------------------------------------
(* Properties *)

\* No field of an answer is older than what the agent knew when the request
\* arrived, however the poller and the unlocked reads interleave.
RepliesFresh ==
    \A r \in Request : rpc[r] = "ok" => \A f \in Field : reply[r][f] >= atStart[r][f]

\* Answers are fresh, and the mutex is held exactly during an update.
PollerInv == TypeOK /\ RepliesFresh

\* An answer that no update overlapped shows one poll, not a mix of two, as long
\* as no poll has failed half way.
QuietReplyIsOnePoll ==
    \A r \in Request :
        rpc[r] = "ok" /\ ~raced[r] /\ ppc # "failed" =>
            \A f, g \in Field : reply[r][f] = reply[r][g]

\* GetInfo is always answered, also after the poller has died, unless it spins
\* on utmp with the mutex held.  That sysinfo, statfs and D-Bus calls come back,
\* with a result or an error, is supposed (Fairness).
RequestAnswered ==
    \A r \in Request : (rpc[r] = "lock") ~> (rpc[r] \in {"ok", "notready"} \/ ppc = "spin")
=============================================================================
