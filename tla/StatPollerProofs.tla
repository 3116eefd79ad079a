-------------------------- MODULE StatPollerProofs --------------------------
(***************************************************************************)
(* GetInfo answers with nothing stale, and with one poll when no update    *)
(* overlapped it, for any number of concurrent requests and of polls.      *)
(***************************************************************************)
EXTENDS StatPoller, TLAPS

\* A poll is only begun within the bound.
PollsBounded == ppc = "lock" => poll < MaxPolls

\* update() has written the fields up to wpos, and between two polls GuestInfo
\* is that of one poll.
Uniform(i) == \A f, g \in Field : i[f] = i[g]
UpdatedInOrder ==
    /\ ppc \in {"update", "logind", "spin"} => \A i \in 1..wpos - 1 : info[WriteOrder[i]] = poll
    /\ ppc \in {"new", "tick", "lock", "stopped"} => Uniform(info)

\* systemd-logind is asked for the last field.
LogindLast == ppc = "logind" => wpos = Len(WriteOrder)

\* Fields only get newer, and the part of an answer that has been read is not
\* older than what was there at the start.
ReadFresh ==
    \A r \in Request :
        /\ rpc[r] \in {"lock", "check"} => rpos[r] = 1
        /\ rpc[r] = "ok" => rpos[r] = Len(ReadOrder) + 1
        /\ \A f \in Field : info[f] >= atStart[r][f]
        /\ \A i \in 1..rpos[r] - 1 : reply[r][ReadOrder[i]] >= atStart[r][ReadOrder[i]]

\* An answer nobody has written under so far shows the GuestInfo that is there,
\* which is that of one poll.
ReadQuiet ==
    \A r \in Request :
        ~raced[r] /\ Reading(r) /\ ppc # "failed" =>
            /\ Uniform(info)
            /\ \A i \in 1..rpos[r] - 1 : reply[r][ReadOrder[i]] = info[ReadOrder[i]]

\* The inductive invariant.
StatInv ==
    PollerInv /\ QuietReplyIsOnePoll /\ PollsBounded /\ UpdatedInOrder /\ LogindLast /\ ReadFresh /\ ReadQuiet

-----------------------------------------------------------------------------
(* The two orders *)

LEMMA Lengths == Len(WriteOrder) = 8 /\ Len(ReadOrder) = 8
  BY DEF WriteOrder, ReadOrder

\* Both orders go through all the fields.
LEMMA Orders ==
    /\ \A i \in 1..8 : WriteOrder[i] \in Field /\ ReadOrder[i] \in Field
    /\ \A f \in Field : \E i \in 1..8 : f = WriteOrder[i]
    /\ \A f \in Field : \E i \in 1..8 : f = ReadOrder[i]
    /\ "Uptime" \in Field /\ "Users" \in Field
<1>1. Field = {"Uptime", "Loadavg", "Memory", "FreeTotal", "Swap", "Uname", "Blockdevs", "Users"}
  <2>1. DOMAIN WriteOrder = 1..8
    BY DEF WriteOrder
  <2>2. 1..8 = {1, 2, 3, 4, 5, 6, 7, 8}
    OBVIOUS
  <2> QED BY <2>1, <2>2 DEF Field, Range, WriteOrder
<1>2. \A i \in 1..8 : i \in {1, 2, 3, 4, 5, 6, 7, 8}
  OBVIOUS
<1>3. \A i \in 1..8 : WriteOrder[i] \in Field /\ ReadOrder[i] \in Field
  BY <1>1, <1>2 DEF WriteOrder, ReadOrder
<1>4. \A f \in Field : \E i \in {1, 2, 3, 4, 5, 6, 7, 8} : f = WriteOrder[i]
  BY <1>1 DEF WriteOrder
<1>5. \A f \in Field : \E i \in {1, 2, 3, 4, 5, 6, 7, 8} : f = ReadOrder[i]
  BY <1>1 DEF ReadOrder
<1>6. {1, 2, 3, 4, 5, 6, 7, 8} \subseteq 1..8
  OBVIOUS
<1> QED
  BY <1>1, <1>3, <1>4, <1>5, <1>6

LEMMA Positions ==
    ASSUME TypeOK PROVE wpos \in 1..9 /\ \A r \in Request : rpos[r] \in 1..9
  BY Lengths DEF TypeOK

LEMMA InitStatInv == Init => StatInv
<1> SUFFICES ASSUME Init PROVE StatInv
  OBVIOUS
<1> USE PollsAssumption, Lengths DEF Init, Zero
<1>1. TypeOK
  <2>1. poll \in 0..MaxPolls /\ wpos \in 1..Len(WriteOrder) + 1 /\ info \in [Field -> 0..poll]
    OBVIOUS
  <2>2. /\ rpos \in [Request -> 1..Len(ReadOrder) + 1]
        /\ reply \in [Request -> [Field -> 0..poll]]
        /\ atStart \in [Request -> [Field -> 0..poll]]
    OBVIOUS
  <2>3. /\ rpc \in [Request -> {"idle", "lock", "check", "convert", "ok", "notready"}]
        /\ raced \in [Request -> BOOLEAN]
    OBVIOUS
  <2> QED BY <2>1, <2>2, <2>3, Zenon DEF TypeOK
<1>2. RepliesFresh /\ QuietReplyIsOnePoll
  BY DEF RepliesFresh, QuietReplyIsOnePoll
<1>3. PollsBounded /\ UpdatedInOrder /\ LogindLast /\ ReadFresh /\ ReadQuiet
  BY DEF PollsBounded, UpdatedInOrder, LogindLast, Uniform, ReadFresh, ReadQuiet, Reading
<1> QED
  BY <1>1, <1>2, <1>3 DEF StatInv, PollerInv
-----------------------------------------------------------------------------
(* The invariant is inductive *)

\* The poller's steps that write no field.
LEMMA PollerStep ==
    ASSUME StatInv,
           \/ Allocate \/ Tick \/ Cancelled \/ SpinEnds \/ BeginUpdate \/ NoUtmp
           \/ UpdateFails \/ UtmpSpins \/ EndUpdate
    PROVE  StatInv'
<1> USE PollsAssumption, Lengths DEF requestVars, Filling, CanFail
<1>0. /\ TypeOK /\ RepliesFresh /\ QuietReplyIsOnePoll
      /\ PollsBounded /\ UpdatedInOrder /\ LogindLast /\ ReadFresh /\ ReadQuiet
  BY DEF StatInv, PollerInv
<1>1. /\ UNCHANGED <<info, requestVars, raced>> /\ ppc # "failed"
      /\ poll' \in Nat /\ poll <= poll'
  BY <1>0 DEF TypeOK, Allocate, Tick, Cancelled, SpinEnds, BeginUpdate, UpdateFails, NoUtmp, UtmpSpins, EndUpdate
<1>2. TypeOK'
  <2>1. poll' \in 0..MaxPolls /\ wpos' \in 1..Len(WriteOrder) + 1
    <3>1. CASE BeginUpdate
      BY <1>0, <3>1 DEF TypeOK, PollsBounded, BeginUpdate
    <3>2. CASE UNCHANGED <<poll, wpos>>
      BY <1>0, <3>2 DEF TypeOK
    <3> QED
      BY <3>1, <3>2 DEF Allocate, Tick, Cancelled, SpinEnds, UpdateFails, NoUtmp, UtmpSpins, EndUpdate
  <2>4. /\ stat' \in BOOLEAN /\ mu' \in {"free", "poller"}
        /\ mu' = "poller" <=> ppc' \in {"update", "logind", "spin"}
        /\ ppc' \in {"new", "tick", "lock", "update", "logind", "spin", "failed", "stopped"}
    BY <1>0, Zenon DEF TypeOK, Allocate, Tick, Cancelled, SpinEnds, BeginUpdate, UpdateFails,
                NoUtmp, UtmpSpins, EndUpdate
  <2>2. 0..poll \subseteq 0..poll'
    BY <1>0, <1>1 DEF TypeOK
  <2>3. /\ info' \in [Field -> 0..poll']
        /\ reply' \in [Request -> [Field -> 0..poll']]
        /\ atStart' \in [Request -> [Field -> 0..poll']]
    BY <1>0, <1>1, <2>2 DEF TypeOK
  <2> QED BY <1>0, <1>1, <2>1, <2>3, <2>4, Zenon DEF TypeOK, requestVars
<1>3. RepliesFresh' /\ QuietReplyIsOnePoll' /\ ReadFresh'
  BY <1>0, <1>1 DEF RepliesFresh, QuietReplyIsOnePoll, ReadFresh
<1>4. PollsBounded'
  BY <1>0 DEF PollsBounded, Allocate, Tick, Cancelled, SpinEnds, BeginUpdate, UpdateFails, NoUtmp,
              UtmpSpins, EndUpdate
<1>5. UpdatedInOrder'
  <2>1. CASE EndUpdate
    <3>1. wpos = 9 /\ ppc = "update" /\ ppc' = "tick"
      BY <1>0, <2>1, Positions DEF EndUpdate
    <3>2. \A f \in Field : info[f] = poll
      BY <1>0, <3>1, Orders DEF UpdatedInOrder
    <3> QED BY <1>1, <3>1, <3>2 DEF UpdatedInOrder, Uniform
  <2>2. CASE BeginUpdate
    BY <1>0, <2>2 DEF TypeOK, UpdatedInOrder, BeginUpdate
  <2>3. CASE SpinEnds \/ NoUtmp \/ UtmpSpins
    BY <1>0, <2>3 DEF TypeOK, UpdatedInOrder, SpinEnds, NoUtmp, UtmpSpins
  <2>4. CASE Allocate \/ Tick \/ Cancelled \/ UpdateFails
    BY <1>0, <1>1, <2>4 DEF UpdatedInOrder, Uniform, Allocate, Tick, Cancelled, UpdateFails
  <2> QED
    BY <2>1, <2>2, <2>3, <2>4
<1>6. ReadQuiet'
  BY <1>0, <1>1 DEF ReadQuiet, Uniform, Reading
<1>7. LogindLast'
  <2>1. CASE NoUtmp
    <3>1. WriteOrder[wpos] = "Users" /\ wpos \in 1..8 /\ wpos' = wpos
      BY <1>0, <2>1 DEF TypeOK, NoUtmp
    <3>2. wpos \in {1, 2, 3, 4, 5, 6, 7, 8}
      BY <3>1
    <3>3. wpos = 8
      BY <3>1, <3>2 DEF WriteOrder
    <3> QED BY <3>1, <3>3 DEF LogindLast
  <2>2. CASE ~NoUtmp
    BY <1>0, <2>2 DEF LogindLast, Allocate, Tick, Cancelled, SpinEnds, BeginUpdate, UpdateFails,
                      UtmpSpins, EndUpdate
  <2> QED BY <2>1, <2>2
<1> QED
  BY <1>2, <1>3, <1>4, <1>5, <1>6, <1>7 DEF StatInv, PollerInv

\* A field is written.
LEMMA WriteStep == ASSUME StatInv, WriteField PROVE StatInv'
<1> USE PollsAssumption, Lengths DEF requestVars
<1>0. /\ TypeOK /\ RepliesFresh /\ QuietReplyIsOnePoll
      /\ PollsBounded /\ UpdatedInOrder /\ LogindLast /\ ReadFresh /\ ReadQuiet
  BY DEF StatInv, PollerInv
<1>1. ppc \in {"update", "logind"} /\ wpos \in 1..8 /\ Write
  BY <1>0 DEF TypeOK, LogindLast, WriteField, Sysinfo, UpdateMemStatFields, UpdateUtsnameFields,
              GetBlockdevStat, ViaUtmpFile, ViaSystemd, Filling
<1>2. \A f \in Field : info'[f] \in 0..poll /\ info'[f] >= info[f]
  BY <1>0, <1>1 DEF TypeOK, Write
<1>3. TypeOK'
  <2>1. poll \in 0..poll /\ info \in [Field -> 0..poll]
    BY <1>0 DEF TypeOK
  <2>2. info' \in [Field -> 0..poll]
    BY <1>1, <2>1 DEF Write
  <2>3. wpos' \in 1..Len(WriteOrder) + 1
    BY <1>1 DEF Write
  <2>4. raced' \in [Request -> BOOLEAN]
    BY <1>0, <1>1, Zenon DEF TypeOK, Write, Reading
  <2> QED BY <1>0, <1>1, <2>2, <2>3, <2>4, Zenon DEF TypeOK, Write
<1>4. RepliesFresh' /\ QuietReplyIsOnePoll' /\ PollsBounded'
  BY <1>0, <1>1 DEF TypeOK, RepliesFresh, QuietReplyIsOnePoll, PollsBounded, Write, Reading
<1>5. UpdatedInOrder'
  <2>1. /\ info' = [info EXCEPT ![WriteOrder[wpos]] = poll] /\ info \in [Field -> 0..poll]
        /\ wpos' = wpos + 1 /\ ppc' = "update" /\ poll' = poll
    BY <1>0, <1>1 DEF TypeOK, Write
  <2>2. \A i \in 1..wpos : info'[WriteOrder[i]] = poll
    BY <1>0, <1>1, <2>1, Orders DEF UpdatedInOrder
  <2> QED BY <1>1, <2>1, <2>2 DEF UpdatedInOrder
<1>6. ReadFresh'
  BY <1>0, <1>1, <1>2 DEF TypeOK, ReadFresh, Write
<1>7. ReadQuiet'
  BY <1>0, <1>1 DEF TypeOK, ReadQuiet, Write, Reading
<1>8. LogindLast'
  BY <1>1 DEF LogindLast, Write
<1> QED
  BY <1>3, <1>4, <1>5, <1>6, <1>7, <1>8 DEF StatInv, PollerInv

\* A request takes a step.
LEMMA RequestStep ==
    ASSUME StatInv, NEW r \in Request, Arrive(r) \/ Stat(r) \/ Answering(r) PROVE StatInv'
<1> USE PollsAssumption, Lengths DEF pollerVars
<1>0. /\ TypeOK /\ RepliesFresh /\ QuietReplyIsOnePoll
      /\ PollsBounded /\ UpdatedInOrder /\ LogindLast /\ ReadFresh /\ ReadQuiet
  BY DEF StatInv, PollerInv
<1>1. UNCHANGED pollerVars
  BY DEF Arrive, Stat, Answering, CheckUptime, ReadField, SendReply
<1>2. PollsBounded' /\ UpdatedInOrder' /\ LogindLast'
  BY <1>0, <1>1 DEF PollsBounded, UpdatedInOrder, LogindLast, Uniform
<1>3. CASE Arrive(r)
  <2>1. TypeOK'
    BY <1>0, <1>1, <1>3 DEF TypeOK, Arrive, Zero
  <2>2. RepliesFresh' /\ QuietReplyIsOnePoll'
    BY <1>0, <1>1, <1>3 DEF TypeOK, RepliesFresh, QuietReplyIsOnePoll, Arrive
  <2>3. ReadFresh' /\ ReadQuiet'
    BY <1>0, <1>1, <1>3 DEF TypeOK, ReadFresh, ReadQuiet, Reading, Uniform, Arrive
  <2> QED BY <1>2, <2>1, <2>2, <2>3 DEF StatInv, PollerInv
<1>4. CASE Stat(r)
  <2>1. TypeOK'
    BY <1>0, <1>1, <1>4 DEF TypeOK, Stat
  <2>2. RepliesFresh' /\ QuietReplyIsOnePoll'
    BY <1>0, <1>1, <1>4 DEF TypeOK, RepliesFresh, QuietReplyIsOnePoll, Stat
  <2>3. ReadFresh'
    BY <1>0, <1>1, <1>4 DEF TypeOK, ReadFresh, Stat
  <2>4. ppc = "failed" \/ Uniform(info)
    BY <1>0, <1>4 DEF TypeOK, UpdatedInOrder, Stat
  <2>5. ReadQuiet'
    BY <1>0, <1>1, <1>4, <2>4 DEF TypeOK, ReadFresh, ReadQuiet, Reading, Uniform, Stat
  <2> QED BY <1>2, <2>1, <2>2, <2>3, <2>5 DEF StatInv, PollerInv
<1>5. CASE CheckUptime(r)
  <2>1. TypeOK'
    BY <1>0, <1>1, <1>5 DEF TypeOK, CheckUptime
  <2>2. RepliesFresh' /\ QuietReplyIsOnePoll'
    BY <1>0, <1>1, <1>5 DEF TypeOK, RepliesFresh, QuietReplyIsOnePoll, CheckUptime
  <2>3. ReadFresh'
    BY <1>0, <1>1, <1>5 DEF TypeOK, ReadFresh, CheckUptime
  <2>4. ReadQuiet'
    BY <1>0, <1>1, <1>5 DEF TypeOK, ReadQuiet, Reading, Uniform, CheckUptime
  <2> QED BY <1>2, <2>1, <2>2, <2>3, <2>4 DEF StatInv, PollerInv
<1>6. CASE ReadField(r)
  <2> DEFINE x == ReadOrder[rpos[r]]
  <2>1. rpos[r] \in 1..8
    BY <1>0, <1>6, Positions DEF ReadField
  <2>2. rpos[r] \in 1..8 /\ x \in Field /\ rpos'[r] = rpos[r] + 1
    BY <1>0, <1>6, <2>1, Orders DEF TypeOK, ReadField
  <2>3. reply' = [reply EXCEPT ![r] = [reply[r] EXCEPT ![x] = info[x]]]
    BY <1>6 DEF ReadField
  <2>4. /\ reply'[r] \in [Field -> 0..poll] /\ reply'[r][x] = info[x]
        /\ \A f \in Field : f # x => reply'[r][f] = reply[r][f]
        /\ \A q \in Request : q # r => reply'[q] = reply[q] /\ rpos'[q] = rpos[q]
    BY <1>0, <1>6, <2>2, <2>3 DEF TypeOK, ReadField
  <2> HIDE DEF x
  <2>5. TypeOK'
    <3>1. reply' \in [Request -> [Field -> 0..poll]]
      BY <1>0, <2>3, <2>4 DEF TypeOK
    <3> QED BY <1>0, <1>1, <1>6, <2>2, <3>1 DEF TypeOK, ReadField
  <2>6. RepliesFresh' /\ QuietReplyIsOnePoll'
    BY <1>0, <1>1, <1>6 DEF TypeOK, RepliesFresh, QuietReplyIsOnePoll, ReadField
  <2>7. ReadFresh'
    <3> SUFFICES ASSUME NEW q \in Request
                 PROVE  /\ rpc'[q] \in {"lock", "check"} => rpos'[q] = 1
                        /\ rpc'[q] = "ok" => rpos'[q] = Len(ReadOrder) + 1
                        /\ \A f \in Field : info'[f] >= atStart'[q][f]
                        /\ \A i \in 1..rpos'[q] - 1 :
                              reply'[q][ReadOrder[i]] >= atStart'[q][ReadOrder[i]]
      BY DEF ReadFresh
    <3>1. CASE q # r
      BY <1>0, <1>1, <1>6, <2>4, <3>1 DEF ReadFresh, ReadField
    <3>2. CASE q = r
      <4>1. UNCHANGED <<rpc, atStart>> /\ rpc[r] = "convert"
        BY <1>6 DEF ReadField
      <4>2. ASSUME NEW i \in 1..rpos[r] PROVE reply'[r][ReadOrder[i]] >= atStart[r][ReadOrder[i]]
        <5>1. ReadOrder[i] \in Field
          BY <2>2, Orders
        <5>2. CASE ReadOrder[i] = x
          BY <1>0, <2>4, <5>1, <5>2 DEF ReadFresh
        <5>3. CASE ReadOrder[i] # x
          BY <1>0, <2>2, <2>4, <5>1, <5>3 DEF ReadFresh, x
        <5> QED BY <5>2, <5>3
      <4> QED BY <1>0, <1>1, <2>2, <3>2, <4>1, <4>2 DEF ReadFresh
    <3> QED BY <3>1, <3>2
  <2>8. ReadQuiet'
    <3> SUFFICES ASSUME NEW q \in Request, ~raced'[q], Reading(q)', ppc' # "failed"
                 PROVE  /\ Uniform(info)'
                        /\ \A i \in 1..rpos'[q] - 1 : reply'[q][ReadOrder[i]] = info'[ReadOrder[i]]
      BY DEF ReadQuiet
    <3>0. ~raced[q] /\ Reading(q) /\ ppc # "failed" /\ info' = info
      BY <1>1, <1>6 DEF ReadField, Reading
    <3>1. CASE q # r
      BY <1>0, <2>4, <3>0, <3>1 DEF ReadQuiet, Uniform
    <3>2. CASE q = r
      <4>1. ASSUME NEW i \in 1..rpos[r] PROVE reply'[r][ReadOrder[i]] = info[ReadOrder[i]]
        <5>1. ReadOrder[i] \in Field
          BY <2>2, Orders
        <5>2. CASE ReadOrder[i] = x
          BY <2>4, <5>2
        <5>3. CASE ReadOrder[i] # x
          BY <1>0, <2>2, <2>4, <3>0, <3>2, <5>1, <5>3 DEF ReadQuiet, x
        <5> QED BY <5>2, <5>3
      <4> QED BY <1>0, <2>2, <3>0, <3>2, <4>1 DEF ReadQuiet, Uniform
    <3> QED BY <3>1, <3>2
  <2> QED BY <1>2, <2>5, <2>6, <2>7, <2>8 DEF StatInv, PollerInv
<1>7. CASE SendReply(r)
  <2>0. rpos[r] = 9
    BY <1>0, <1>7, Positions DEF SendReply
  <2>1. TypeOK'
    BY <1>0, <1>1, <1>7 DEF TypeOK, SendReply
  <2>2. RepliesFresh'
    <3>1. \A f \in Field : reply[r][f] >= atStart[r][f]
      BY <1>0, <2>0, Orders DEF ReadFresh
    <3> QED BY <1>0, <1>7, <3>1 DEF TypeOK, RepliesFresh, SendReply
  <2>3. QuietReplyIsOnePoll'
    <3>1. ~raced[r] /\ ppc # "failed" => \A f \in Field : reply[r][f] = info[f]
      BY <1>0, <1>7, <2>0, Orders DEF ReadQuiet, Reading, SendReply
    <3>2. ~raced[r] /\ ppc # "failed" => Uniform(info)
      BY <1>0, <1>7 DEF ReadQuiet, Reading, SendReply
    <3> QED BY <1>0, <1>1, <1>7, <3>1, <3>2 DEF TypeOK, Uniform, QuietReplyIsOnePoll, SendReply
  <2>4. ReadFresh' /\ ReadQuiet'
    BY <1>0, <1>1, <1>7, <2>0 DEF TypeOK, ReadFresh, ReadQuiet, Reading, Uniform, SendReply
  <2> QED BY <1>2, <2>1, <2>2, <2>3, <2>4 DEF StatInv, PollerInv
<1> QED
  BY <1>3, <1>4, <1>5, <1>6, <1>7 DEF Answering

LEMMA NextStatInv == StatInv /\ [Next]_vars => StatInv'
<1> SUFFICES ASSUME StatInv, [Next]_vars PROVE StatInv'
  OBVIOUS
<1>1. CASE UNCHANGED vars
  BY <1>1 DEF vars, pollerVars, requestVars, StatInv, PollerInv, TypeOK, RepliesFresh,
              QuietReplyIsOnePoll, PollsBounded, UpdatedInOrder, LogindLast, Uniform, ReadFresh, ReadQuiet,
              Reading
<1> QED
  BY <1>1, PollerStep, WriteStep, RequestStep DEF Next, Update

-----------------------------------------------------------------------------
(* The theorems *)

LEMMA StatInvHolds == Spec => []StatInv
  BY InitStatInv, NextStatInv, PTL DEF Spec

\* No answer is older than its request, for any interleaving of unlocked reads
\* with the poller, and the mutex is held exactly during an update.
THEOREM RepliesAreFresh == Spec => []PollerInv
<1>1. StatInv => PollerInv
  BY DEF StatInv
<1> QED BY StatInvHolds, <1>1, PTL

\* An answer no update overlapped shows one poll, as long as none failed half way.
THEOREM QuietRepliesAreWhole == Spec => []QuietReplyIsOnePoll
<1>1. StatInv => QuietReplyIsOnePoll
  BY DEF StatInv
<1> QED BY StatInvHolds, <1>1, PTL
=============================================================================
