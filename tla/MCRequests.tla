----------------------------- MODULE MCRequests -----------------------------
(***************************************************************************)
(* The requests of the agent other than file copies and freezes, checked   *)
(* in one run.  The four parts share no state, so one of them moves in a   *)
(* behaviour: the states of the parts add up and do not multiply.          *)
(***************************************************************************)
EXTENDS Network, Umask, OSTables, SSHAccess, TLC

VARIABLE part  \* the part that moves

vars == <<part, networkVars, umaskVars, tablesVars, accessVars>>

Init ==
    /\ part \in {"network", "umask", "tables", "access"}
    /\ NetworkInit /\ UmaskInit /\ TablesInit /\ AccessInit

Next ==
    /\ UNCHANGED part
    /\ \/ part = "network" /\ NetworkNext /\ UNCHANGED <<umaskVars, tablesVars, accessVars>>
       \/ part = "umask" /\ UmaskNext /\ UNCHANGED <<networkVars, tablesVars, accessVars>>
       \/ part = "tables" /\ TablesNext /\ UNCHANGED <<networkVars, umaskVars, accessVars>>
       \/ part = "access" /\ AccessNext /\ UNCHANGED <<networkVars, umaskVars, tablesVars>>

Spec == Init /\ [][Next]_vars

-----------------------------------------------------------------------------
(* The instance *)

Entry(i, f) == [ip |-> i, form |-> f]

\* Both families with everything, the IPv4 address a host address; an address that
\* is not written canonically; one that netlink does not parse.
MCConfigs == {
    [addrs |-> <<Entry("h4", "canonical"), Entry("a6", "canonical")>>,
     gw4 |-> TRUE, gw6 |-> TRUE, routes |-> <<"net">>],
    [addrs |-> <<Entry("a4", "other")>>, gw4 |-> TRUE, gw6 |-> FALSE, routes |-> <<"net">>],
    [addrs |-> <<Entry("a6", "canonical"), Entry("h4", "bare")>>,
     gw4 |-> FALSE, gw6 |-> TRUE, routes |-> <<>>]}

\* With and without the bit the umask takes, and with one chmod(2) is not given.
MCModes == {{"g", "o"}, {"g"}, {"o", "s"}}

\* A number, and the one that chown(2) takes for no change.
MCNumber == "7" :> 7 @@ "-1" :> -1

\* An id that wraps, one that wraps to -1, a number that does not parse.
AccountLine(n, i) == [name |-> n, ignored |-> FALSE, parses |-> TRUE, id |-> i]
Lines == {AccountLine(n, i) : n \in {"root", "7"}, i \in {0, 17}}
         \cup {AccountLine("root", -1),
               [AccountLine("root", 0) EXCEPT !.parses = FALSE],
               [AccountLine("root", 1) EXCEPT !.ignored = TRUE]}

MCAccounts == UNION {[1..n -> Lines] : n \in 0..2}

Mounted(s, k, t, n, f) == [source |-> s, kind |-> k, target |-> t, network |-> n, file |-> f]

MCMounts == UNION {[1..n -> {
    Mounted("/dev/vda", "device", "vda", FALSE, 1), Mounted("/dev/vda", "device", "vda", FALSE, 2),
    Mounted("/dev/disk/b", "link", "vdb", FALSE, 3), Mounted("/dev/disk/b", "link", "vdb", FALSE, 4),
    Mounted("/dev/disk/c", "link", "vdb", FALSE, 2),
    Mounted("/dev/mapper/d", "dm", "dm-0", FALSE, 5), Mounted("/dev/loop0", "loop", "loop0", FALSE, 6),
    Mounted("proc", "virtual", "proc", FALSE, 7), Mounted("//srv", "device", "srv", TRUE, 8),
    Mounted("/dev/old", "gone", "old", FALSE, 1)}] : n \in 0..3}
=============================================================================
