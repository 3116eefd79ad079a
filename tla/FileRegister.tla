---------------------------- MODULE FileRegister ----------------------------
(***************************************************************************)
(* What file copies promise, without streams, chunks or temporary files: a *)
(* guest path that is a register of whole files.  An upload replaces what  *)
(* is there in one step, at some time while its handler runs; a download   *)
(* delivers what the path held at one moment.  The end of the process ends *)
(* both, and a power loss may bring back what the path held before.        *)
(***************************************************************************)
EXTENDS Sequences

CONSTANTS
    Upload,     \* calls of streamTo
    Download,   \* calls of copyFrom
    Old         \* what made the file that is there at first

VARIABLES
    version,    \* version[u]: the whole file of u
    path,       \* the file at the guest path
    past,       \* what it has held since the last power loss
    placed,     \* uploads that have replaced it
    up,         \* up[u]: "idle", "running" or "ended"
    told,       \* told[u]: what the client was told, "none" at first
    down,       \* down[d]: "idle", "copy" or "ended"
    seen,       \* seen[d]: what d reads
    copy        \* copy[d]: the file at the client's path

registerVars == <<version, path, past, placed, up, told, down, seen, copy>>

Init ==
    /\ version \in [Upload \cup {Old} -> Seq(Upload \cup {Old})]
    /\ path = version[Old] /\ past = {path} /\ placed = {}
    /\ up = [u \in Upload |-> "idle"]
    /\ told = [u \in Upload |-> "none"]
    /\ down = [d \in Download |-> "idle"]
    /\ seen = [d \in Download |-> path]
    /\ copy = [d \in Download |-> path]

-----------------------------------------------------------------------------
(* Uploads *)

Start(u) ==
    /\ up[u] = "idle"
    /\ up' = [up EXCEPT ![u] = "running"]
    /\ UNCHANGED <<version, path, past, placed, told, down, seen, copy>>

\* The only step that writes the path, once per upload.
Replace(u) ==
    /\ up[u] = "running" /\ u \notin placed
    /\ path' = version[u]
    /\ past' = past \cup {version[u]}
    /\ placed' = placed \cup {u}
    /\ UNCHANGED <<version, up, told, down, seen, copy>>

End(u) ==
    /\ up[u] = "running"
    /\ up' = [up EXCEPT ![u] = "ended"]
    /\ UNCHANGED <<version, path, past, placed, told, down, seen, copy>>

\* Success is only told of a file that was put in place, by a handler that has
\* ended; an error says nothing, and may come while the handler still runs.
Tell(u, status) ==
    /\ told[u] = "none" /\ up[u] # "idle"
    /\ status = "ok" => u \in placed /\ up[u] = "ended"
    /\ told' = [told EXCEPT ![u] = status]
    /\ UNCHANGED <<version, path, past, placed, up, down, seen, copy>>

-----------------------------------------------------------------------------
(* Downloads *)

Open(d) ==
    /\ down[d] = "idle"
    /\ down' = [down EXCEPT ![d] = "copy"]
    /\ seen' = [seen EXCEPT ![d] = path]
    /\ UNCHANGED <<version, path, past, placed, up, told, copy>>

Deliver(d) ==
    /\ down[d] = "copy"
    /\ down' = [down EXCEPT ![d] = "ended"]
    /\ copy' = [copy EXCEPT ![d] = seen[d]]
    /\ UNCHANGED <<version, path, past, placed, up, told, seen>>

Fail(d) ==
    /\ down[d] # "ended"
    /\ down' = [down EXCEPT ![d] = "ended"]
    /\ UNCHANGED <<version, path, past, placed, up, told, seen, copy>>

-----------------------------------------------------------------------------
(* The end of the process *)

Die ==
    /\ up' = [u \in Upload |-> IF up[u] = "running" THEN "ended" ELSE up[u]]
    /\ down' = [d \in Download |-> IF down[d] = "copy" THEN "ended" ELSE down[d]]
    /\ \/ UNCHANGED <<path, past>>
       \/ path' \in past /\ past' = {path'}
    /\ UNCHANGED <<version, placed, told, seen, copy>>

Next ==
    \/ \E u \in Upload :
         Start(u) \/ Replace(u) \/ End(u) \/ \E status \in {"ok", "error"} : Tell(u, status)
    \/ \E d \in Download : Open(d) \/ Deliver(d) \/ Fail(d)
    \/ Die

Spec == Init /\ [][Next]_registerVars
=============================================================================
