----------------------------- MODULE FreezeGate -----------------------------
(***************************************************************************)
(* What the agent promises about freezing, without requests, goroutines or *)
(* a mount table: a gate in front of a set of frozen filesystems.  "open"  *)
(* is the only answer a client may rely on, "closed" says that writers are *)
(* turned away, and "unknown" is an agent that says open and may be wrong. *)
(***************************************************************************)
CONSTANT Freezable        \* the filesystems that can be frozen

VARIABLES gate, frozen
gateVars == <<gate, frozen>>

Init == gate = "open" /\ frozen = {}

Close == gate' = "closed" /\ UNCHANGED frozen

\* Nothing is ever frozen behind an open gate.
FreezeSome ==
    /\ gate # "open"
    /\ \E S \in SUBSET Freezable : frozen' = frozen \cup S
    /\ UNCHANGED gate

ThawSome ==
    /\ \E S \in SUBSET frozen : frozen' = frozen \ S
    /\ UNCHANGED gate

\* The gate opens on a guest with nothing frozen, from any state: this is also
\* how trust is regained.
Open == frozen = {} /\ gate' = "open" /\ UNCHANGED frozen

Lose == gate' = "unknown" /\ UNCHANGED frozen

Next == Close \/ FreezeSome \/ ThawSome \/ Open \/ Lose

Spec == Init /\ [][Next]_gateVars
=============================================================================
