--------------------------- MODULE SessionRotation ---------------------------
(* What the session store promises about session references, with nothing    *)
(* else about a session: a reference is unissued, then active, then replaced *)
(* by exactly one successor, for ever.  CustomerSessions and SessionThreads  *)
(* are shown to implement it.                                                *)
CONSTANTS SessionRefs, Unissued, Active

VARIABLE lineage   \* a reference's status, or the successor that replaced it

TypeOK == lineage \in [SessionRefs -> SessionRefs \cup {Unissued, Active}]

Init == lineage = [s \in SessionRefs |-> Unissued]

\* The server issues a reference nobody holds.
Issue(s) ==
  /\ lineage[s] = Unissued
  /\ lineage' = [lineage EXCEPT ![s] = Active]

\* An active reference is replaced: its successor becomes active with it.
Rotate(s, t) ==
  /\ lineage[s] = Active
  /\ lineage[t] = Unissued
  /\ lineage' = [lineage EXCEPT ![s] = t, ![t] = Active]

Next == \/ \E s \in SessionRefs : Issue(s)
        \/ \E s, t \in SessionRefs : Rotate(s, t)

Spec == Init /\ [][Next]_lineage
=============================================================================
