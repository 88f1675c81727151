----------------------------- MODULE Lifecycle -----------------------------
(***************************************************************************)
(* What the backend promises about records and output values, as           *)
(* protocol.py words it ("Keepers and values", the read rule), without     *)
(* counters, queues, workers, clients or locks.                            *)
(*                                                                         *)
(* A record is submitted once, computes once all it references is there,   *)
(* and finishes once.  A value becomes live when its record completes, is  *)
(* never gone while an unfinished record has yet to read it, and does not  *)
(* come back once it is gone.                                              *)
(***************************************************************************)
EXTENDS Naturals

CONSTANTS Record,  \* the records, none of them submitted at first
          Name     \* the names of a record's outputs

VARIABLES state,  \* how far each record is
          refs,   \* the values each record references
          live    \* the values that can be read

vars == <<state, refs, live>>

Value == Record \X Name

States == {"none", "pending", "computed", "completed", "failed", "cancelled"}
Unfinished == {"pending", "computed"}

TypeOK == /\ state \in [Record -> States]
          /\ refs \in [Record -> SUBSET Value]
          /\ live \subseteq Value

Init == /\ state = [r \in Record |-> "none"]
        /\ refs = [r \in Record |-> {}]
        /\ live = {}

\* A submission makes new records that reference values of records that
\* are unfinished, or completed with the value still live.
Submit(new) ==
    /\ \A r \in new : state[r] = "none"
    /\ state' = [r \in Record |-> IF r \in new THEN "pending" ELSE state[r]]
    /\ refs' \in [Record -> SUBSET Value]
    /\ \A r \in Record \ new : refs'[r] = refs[r]
    /\ \A r \in new : \A v \in refs'[r] :
          state[v[1]] \in Unfinished \/ (state[v[1]] = "completed" /\ v \in live)
    /\ UNCHANGED live

\* A workflow returns: all it references had completed and was live.
Compute(r) ==
    /\ state[r] = "pending"
    /\ \A v \in refs[r] : state[v[1]] = "completed"
    /\ refs[r] \subseteq live
    /\ state' = [state EXCEPT ![r] = "computed"]
    /\ UNCHANGED <<refs, live>>

\* A record completes, and some of its outputs are there to read.
Complete(r, names) ==
    /\ state[r] = "computed"
    /\ state' = [state EXCEPT ![r] = "completed"]
    /\ live' = live \cup ({r} \X names)
    /\ UNCHANGED refs

\* A record fails or is cancelled; it has no values.
End(r, how) ==
    /\ state[r] \in Unfinished
    /\ state' = [state EXCEPT ![r] = how]
    /\ UNCHANGED <<refs, live>>

\* Values that no record has yet to read are let go of.
Forget ==
    /\ live' \in SUBSET live
    /\ \A r \in Record : state[r] = "pending" => refs[r] \cap live \subseteq live'
    /\ UNCHANGED <<state, refs>>

Next ==
    \/ \E new \in SUBSET Record : Submit(new)
    \/ \E r \in Record : Compute(r)
    \/ \E r \in Record : \E names \in SUBSET Name : Complete(r, names)
    \/ \E r \in Record : \E how \in {"failed", "cancelled"} : End(r, how)
    \/ Forget

Spec == Init /\ [][Next]_vars

=============================================================================
