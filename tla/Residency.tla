------------------------------ MODULE Residency ------------------------------
(***************************************************************************)
(* What a cache of a bounded number of experts promises, apart from how    *)
(* the slots are managed: which experts are resident, and the only ways    *)
(* residency may change.  ExpertCache is shown to implement it.            *)
(***************************************************************************)
EXTENDS Integers, FiniteSets

CONSTANTS Experts,  \* the routed experts, one per <layer, expert id>
          Cap       \* the number of slots

VARIABLE resident

Full == Cardinality(resident) = Cap

ResidencyInit == resident = {}

\* An expert takes a place nobody held.
Admit(e) ==
  /\ e \notin resident
  /\ ~ Full
  /\ resident' = resident \cup {e}

\* An expert takes the place of another one.
Replace(v, e) ==
  /\ Full
  /\ v \in resident
  /\ e \notin resident
  /\ resident' = (resident \ {v}) \cup {e}

\* A victim gave way to an expert whose bytes then could not be read.
Lose(v) ==
  /\ Full
  /\ v \in resident
  /\ resident' = resident \ {v}

ResidencyNext ==
  \/ \E e \in Experts : Admit(e)
  \/ \E v, e \in Experts : Replace(v, e)
  \/ \E v \in Experts : Lose(v)

ResidencySpec == ResidencyInit /\ [][ResidencyNext]_resident
=============================================================================
