------------------------ MODULE MCMemoryObservation ------------------------
(***************************************************************************)
(* Small instances of MemoryObservation: an event is named like its        *)
(* episode, and every trip confirms the same value.                        *)
(***************************************************************************)
EXTENDS MemoryObservation, TLC

MCEpisodeOf == [e \in Event |-> e]

MCValueOf == [ep \in Episode |-> "hotel"]

EvidenceSymmetry == Permutations(Worker) \cup Permutations(Event)
=============================================================================
