----------------------- MODULE MCConversationStore -----------------------
(* Instances of ConversationStore for TLC.  Turns and entries are           *)
(* interchangeable; keys are too, the order of the ages being part of the   *)
(* state.                                                                   *)
EXTENDS ConversationStore

Symmetry == Permutations(Turn) \cup Permutations(Entry) \cup Permutations(Key)
==========================================================================
