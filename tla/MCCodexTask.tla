---------------------------- MODULE MCCodexTask ----------------------------
(* Small instances of CodexTask for TLC. *)
EXTENDS CodexTask, TLC

CONSTANTS p1, p2, s1, s2, a, b, steer, halt, resume

\* b continues the conversation of a; the controls are for a.
Continuing == a :> None @@ b :> a
Alone == a :> None
Actions == steer :> "steer" @@ halt :> "interrupt" @@ resume :> "resume"
ActionOf == [o \in Controls |-> Actions[o]]
OfA == [o \in Controls |-> a]

Symmetry == Permutations(Procs) \cup Permutations(Slots)
=============================================================================
