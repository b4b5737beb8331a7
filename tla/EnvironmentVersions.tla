------------------------- MODULE EnvironmentVersions -------------------------
(***************************************************************************)
(* What `dinkster-env` promises about the installed software of a project: *)
(* the selected generation and the project settings that go with it change *)
(* together, in one step, to a generation number that was never selected   *)
(* before.  An operation that fails, or a tool that dies at any point of   *)
(* one, changes nothing.  Environment implements this specification.       *)
(***************************************************************************)
EXTENDS Naturals

CONSTANT Settings  \* the texts of project.json

VARIABLES
    selected,  \* the generation in use, 0 before the first
    config,    \* the settings it is used with
    taken      \* numbers that have been in use

Init ==
    /\ selected = 0
    /\ config \in Settings
    /\ taken = {}

Select(g, s) ==
    /\ g \in Nat \ ({0} \cup taken)
    /\ selected' = g
    /\ config' = s
    /\ taken' = taken \cup {g}

Next == \E s \in Settings : Select(selected', s)

Spec == Init /\ [][Next]_<<selected, config, taken>>
=============================================================================
