------------------------------ MODULE MCBridge ------------------------------
(* Instances of the bridge for TLC.                                        *)
EXTENDS BridgeInTime, TLC

CONSTANTS r1, r2, x1, c1

KindOf(callers) ==
    [c \in callers |-> CASE c \in {r1, r2} -> "R" [] c = x1 -> "X" [] c = c1 -> "C"]

\* Two plain callers, whose answers cannot be told apart by their letter.
PlainCallers == {r1, r2}
PlainKind == KindOf(PlainCallers)
PlainSymmetry == Permutations(PlainCallers)

\* One inside croutoncycle, and the window list of xiwi.
CycleCallers == {x1, c1}
CycleKind == KindOf(CycleCallers)
============================================================================
