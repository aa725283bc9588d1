------------------------------ MODULE MCPatrol ------------------------------
(* Small instances of Patrol for TLC: one or two bugs, each in a file of its *)
(* own, their recordings, and the user's uncommitted work in another one.    *)
EXTENDS Patrol, TLC

CONSTANTS b1, b2, f1, f2, fUser

MCFileOf ==
  (b1 :> f1) @@ (b2 :> f2) @@ (UserWork :> fUser)
    @@ (Gif(b1) :> Gif(f1)) @@ (Gif(b2) :> Gif(f2))

Flags(once, batch, maxFixes) ==
  [once |-> once, batch |-> batch, maxFixes |-> maxFixes]

(* A loop with room for one fix, and a single pass that can publish both bugs *)
(* as a batch.                                                                *)
MCModes == {Flags(FALSE, FALSE, 1), Flags(TRUE, TRUE, 2)}

MCOneBug == {Flags(once, batch, 1) : once \in BOOLEAN, batch \in BOOLEAN}

(* No file is part of a state, and each bug has its own.                     *)
MCSymmetry == Permutations(Bugs)
=============================================================================
