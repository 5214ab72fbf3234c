---------------------------- MODULE MCOnboarding ----------------------------
(* Values for Onboarding's constants that a .cfg cannot express. *)
EXTENDS Onboarding, TLC

CONSTANTS f1, c1, c2, c3, r1, r2, r3, a1, a2, k1, k2, cal1, cal2

AllToFirstFlow == [c \in Callbacks |-> f1]

(* c2 is a reload of c1; c3 is another consent, *)
TwoCodes == [c \in Callbacks |-> IF c = c3 THEN k2 ELSE k1]

(* by another account, which shares a calendar with the first. *)
TwoAccounts == [c \in Callbacks |-> IF c = c3 THEN {cal1, cal2} ELSE {cal1}]

(* Two requests for one flow and one for a feed. *)
TwoAndAFeed == [r \in Requests |-> IF r = r3 THEN NoFlow ELSE f1]

(* A callback and its reload, jobs, and the two requests for the one flow *)
(* are alike.                                                             *)
OnboardingSymmetry ==
    Permutations({c1, c2}) \cup Permutations(Attempts) \cup Permutations({r1, r2})

=============================================================================
