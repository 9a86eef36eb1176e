----------------------------- MODULE MCTipSplit -----------------------------
(* Instances of TipSplit for TLC. *)
EXTENDS TipSplit, FiniteSets

CONSTANT MaxRecipients

UpTo(n, S) == UNION {[1..k -> S] : k \in 1..n}

RECURSIVE Total(_)
Total(p) == IF p = <<>> THEN 0 ELSE Head(p) + Total(Tail(p))

Weights == {0, 1, 10, 25, 33, 34, 50, 65, 75, 90, 99, 100}

\* Profiles the editor of split profiles saves: every recipient has a share,
\* 0 among them (what a recipient is left with when the weights of the others
\* are locked at 100 together), and the shares make up the whole.
EditorProfiles == {p \in UpTo(MaxRecipients, Weights) : Total(p) = 100}

\* Profiles that only the API accepts, which validates one share at a time:
\* shares that exceed the whole or stay below it, and no share at all.
LooseProfiles == UpTo(MaxRecipients - 1, {0, 34, 75, 100, Absent})

SavedProfiles == EditorProfiles \cup LooseProfiles

SmallTips == 1..60
=============================================================================
