--------------------------- MODULE SessionLineage ---------------------------
(***************************************************************************)
(* What the refresh-token table promises, as atomic operations on tokens:  *)
(* a login starts a lineage, a spent token can have successors in its own  *)
(* lineage, a token is spent once and stays spent, and revocation takes    *)
(* every token a lineage has at that moment.  RefreshTokenFamily, with its *)
(* handlers cut at every statement, is shown to implement it.              *)
(***************************************************************************)
CONSTANTS Lineages, Tokens, None

VARIABLES
    lineage,    \* the lineage of each token, None before it is issued
    spent,      \* tokens that have been exchanged
    dead        \* revoked tokens

vars == <<lineage, spent, dead>>

Issued == {t \in Tokens : lineage[t] # None}
TokensOf(l) == {t \in Issued : lineage[t] = l}

Init ==
    /\ lineage = [t \in Tokens |-> None]
    /\ spent = {}
    /\ dead = {}

Issue(t, l) ==
    /\ t \notin Issued
    /\ lineage' = [lineage EXCEPT ![t] = l]
    /\ UNCHANGED <<spent, dead>>

StartLineage(t, l) == TokensOf(l) = {} /\ Issue(t, l)

Succeed(t, p) == p \in Issued \cap spent /\ Issue(t, lineage[p])

Spend(t) ==
    /\ t \in Issued
    /\ spent' = spent \cup {t}
    /\ UNCHANGED <<lineage, dead>>

Revoke(l) ==
    /\ dead' = dead \cup TokensOf(l)
    /\ UNCHANGED <<lineage, spent>>

Next ==
    \/ \E t \in Tokens, l \in Lineages : StartLineage(t, l)
    \/ \E t, p \in Tokens : Succeed(t, p)
    \/ \E t \in Tokens : Spend(t)
    \/ \E l \in Lineages : Revoke(l)

Spec == Init /\ [][Next]_vars
=============================================================================
