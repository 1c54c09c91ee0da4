-------------------------- MODULE MCGatewaySessions --------------------------
(* Instances of GatewaySessions for TLC.                                     *)
EXTENDS GatewaySessions, TLC

CONSTANTS j1, u1, f1

Symmetry == Permutations(Requests) \cup Permutations(Jtis \ {j1})

\* A browser that has signed in: its login is over and left the root of a family
\* in the table and in the jar.
SignedInInit ==
    /\ familyOf = [j \in Jtis |-> IF j = j1 THEN f1 ELSE None]
    /\ userOf = [j \in Jtis |-> IF j = j1 THEN u1 ELSE None]
    /\ parentOf = [j \in Jtis |-> None]
    /\ used = {} /\ revoked = {} /\ deleted = {}
    /\ pc = [c \in Calls |-> "idle"]
    /\ call = [c \in Calls |-> Api!NoCall]
    /\ answer = [c \in Calls |-> None]
    /\ stale = {} /\ orphan = {} /\ late = {}
    /\ kin = [c \in Calls |-> {}]
    /\ jar = j1
    /\ expired = {}
    /\ stage = [g \in Requests |-> "unsent"]
    /\ cookie = [g \in Requests |-> None]
    /\ account = [g \in Requests |-> None]
    /\ status = [g \in Requests |-> "pending"]
    /\ setCookie = [g \in Requests |-> Keep]
    /\ faults = 0
    /\ disturbed = FALSE
    /\ signedOut = {} /\ raced = {} /\ doomed = {}

SignedInSpec == SignedInInit /\ [][Next]_vars
=============================================================================
