--------------------------- MODULE EscrowContract ---------------------------
(***************************************************************************)
(* What a multi-signature escrow promises to its parties, without requests *)
(* in progress, timelines or the ten statuses of the database row: the     *)
(* amount is deposited once, leaves in parts only while it is held and     *)
(* only on the signatures of m of n signatories (or once a time-lock has   *)
(* matured), goes back only if nothing left and no quorum was reached, and *)
(* a closed escrow stays closed.                                           *)
(***************************************************************************)
EXTENDS Integers, FiniteSets

CONSTANTS Signatories, Amount

VARIABLES
    phase,     \* "none", "open", "held", "frozen", "closed"
    required,  \* m, 0 before the escrow exists
    signed,    \* who has signed
    out,       \* how much has been paid out
    matured    \* whether a time-lock has expired

contractVars == <<phase, required, signed, out, matured>>

Quorum == Cardinality(signed) >= required

ContractInit ==
    /\ phase = "none"
    /\ required = 0
    /\ signed = {}
    /\ out = 0
    /\ matured = FALSE

Open(m) ==
    /\ phase = "none"
    /\ phase' = "open"
    /\ required' = m
    /\ UNCHANGED <<signed, out, matured>>

Deposit ==
    /\ phase = "open"
    /\ phase' = "held"
    /\ UNCHANGED <<required, signed, out, matured>>

Sign(u) ==
    /\ phase = "held" /\ out = 0
    /\ u \notin signed
    /\ signed' = signed \cup {u}
    /\ UNCHANGED <<phase, required, out, matured>>

\* A signature can be taken back only as long as the quorum is not reached.
Unsign(u) ==
    /\ phase = "held" /\ out = 0
    /\ u \in signed /\ ~Quorum
    /\ signed' = signed \ {u}
    /\ UNCHANGED <<phase, required, out, matured>>

Pay(a) ==
    /\ phase = "held"
    /\ Quorum \/ matured
    /\ out + a <= Amount
    /\ out' = out + a
    /\ phase' = IF out' = Amount THEN "closed" ELSE "held"
    /\ UNCHANGED <<required, signed, matured>>

Freeze ==
    /\ phase = "held"
    /\ phase' = "frozen"
    /\ UNCHANGED <<required, signed, out, matured>>

\* Cancelled, refunded or expired before a quorum, or decided by an arbitrator.
Close ==
    /\ \/ phase = "open"
       \/ phase = "held" /\ out = 0 /\ ~Quorum
       \/ phase = "frozen"
    /\ phase' = "closed"
    /\ UNCHANGED <<required, signed, out, matured>>

Mature ==
    /\ phase # "none"
    /\ ~matured
    /\ matured' = TRUE
    /\ UNCHANGED <<phase, required, signed, out>>

ContractNext ==
    \/ \E m \in 1..Cardinality(Signatories) : Open(m)
    \/ Deposit
    \/ \E u \in Signatories : Sign(u) \/ Unsign(u)
    \/ \E a \in 1..Amount : Pay(a)
    \/ Freeze
    \/ Close
    \/ Mature

ContractSpec == ContractInit /\ [][ContractNext]_contractVars
=============================================================================
