--------------------------- MODULE ReleaseCustody ---------------------------
(***************************************************************************)
(* What a release chain promises to the shipping line and to the terminal: *)
(* one party holds the container at any time, custody moves only when the  *)
(* party it was offered to takes it, a frozen chain moves no further, and   *)
(* the container leaves once, to a party that has held it.                 *)
(* The database behind the chain is in SecureChain.                        *)
(***************************************************************************)
CONSTANTS Chains, Orgs, Nobody

VARIABLES
    phase,    \* "NONE", then "ACTIVE", then one of Closed
    holder,   \* who holds an active chain, else Nobody
    offer,    \* to whom custody is offered, else Nobody
    held,     \* every party that has held the chain
    frozen,   \* chains on hold
    taken     \* the parties the container was handed to

custodyVars == <<phase, holder, offer, held, frozen, taken>>

Closed == {"REVOKED", "EXPIRED"}

CustodyInit ==
    /\ phase = [c \in Chains |-> "NONE"]
    /\ holder = [c \in Chains |-> Nobody]
    /\ offer = [c \in Chains |-> Nobody]
    /\ held = [c \in Chains |-> {}]
    /\ frozen = {}
    /\ taken = [c \in Chains |-> {}]

Open(c, o) ==
    /\ phase[c] = "NONE"
    /\ phase' = [phase EXCEPT ![c] = "ACTIVE"]
    /\ holder' = [holder EXCEPT ![c] = o]
    /\ held' = [held EXCEPT ![c] = {o}]
    /\ UNCHANGED <<offer, frozen, taken>>

Moving(c) == phase[c] = "ACTIVE" /\ c \notin frozen

Offer(c, o) ==
    /\ Moving(c) /\ offer[c] = Nobody /\ o # holder[c]
    /\ offer' = [offer EXCEPT ![c] = o]
    /\ UNCHANGED <<phase, holder, held, frozen, taken>>

Take(c) ==
    /\ Moving(c) /\ offer[c] # Nobody
    /\ holder' = [holder EXCEPT ![c] = offer[c]]
    /\ held' = [held EXCEPT ![c] = @ \union {offer[c]}]
    /\ offer' = [offer EXCEPT ![c] = Nobody]
    /\ UNCHANGED <<phase, frozen, taken>>

Refuse(c) ==
    /\ Moving(c) /\ offer[c] # Nobody
    /\ offer' = [offer EXCEPT ![c] = Nobody]
    /\ UNCHANGED <<phase, holder, held, frozen, taken>>

Freeze(c) ==
    /\ frozen' = frozen \union {c}
    /\ UNCHANGED <<phase, holder, offer, held, taken>>

\* A chain that ends holds nothing and offers nothing.
End(c, p) ==
    /\ phase[c] = "ACTIVE"
    /\ phase' = [phase EXCEPT ![c] = p]
    /\ holder' = [holder EXCEPT ![c] = Nobody]
    /\ offer' = [offer EXCEPT ![c] = Nobody]
    /\ UNCHANGED <<held, frozen>>

HandOver(c, o) ==
    /\ End(c, "COMPLETED")
    /\ taken[c] = {} /\ o \in held[c]
    /\ taken' = [taken EXCEPT ![c] = {o}]

\* One sweep may close several chains.
Close(S) ==
    /\ \A c \in S : phase[c] = "ACTIVE"
    /\ \E p \in Closed : phase' = [c \in Chains |-> IF c \in S THEN p ELSE phase[c]]
    /\ holder' = [c \in Chains |-> IF c \in S THEN Nobody ELSE holder[c]]
    /\ offer' = [c \in Chains |-> IF c \in S THEN Nobody ELSE offer[c]]
    /\ UNCHANGED <<held, frozen, taken>>

CustodyNext ==
    \/ \E c \in Chains :
        \/ \E o \in Orgs : Open(c, o) \/ Offer(c, o) \/ HandOver(c, o)
        \/ Take(c) \/ Refuse(c) \/ Freeze(c)
    \/ \E S \in SUBSET Chains : Close(S)

CustodySpec == CustodyInit /\ [][CustodyNext]_custodyVars
=============================================================================
