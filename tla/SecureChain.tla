----------------------------- MODULE SecureChain -----------------------------
(***************************************************************************)
(* internal/securechain: the release chain of an import container, from    *)
(* the shipping line that opens it, through nominations that are accepted  *)
(* or declined, to the single-use token the terminal gate consumes.        *)
(*                                                                         *)
(* Every operation locks the chain's row, so an operation is one step; the *)
(* velocity hold is the exception: it is written by a transaction of its   *)
(* own after the refused nomination has rolled back.  The hash chains of   *)
(* links and audit entries are sequences: a position stands for the hash   *)
(* that links an entry to the one before it.                               *)
(***************************************************************************)
EXTENDS Integers, Sequences, FiniteSets, SequencesExt

CONSTANTS
    Orgs,            \* organisations: shipping lines, agents, hauliers
    Lines,           \* those with the shipping-line role
    Containers,
    Digests,         \* bill-of-lading digests
    Chains,          \* chains, named by their idempotency key
    Nonces,          \* release tokens
    Nobody,          \* no organisation
    ChainTTL,        \* longest life of a chain
    TokenTTL,        \* life of a release token
    Threshold,       \* nominations allowed per window; 0 switches the check off
    HoldConfigured,  \* a breach puts the chain on hold
    Window,          \* 24 hours, in ticks
    MaxTime,         \* bound on the clock
    MaxLinks,        \* bound on the links of a chain
    MaxBookings      \* bound on the container bookings

ASSUME ChainAssumptions ==
    /\ Lines \subseteq Orgs /\ Nobody \notin Orgs
    /\ ChainTTL \in Nat \ {0} /\ TokenTTL \in Nat \ {0}
    /\ Threshold \in Nat /\ Window \in Nat /\ HoldConfigured \in BOOLEAN
    /\ MaxTime \in Nat /\ MaxLinks \in Nat /\ MaxBookings \in Nat

VARIABLES
    registry,   \* secure_chain_bl_registry: per digest its container and line
    chains,     \* secure_chains
    links,      \* secure_chain_links: per chain a sequence
    tokens,     \* secure_chain_tokens
    trail,      \* secure_chain_audit: per chain a sequence
    breached,   \* chains with a refused nomination whose hold is still to be written
    booked,     \* truck bookings bound to a container, with their organisation
    clock

chainVars == <<registry, chains, links, tokens, trail, breached, booked, clock>>

ChainStatus == {"NONE", "ACTIVE", "COMPLETED", "REVOKED", "EXPIRED"}

NoChain == [status |-> "NONE", container |-> Nobody, issuer |-> Nobody, hold |-> FALSE, expires |-> 0]
NoToken == [chain |-> Nobody, holder |-> Nobody, expires |-> 0, consumed |-> FALSE]

ChainInit ==
    /\ registry = [d \in Digests |-> [container |-> Nobody, line |-> Nobody]]
    /\ chains = [c \in Chains |-> NoChain]
    /\ links = [c \in Chains |-> <<>>]
    /\ tokens = [n \in Nonces |-> NoToken]
    /\ trail = [c \in Chains |-> <<>>]
    /\ breached = {} /\ booked = {} /\ clock = 0

-----------------------------------------------------------------------------
(* The tail of a chain.                                                    *)

\* The loop of tailOf leaves what the last link says: the nominator while it
\* is pending and after a decline, the nominee once accepted, nobody once
\* revoked; the issuer when there is no link.
tailHolder(c) ==
    IF links[c] = <<>> THEN chains[c].issuer
    ELSE LET l == Last(links[c]) IN
         CASE l.state \in {"PENDING", "DECLINED"} -> l.from
           [] l.state = "ACCEPTED" -> l.to
           [] l.state = "REVOKED" -> Nobody

Pending(c) == links[c] # <<>> /\ Last(links[c]).state = "PENDING"

Active(c) == chains[c].status = "ACTIVE"

\* A bug: a nominee counts before it has accepted.
VerifyReleaseHolderPending(c, org) ==
    /\ Active(c)
    /\ ~chains[c].hold
    /\ chains[c].expires >= clock
    /\ org \in {tailHolder(c)} \union {links[c][i].to : i \in DOMAIN links[c]}

\* The checks a nomination, a release authorization and a container booking
\* share, with the verified organisation of the caller.
VerifyReleaseHolder(c, org) ==
    /\ Active(c)
    /\ ~chains[c].hold
    /\ chains[c].expires >= clock
    /\ ~Pending(c)
    /\ tailHolder(c) = org

audit(c, event, org) == trail' = [trail EXCEPT ![c] = Append(@, [event |-> event, org |-> org])]

-----------------------------------------------------------------------------
(* Operations.                                                             *)

\* The first line to register a digest owns it; it may point it at another
\* container.  Another line's call changes nothing.
RegisterBLAuthority(org, d, k) ==
    /\ org \in Lines
    /\ registry[d].line \in {Nobody, org}
    /\ registry' = [registry EXCEPT ![d] = [container |-> k, line |-> org]]
    /\ UNCHANGED <<chains, links, tokens, trail, breached, booked, clock>>

\* A bug: no unique index.
NoActiveChainUnindexed(k) == TRUE

\* secure_chains_active_container_idx
NoActiveChain(k) == \A c \in Chains : Active(c) => chains[c].container # k

CreateChain(org, c, d, k, expires) ==
    /\ org \in Lines
    /\ expires > clock /\ expires <= clock + ChainTTL
    /\ registry[d] = [container |-> k, line |-> org]
    /\ chains[c] = NoChain
    /\ NoActiveChain(k)
    /\ chains' = [chains EXCEPT ![c] = [status |-> "ACTIVE", container |-> k, issuer |-> org,
                                         hold |-> FALSE, expires |-> expires]]
    /\ audit(c, "chain_created", org)
    /\ UNCHANGED <<registry, links, tokens, breached, booked, clock>>

RecentNominations(c) ==
    Cardinality({i \in DOMAIN links[c] : links[c][i].at > clock - Window})

Breach(c) == Threshold > 0 /\ RecentNominations(c) + 1 > Threshold

\* Without a configured hold a breach is only flagged, in the same transaction.
Nominate(org, c, to) ==
    /\ VerifyReleaseHolder(c, org)
    /\ to # org
    /\ ~(Breach(c) /\ HoldConfigured)
    /\ Len(links[c]) < MaxLinks
    /\ links' = [links EXCEPT ![c] = Append(@, [from |-> org, to |-> to, at |-> clock, state |-> "PENDING"])]
    /\ trail' = [trail EXCEPT ![c] = @ \o
            (IF Breach(c) THEN <<[event |-> "velocity_flag_raised", org |-> Nobody]>> ELSE <<>>)
            \o <<[event |-> "link_nominated", org |-> to]>>]
    /\ UNCHANGED <<registry, chains, tokens, breached, booked, clock>>

\* The breach rolls the nomination back ...
NominateBreached(org, c, to) ==
    /\ VerifyReleaseHolder(c, org)
    /\ to # org
    /\ Breach(c) /\ HoldConfigured
    /\ breached' = breached \union {c}
    /\ UNCHANGED <<registry, chains, links, tokens, trail, booked, clock>>

\* ... and the hold follows in its own transaction, whatever became of the
\* chain meanwhile,
applyVelocityHold(c) ==
    /\ c \in breached
    /\ breached' = breached \ {c}
    /\ chains' = [chains EXCEPT ![c].hold = TRUE]
    /\ audit(c, "velocity_flag_raised", Nobody)
    /\ UNCHANGED <<registry, links, tokens, booked, clock>>

\* or never, when the server dies between the two.
HoldLost(c) ==
    /\ c \in breached
    /\ breached' = breached \ {c}
    /\ UNCHANGED <<registry, chains, links, tokens, trail, booked, clock>>

\* A bug: a link is resolved on a chain on hold.
resolveLinkOnHold(org, c, state, event) ==
    /\ Active(c)
    /\ Pending(c) /\ Last(links[c]).to = org
    /\ links' = [links EXCEPT ![c][Len(links[c])].state = state]
    /\ audit(c, event, org)
    /\ UNCHANGED <<registry, chains, tokens, breached, booked, clock>>

\* The expiry is not checked again.
resolveLink(org, c, state, event) ==
    /\ Active(c) /\ ~chains[c].hold
    /\ Pending(c) /\ Last(links[c]).to = org
    /\ links' = [links EXCEPT ![c][Len(links[c])].state = state]
    /\ audit(c, event, org)
    /\ UNCHANGED <<registry, chains, tokens, breached, booked, clock>>

Accept(org, c) == resolveLink(org, c, "ACCEPTED", "link_accepted")
Decline(org, c) == resolveLink(org, c, "DECLINED", "link_declined")

RevokePending(c) ==
    IF Pending(c) THEN [links[c] EXCEPT ![Len(links[c])].state = "REVOKED"] ELSE links[c]

\* The issuer may revoke a chain on hold.
Revoke(org, c) ==
    /\ Active(c) /\ chains[c].issuer = org
    /\ chains' = [chains EXCEPT ![c].status = "REVOKED"]
    /\ links' = [links EXCEPT ![c] = RevokePending(c)]
    /\ audit(c, "chain_revoked", org)
    /\ UNCHANGED <<registry, tokens, breached, booked, clock>>

\* A chain may have several tokens at a time.
ReleaseAuthorization(org, c, n) ==
    /\ VerifyReleaseHolder(c, org)
    /\ tokens[n] = NoToken
    /\ tokens' = [tokens EXCEPT ![n] = [chain |-> c, holder |-> org,
                                         expires |-> clock + TokenTTL, consumed |-> FALSE]]
    /\ audit(c, "release_authorized", org)
    /\ UNCHANGED <<registry, chains, links, breached, booked, clock>>

\* The status of the chain is all that is checked again at the gate.
Consume(n) ==
    /\ tokens[n] # NoToken /\ ~tokens[n].consumed /\ tokens[n].expires > clock
    /\ LET c == tokens[n].chain IN
        /\ Active(c)
        /\ tokens' = [tokens EXCEPT ![n].consumed = TRUE]
        /\ chains' = [chains EXCEPT ![c].status = "COMPLETED"]
        /\ audit(c, "release_consumed", tokens[n].holder)
    /\ UNCHANGED <<registry, links, breached, booked, clock>>

Due == {c \in Chains : Active(c) /\ chains[c].expires <= clock}

\* A bug: a chain without an open nomination expires unrecorded.
ExpireDueUnaudited ==
    /\ Due # {}
    /\ chains' = [c \in Chains |-> IF c \in Due THEN [chains[c] EXCEPT !.status = "EXPIRED"] ELSE chains[c]]
    /\ links' = [c \in Chains |-> IF c \in Due THEN RevokePending(c) ELSE links[c]]
    /\ trail' = [c \in Chains |-> IF c \in Due /\ Pending(c)
                                    THEN Append(trail[c], [event |-> "chain_expired", org |-> Nobody])
                                    ELSE trail[c]]
    /\ UNCHANGED <<registry, tokens, breached, booked, clock>>

\* One sweep of the expiry workflow, for all the chains of the tenant.
ExpireDue ==
    /\ Due # {}
    /\ chains' = [c \in Chains |-> IF c \in Due THEN [chains[c] EXCEPT !.status = "EXPIRED"] ELSE chains[c]]
    /\ links' = [c \in Chains |-> IF c \in Due THEN RevokePending(c) ELSE links[c]]
    /\ trail' = [c \in Chains |-> IF c \in Due THEN Append(trail[c], [event |-> "chain_expired", org |-> Nobody])
                                               ELSE trail[c]]
    /\ UNCHANGED <<registry, tokens, breached, booked, clock>>

\* internal/booking createTx: a booking that names a container is written only
\* for the verified holder of its chain.
BookContainer(org, c) ==
    /\ VerifyReleaseHolder(c, org)
    /\ booked' = booked \union {<<chains[c].container, org>>}
    /\ Cardinality(booked') <= MaxBookings
    /\ UNCHANGED <<registry, chains, links, tokens, trail, breached, clock>>

Tick ==
    /\ clock < MaxTime
    /\ clock' = clock + 1
    /\ UNCHANGED <<registry, chains, links, tokens, trail, breached, booked>>

ChainNext ==
    \/ \E org \in Orgs, d \in Digests, k \in Containers : RegisterBLAuthority(org, d, k)
    \/ \E org \in Orgs, c \in Chains, d \in Digests, k \in Containers, t \in 1..ChainTTL :
          CreateChain(org, c, d, k, clock + t)
    \/ \E org \in Orgs, c \in Chains :
        \/ \E to \in Orgs : Nominate(org, c, to) \/ NominateBreached(org, c, to)
        \/ Accept(org, c) \/ Decline(org, c) \/ Revoke(org, c)
        \/ \E n \in Nonces : ReleaseAuthorization(org, c, n)
        \/ BookContainer(org, c)
    \/ \E c \in Chains : applyVelocityHold(c) \/ HoldLost(c)
    \/ \E n \in Nonces : Consume(n)
    \/ ExpireDue
    \/ Tick

ChainSpec == ChainInit /\ [][ChainNext]_chainVars

-----------------------------------------------------------------------------
(* Properties.                                                             *)

ChainTypeOK ==
    /\ registry \in [Digests -> [container : Containers \union {Nobody}, line : Lines \union {Nobody}]]
    /\ chains \in [Chains -> [status : ChainStatus, container : Containers \union {Nobody},
                              issuer : Lines \union {Nobody}, hold : BOOLEAN, expires : Nat]]
    /\ links \in [Chains -> Seq([from : Orgs, to : Orgs, at : Nat,
                                 state : {"PENDING", "ACCEPTED", "DECLINED", "REVOKED"}])]
    /\ tokens \in [Nonces -> [chain : Chains \union {Nobody}, holder : Orgs \union {Nobody},
                              expires : Nat, consumed : BOOLEAN]]
    /\ breached \subseteq Chains /\ booked \subseteq Containers \X Orgs /\ clock \in 0..MaxTime

\* The issuer and every organisation that accepted a nomination.
HeldBy(c) ==
    {o \in {chains[c].issuer} : chains[c] # NoChain}
        \union {links[c][i].to : i \in {j \in DOMAIN links[c] : links[c][j].state = "ACCEPTED"}}

Consumed(c) == {n \in Nonces : tokens[n].chain = c /\ tokens[n].consumed}

Custody == INSTANCE ReleaseCustody WITH
    phase <- [c \in Chains |-> chains[c].status],
    holder <- [c \in Chains |-> IF Active(c) THEN tailHolder(c) ELSE Nobody],
    offer <- [c \in Chains |-> IF Active(c) /\ Pending(c) THEN Last(links[c]).to ELSE Nobody],
    held <- [c \in Chains |-> HeldBy(c)],
    frozen <- {c \in Chains : chains[c].hold},
    taken <- [c \in Chains |-> {tokens[n].holder : n \in Consumed(c)}]

\* The rows of chains, links and tokens keep the promise of a release chain:
\* custody moves by acceptance only, never on hold, and ends in one hand-over
\* to a party that has held it (internal/securechain/store.go, all operations).
ImplementsCustody == Custody!CustodySpec

\* However many tokens the holders of a chain drew, one is consumed when the
\* chain completes and none otherwise; and a container has at most one chain
\* in force (Consume, ReleaseAuthorization, secure_chains_active_container_idx).
SingleRelease ==
    /\ \A c \in Chains :
          Cardinality(Consumed(c)) = IF chains[c].status = "COMPLETED" THEN 1 ELSE 0
    /\ \A c, e \in Chains :
          Active(c) /\ Active(e) /\ chains[c].container = chains[e].container => c = e

\* Tokens and container bookings exist only for organisations that have held
\* the chain of the container (ReleaseAuthorization, VerifyReleaseHolder).
VerifiedHoldersOnly ==
    /\ \A n \in Nonces : tokens[n] # NoToken => tokens[n].holder \in HeldBy(tokens[n].chain)
    /\ \A b \in booked : \E c \in Chains : chains[c].container = b[1] /\ b[2] \in HeldBy(c)

\* The status an audit entry leaves its chain in; other events leave it alone.
statusAfter ==
    [chain_created |-> "ACTIVE", chain_revoked |-> "REVOKED",
     chain_expired |-> "EXPIRED", release_consumed |-> "COMPLETED"]

holderEvents == {"chain_created", "link_accepted"}
offerEvents == {"link_nominated", "link_accepted", "link_declined"}

\* The last entry of a trail that is about one of the events, if there is one.
Latest(entries, events) ==
    {entries[i] : i \in {j \in DOMAIN entries :
        /\ entries[j].event \in events
        /\ \A k \in DOMAIN entries : entries[k].event \in events => k <= j}}

Flagged(entries) == \E i \in DOMAIN entries : entries[i].event = "velocity_flag_raised"

\* The audit trail of a chain tells its status, whether it is on hold and, while
\* it is in force, its holder and its open nomination: no operation changes a
\* chain without its entry, and the entries are in the order of the changes.  A
\* flag is a hold where holds are configured, however late it is written
\* (audit, applyVelocityHold).
AuditExplainsChain ==
    \A c \in Chains :
        /\ {statusAfter[e.event] : e \in Latest(trail[c], DOMAIN statusAfter)} = {chains[c].status} \ {"NONE"}
        /\ chains[c].hold <=> HoldConfigured /\ Flagged(trail[c])
        /\ Active(c) =>
            /\ {e.org : e \in Latest(trail[c], holderEvents)} = {tailHolder(c)}
            /\ {e.org : e \in {f \in Latest(trail[c], offerEvents) : f.event = "link_nominated"}}
                 = IF Pending(c) THEN {Last(links[c]).to} ELSE {}

\* "The terminal releases the container only to the verified chain tail", as
\* the chain stands when the token is consumed.  The code does not keep it:
\* Consume looks at the status of the chain and not at its tail or its hold.
ReleasedToTailHolder ==
    [][\A n \in Nonces : tokens'[n].consumed /\ ~tokens[n].consumed =>
          tokens[n].holder = tailHolder(tokens[n].chain)]_chainVars
=============================================================================
