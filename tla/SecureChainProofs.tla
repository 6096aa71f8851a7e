--------------------------- MODULE SecureChainProofs ---------------------------
(***************************************************************************)
(* Proofs, for any organisations, chains and tokens: a container is        *)
(* released once per chain and has one chain in force, only organisations  *)
(* that have held a chain draw its tokens or book its container, the rows  *)
(* implement the custody of ReleaseCustody, and the audit trail of a chain *)
(* explains its status, its hold, its holder and its open nomination.      *)
(*                                                                         *)
(* SingleRelease counts tokens and is not inductive: nothing in it says    *)
(* that a token belongs to a chain.  The inductive invariant is spelled    *)
(* out in SingleInv, without cardinalities, over the rows of chains and    *)
(* tokens only; links, audit trail and bookings do not bear on it.         *)
(***************************************************************************)
EXTENDS SecureChain, FiniteSetTheorems, SequenceTheorems, TLAPS

ChainRow == [status : ChainStatus, container : Containers \union {Nobody},
             issuer : Orgs \union {Nobody}, hold : BOOLEAN, expires : Int]
TokenRow == [chain : Chains \union {Nobody}, holder : Orgs \union {Nobody},
             expires : Int, consumed : BOOLEAN]

RowTypes ==
    /\ chains \in [Chains -> ChainRow]
    /\ tokens \in [Nonces -> TokenRow]
    /\ clock \in Int

\* A consumed token belongs to a completed chain ...
ReleasedIsCompleted ==
    \A n \in Nonces : tokens[n].consumed =>
        tokens[n].chain \in Chains /\ chains[tokens[n].chain].status = "COMPLETED"

\* ... a completed chain has such a token ...
CompletedIsReleased ==
    \A c \in Chains : chains[c].status = "COMPLETED" =>
        \E n \in Nonces : tokens[n].consumed /\ tokens[n].chain = c

\* ... and no other.
OneTokenPerChain ==
    \A n, m \in Nonces :
        tokens[n].consumed /\ tokens[m].consumed /\ tokens[n].chain = tokens[m].chain => n = m

\* A drawn token names a chain.
TokensNameChains == \A n \in Nonces : tokens[n] = NoToken \/ tokens[n].chain \in Chains

OneInForce ==
    \A c, e \in Chains :
        Active(c) /\ Active(e) /\ chains[c].container = chains[e].container => c = e

SingleInv ==
    /\ RowTypes /\ TokensNameChains
    /\ ReleasedIsCompleted /\ CompletedIsReleased /\ OneTokenPerChain
    /\ OneInForce

\* The parts of the invariant are about chains and tokens alone: a step that
\* changes neither keeps them.
LEMMA UntouchedRows ==
    ASSUME SingleInv, UNCHANGED <<chains, tokens>>, clock' \in Int
    PROVE  SingleInv'
BY DEF SingleInv, RowTypes, TokensNameChains, ReleasedIsCompleted, CompletedIsReleased,
       OneTokenPerChain, OneInForce, Active

\* A step that moves chains out of force, and completes none, keeps it too.
LEMMA ChainsLeaveForce ==
    ASSUME SingleInv,
           chains' \in [Chains -> ChainRow],
           \A c \in Chains : \/ chains'[c].status = chains[c].status
                             \/ Active(c) /\ chains'[c].status \in {"REVOKED", "EXPIRED"},
           \A c \in Chains : chains'[c].container = chains[c].container,
           UNCHANGED <<tokens, clock>>
    PROVE  SingleInv'
<1> USE DEF SingleInv, RowTypes, Active
<1>1. RowTypes' /\ TokensNameChains' /\ OneTokenPerChain'
  BY DEF TokensNameChains, OneTokenPerChain
<1>2. ReleasedIsCompleted'
  BY DEF ReleasedIsCompleted
<1>3. CompletedIsReleased'
  BY DEF CompletedIsReleased
<1>4. OneInForce'
  BY DEF OneInForce
<1> QED BY <1>1, <1>2, <1>3, <1>4

LEMMA CreateKeepsSingle ==
    ASSUME SingleInv,
           NEW org \in Orgs, NEW c \in Chains, NEW d \in Digests, NEW k \in Containers, NEW t \in Int,
           CreateChain(org, c, d, k, t)
    PROVE  SingleInv'
<1> DEFINE row == [status |-> "ACTIVE", container |-> k, issuer |-> org, hold |-> FALSE, expires |-> t]
<1>1. chains' = [chains EXCEPT ![c] = row] /\ UNCHANGED <<tokens, clock>>
  BY DEF CreateChain
<1>2. chains[c].status = "NONE" /\ \A e \in Chains : Active(e) => chains[e].container # k
  BY DEF CreateChain, NoChain, NoActiveChain
<1>3. row \in ChainRow
  BY DEF ChainRow, ChainStatus
<1> HIDE DEF row
<1>4. row.status = "ACTIVE" /\ row.container = k
  BY DEF row
<1>5. /\ chains' \in [Chains -> ChainRow]
      /\ chains'[c] = row
      /\ \A e \in Chains \ {c} : chains'[e] = chains[e]
  BY <1>1, <1>3 DEF SingleInv, RowTypes
<1>6. RowTypes' /\ TokensNameChains' /\ OneTokenPerChain'
  BY <1>1, <1>5 DEF SingleInv, RowTypes, TokensNameChains, OneTokenPerChain
<1>7. ReleasedIsCompleted'
  BY <1>1, <1>2, <1>5 DEF SingleInv, ReleasedIsCompleted
<1>8. CompletedIsReleased'
  BY <1>1, <1>4, <1>5 DEF SingleInv, CompletedIsReleased
<1>9. OneInForce'
  BY <1>2, <1>4, <1>5 DEF SingleInv, OneInForce, Active
<1> QED BY <1>6, <1>7, <1>8, <1>9 DEF SingleInv

LEMMA AuthorizeKeepsSingle ==
    ASSUME SingleInv, ChainAssumptions,
           NEW org \in Orgs, NEW c \in Chains, NEW n \in Nonces,
           ReleaseAuthorization(org, c, n)
    PROVE  SingleInv'
<1> DEFINE token == [chain |-> c, holder |-> org, expires |-> clock + TokenTTL, consumed |-> FALSE]
<1>1. tokens' = [tokens EXCEPT ![n] = token] /\ UNCHANGED <<chains, clock>>
  BY DEF ReleaseAuthorization
<1>2. tokens[n].consumed = FALSE
  BY DEF ReleaseAuthorization, NoToken
<1>3. token \in TokenRow
  BY DEF TokenRow, SingleInv, RowTypes, ChainAssumptions
<1> HIDE DEF token
<1>4. token.consumed = FALSE /\ token.chain = c
  BY DEF token
<1>5. /\ tokens' \in [Nonces -> TokenRow]
      /\ tokens'[n] = token
      /\ \A m \in Nonces \ {n} : tokens'[m] = tokens[m]
  BY <1>1, <1>3 DEF SingleInv, RowTypes
<1>6. RowTypes' /\ OneInForce'
  BY <1>1, <1>5 DEF SingleInv, RowTypes, OneInForce, Active
<1>7. TokensNameChains'
  BY <1>4, <1>5 DEF SingleInv, TokensNameChains, NoToken
<1>8. ReleasedIsCompleted'
  BY <1>1, <1>4, <1>5 DEF SingleInv, ReleasedIsCompleted
<1>9. CompletedIsReleased'
  BY <1>1, <1>2, <1>5 DEF SingleInv, CompletedIsReleased
<1>10. OneTokenPerChain'
  BY <1>4, <1>5 DEF SingleInv, OneTokenPerChain
<1> QED BY <1>6, <1>7, <1>8, <1>9, <1>10 DEF SingleInv

\* The step it is all about: the chain is in force before and completed after,
\* so no token of it can have been consumed before, nor can one be after.
LEMMA ConsumeKeepsSingle ==
    ASSUME SingleInv, NEW n \in Nonces, Consume(n)
    PROVE  SingleInv'
<1> DEFINE c == tokens[n].chain
<1>1. c \in Chains
  BY DEF Consume, SingleInv, TokensNameChains
<1>2. /\ chains[c].status = "ACTIVE"
      /\ tokens' = [tokens EXCEPT ![n].consumed = TRUE]
      /\ chains' = [chains EXCEPT ![c].status = "COMPLETED"]
      /\ clock' = clock
  BY DEF Consume, Active
<1> HIDE DEF c
<1>3. /\ chains' \in [Chains -> ChainRow]
      /\ chains'[c].status = "COMPLETED"
      /\ \A e \in Chains \ {c} : chains'[e] = chains[e]
  BY <1>1, <1>2 DEF SingleInv, RowTypes, ChainRow, ChainStatus
<1>4. /\ tokens' \in [Nonces -> TokenRow]
      /\ tokens'[n].consumed = TRUE
      /\ tokens'[n].chain = c
      /\ \A m \in Nonces \ {n} : tokens'[m] = tokens[m]
  BY <1>2 DEF SingleInv, RowTypes, TokenRow, c
<1>5. \A m \in Nonces : tokens[m].consumed => tokens[m].chain # c
  BY <1>2 DEF SingleInv, ReleasedIsCompleted
<1>6. RowTypes'
  BY <1>2, <1>3, <1>4 DEF SingleInv, RowTypes
<1>7. TokensNameChains'
  BY <1>1, <1>4 DEF SingleInv, TokensNameChains, NoToken
<1>8. ReleasedIsCompleted'
  BY <1>1, <1>3, <1>4, <1>5 DEF SingleInv, ReleasedIsCompleted
<1>9. CompletedIsReleased'
  <2> SUFFICES ASSUME NEW e \in Chains, chains'[e].status = "COMPLETED"
               PROVE  \E m \in Nonces : tokens'[m].consumed /\ tokens'[m].chain = e
    BY DEF CompletedIsReleased
  <2>1. CASE e = c
    BY <2>1, <1>4
  <2>2. CASE e # c
    <3>1. PICK m \in Nonces : tokens[m].consumed /\ tokens[m].chain = e
      BY <2>2, <1>3 DEF SingleInv, CompletedIsReleased
    <3>2. m # n
      BY <3>1, <2>2 DEF c
    <3> QED BY <3>1, <3>2, <1>4
  <2> QED BY <2>1, <2>2
<1>10. OneTokenPerChain'
  BY <1>4, <1>5 DEF SingleInv, OneTokenPerChain
<1>11. OneInForce'
  BY <1>1, <1>3 DEF SingleInv, OneInForce, Active
<1> QED BY <1>6, <1>7, <1>8, <1>9, <1>10, <1>11 DEF SingleInv

LEMMA RevokeKeepsSingle ==
    ASSUME SingleInv, NEW org \in Orgs, NEW c \in Chains, Revoke(org, c)
    PROVE  SingleInv'
<1>1. chains' = [chains EXCEPT ![c].status = "REVOKED"] /\ Active(c) /\ UNCHANGED <<tokens, clock>>
  BY DEF Revoke
<1>2. chains' \in [Chains -> ChainRow]
  BY <1>1 DEF SingleInv, RowTypes, ChainRow, ChainStatus
<1>3. \A e \in Chains : \/ chains'[e].status = chains[e].status
                        \/ Active(e) /\ chains'[e].status \in {"REVOKED", "EXPIRED"}
  BY <1>1 DEF SingleInv, RowTypes, ChainRow
<1>4. \A e \in Chains : chains'[e].container = chains[e].container
  BY <1>1 DEF SingleInv, RowTypes, ChainRow
<1> QED BY <1>1, <1>2, <1>3, <1>4, ChainsLeaveForce

LEMMA ExpireKeepsSingle ==
    ASSUME SingleInv, ExpireDue
    PROVE  SingleInv'
<1>1. /\ chains' = [c \in Chains |-> IF c \in Due THEN [chains[c] EXCEPT !.status = "EXPIRED"] ELSE chains[c]]
      /\ UNCHANGED <<tokens, clock>>
  BY DEF ExpireDue
<1>2. \A c \in Due : Active(c)
  BY DEF Due
<1>3. chains' \in [Chains -> ChainRow]
  BY <1>1 DEF SingleInv, RowTypes, ChainRow, ChainStatus
<1>4. \A e \in Chains : \/ chains'[e].status = chains[e].status
                        \/ Active(e) /\ chains'[e].status \in {"REVOKED", "EXPIRED"}
  BY <1>1, <1>2 DEF SingleInv, RowTypes, ChainRow
<1>5. \A e \in Chains : chains'[e].container = chains[e].container
  BY <1>1 DEF SingleInv, RowTypes, ChainRow
<1> QED BY <1>1, <1>3, <1>4, <1>5, ChainsLeaveForce

LEMMA HoldKeepsSingle ==
    ASSUME SingleInv, NEW c \in Chains, applyVelocityHold(c)
    PROVE  SingleInv'
<1>1. chains' = [chains EXCEPT ![c].hold = TRUE] /\ UNCHANGED <<tokens, clock>>
  BY DEF applyVelocityHold
<1>2. chains' \in [Chains -> ChainRow]
  BY <1>1 DEF SingleInv, RowTypes, ChainRow
<1>3. \A e \in Chains : chains'[e].status = chains[e].status /\ chains'[e].container = chains[e].container
  BY <1>1 DEF SingleInv, RowTypes, ChainRow
<1> QED BY <1>1, <1>2, <1>3, ChainsLeaveForce

LEMMA StepKeepsSingle ==
    ASSUME SingleInv, ChainAssumptions, [ChainNext]_chainVars
    PROVE  SingleInv'
<1>0. clock \in Int
  BY DEF SingleInv, RowTypes
<1>1. ASSUME NEW org \in Orgs, NEW d \in Digests, NEW k \in Containers, RegisterBLAuthority(org, d, k)
      PROVE  SingleInv'
  BY <1>0, <1>1, UntouchedRows DEF RegisterBLAuthority
<1>2. ASSUME NEW org \in Orgs, NEW c \in Chains, NEW d \in Digests, NEW k \in Containers, NEW t \in 1..ChainTTL,
             CreateChain(org, c, d, k, clock + t)
      PROVE  SingleInv'
  <2>1. clock + t \in Int
    BY <1>0 DEF ChainAssumptions
  <2> QED BY <2>1, <1>2, CreateKeepsSingle
<1>3. ASSUME NEW org \in Orgs, NEW c \in Chains, NEW to \in Orgs,
             Nominate(org, c, to) \/ NominateBreached(org, c, to)
      PROVE  SingleInv'
  BY <1>0, <1>3, UntouchedRows DEF Nominate, NominateBreached
<1>4. ASSUME NEW org \in Orgs, NEW c \in Chains, Accept(org, c) \/ Decline(org, c)
      PROVE  SingleInv'
  BY <1>0, <1>4, UntouchedRows DEF Accept, Decline, resolveLink
<1>5. ASSUME NEW org \in Orgs, NEW c \in Chains, BookContainer(org, c)
      PROVE  SingleInv'
  BY <1>0, <1>5, UntouchedRows DEF BookContainer
<1>6. ASSUME NEW c \in Chains, HoldLost(c)
      PROVE  SingleInv'
  BY <1>0, <1>6, UntouchedRows DEF HoldLost
<1>7. ASSUME Tick
      PROVE  SingleInv'
  BY <1>0, <1>7, UntouchedRows DEF Tick
<1>8. ASSUME UNCHANGED chainVars
      PROVE  SingleInv'
  BY <1>0, <1>8, UntouchedRows DEF chainVars
<1> QED
  BY <1>1, <1>2, <1>3, <1>4, <1>5, <1>6, <1>7, <1>8,
     RevokeKeepsSingle, AuthorizeKeepsSingle, ConsumeKeepsSingle, ExpireKeepsSingle, HoldKeepsSingle
  DEF ChainNext

LEMMA InitSingle == ChainInit => SingleInv
<1> SUFFICES ASSUME ChainInit PROVE SingleInv
  OBVIOUS
<1>1. NoChain \in ChainRow /\ NoChain.status = "NONE"
  BY DEF NoChain, ChainRow, ChainStatus
<1>2. NoToken \in TokenRow /\ NoToken.consumed = FALSE
  BY DEF NoToken, TokenRow
<1>3. /\ chains = [c \in Chains |-> NoChain] /\ tokens = [n \in Nonces |-> NoToken] /\ clock = 0
  BY DEF ChainInit
<1> QED
  BY <1>1, <1>2, <1>3
  DEF SingleInv, RowTypes, TokensNameChains, ReleasedIsCompleted, CompletedIsReleased,
      OneTokenPerChain, OneInForce, Active

\* The counts of SingleRelease from the invariant.
LEMMA SingleInvCounts == SingleInv => SingleRelease
<1> SUFFICES ASSUME SingleInv PROVE SingleRelease
  OBVIOUS
<1>1. ASSUME NEW c \in Chains
      PROVE  Cardinality(Consumed(c)) = IF chains[c].status = "COMPLETED" THEN 1 ELSE 0
  <2>1. CASE chains[c].status = "COMPLETED"
    <3>1. PICK n \in Nonces : tokens[n].consumed /\ tokens[n].chain = c
      BY <2>1 DEF SingleInv, CompletedIsReleased
    <3>2. Consumed(c) = {n}
      BY <3>1 DEF SingleInv, OneTokenPerChain, Consumed
    <3>3. Cardinality({n}) = 1
      BY FS_Singleton
    <3> QED BY <2>1, <3>2, <3>3
  <2>2. CASE chains[c].status # "COMPLETED"
    <3>1. Consumed(c) = {}
      BY <2>2 DEF SingleInv, ReleasedIsCompleted, Consumed
    <3>2. Cardinality({}) = 0
      BY FS_EmptySet
    <3> QED BY <2>2, <3>1, <3>2
  <2> QED BY <2>1, <2>2
<1> QED BY <1>1 DEF SingleRelease, SingleInv, OneInForce

\* However many tokens the successive holders of a chain draw, and whatever
\* nominations, holds, revocations and sweeps come between, the gate consumes
\* one when the chain completes and none otherwise, and a container has one
\* chain in force (internal/securechain/store.go: Consume, CreateChain).
THEOREM ChainReleasesOnce == ChainSpec => []SingleRelease
<1>1. ChainInit => SingleInv
  BY InitSingle
<1>2. SingleInv /\ [ChainNext]_chainVars => SingleInv'
  BY StepKeepsSingle, ChainAssumptions
<1>3. SingleInv => SingleRelease
  BY SingleInvCounts
<1> QED BY <1>1, <1>2, <1>3, PTL DEF ChainSpec

-----------------------------------------------------------------------------
(* Who has held a chain.                                                   *)

LinkRow == [from : Orgs, to : Orgs, at : Int,
            state : {"PENDING", "ACCEPTED", "DECLINED", "REVOKED"}]

\* A chain that was never opened has no link and no refused nomination; an
\* opened one has an issuer.  The last link was written by a party that has
\* held the chain, and is revoked only together with the chain.
ChainKept(c) ==
    /\ chains[c].status = "NONE" => chains[c] = NoChain /\ links[c] = <<>> /\ c \notin breached
    /\ chains[c].status # "NONE" => chains[c].issuer \in Orgs
    /\ links[c] # <<>> => Last(links[c]).from \in HeldBy(c)
    /\ Active(c) /\ links[c] # <<>> => Last(links[c]).state # "REVOKED"

\* VerifiedHoldersOnly, with the chain of a token and of a booking by name.
TokensHeld ==
    \A n \in Nonces, c \in Chains :
        tokens[n] # NoToken /\ tokens[n].chain = c => tokens[n].holder \in HeldBy(c)
BookingsHeld ==
    \A b \in booked : \E c \in Chains : chains[c].container = b[1] /\ b[2] \in HeldBy(c)

HeldInv ==
    /\ SingleInv
    /\ links \in [Chains -> Seq(LinkRow)]
    /\ breached \subseteq Chains
    /\ \A c \in Chains : ChainKept(c)
    /\ TokensHeld /\ BookingsHeld

\* What is read of a chain is read from its row and its links.
LEMMA SameChain ==
    ASSUME NEW c, chains'[c] = chains[c], links'[c] = links[c]
    PROVE  /\ HeldBy(c)' = HeldBy(c)
           /\ tailHolder(c)' = tailHolder(c)
           /\ Pending(c)' <=> Pending(c)
           /\ Active(c)' <=> Active(c)
BY DEF HeldBy, tailHolder, Pending, Active

\* A holder at the tail of a chain in force has held it.
LEMMA TailHasHeld ==
    ASSUME HeldInv, NEW c \in Chains, Active(c)
    PROVE  tailHolder(c) \in HeldBy(c)
<1>1. ChainKept(c) /\ chains[c].status = "ACTIVE" /\ links[c] \in Seq(LinkRow)
  BY DEF HeldInv, Active
<1>2. CASE links[c] = <<>>
  <2>1. chains[c] # NoChain
    BY <1>1 DEF NoChain
  <2> QED BY <1>2, <2>1 DEF tailHolder, HeldBy
<1>3. CASE links[c] # <<>>
  <2>1. Len(links[c]) \in DOMAIN links[c] /\ Last(links[c]) = links[c][Len(links[c])]
    BY <1>1, <1>3 DEF Last
  <2>2. Last(links[c]) \in LinkRow
    BY <1>1, <2>1
  <2>3. Last(links[c]).state \in {"PENDING", "ACCEPTED", "DECLINED"}
    BY <1>1, <1>3, <2>2 DEF ChainKept, LinkRow, Active
  <2>4. CASE Last(links[c]).state = "ACCEPTED"
    <3>1. tailHolder(c) = Last(links[c]).to
      BY <1>3, <2>4 DEF tailHolder
    <3> QED BY <2>1, <2>4, <3>1 DEF HeldBy
  <2>5. CASE Last(links[c]).state \in {"PENDING", "DECLINED"}
    <3>1. tailHolder(c) = Last(links[c]).from
      BY <1>3, <2>5 DEF tailHolder
    <3> QED BY <1>1, <1>3, <3>1 DEF ChainKept
  <2> QED BY <2>3, <2>4, <2>5
<1> QED BY <1>2, <1>3

\* Tokens and bookings stay with parties that have held the chain, when no
\* chain forgets one and no opened chain changes its container.
LEMMA HoldersStay ==
    ASSUME HeldInv,
           \A c \in Chains : HeldBy(c) \subseteq HeldBy(c)',
           \A c \in Chains : chains[c] # NoChain => chains'[c].container = chains[c].container,
           \A n \in Nonces : tokens'[n] # NoToken =>
               \/ /\ tokens[n] # NoToken
                  /\ tokens'[n].chain = tokens[n].chain /\ tokens'[n].holder = tokens[n].holder
               \/ \A c \in Chains : tokens'[n].chain = c => tokens'[n].holder \in HeldBy(c)',
           \A b \in booked' : \/ b \in booked
                              \/ \E c \in Chains : /\ chains'[c].container = b[1]
                                                   /\ b[2] \in HeldBy(c)'
    PROVE  TokensHeld' /\ BookingsHeld'
<1>1. TokensHeld /\ BookingsHeld
  BY DEF HeldInv
<1>2. TokensHeld'
  BY <1>1 DEF TokensHeld
<1>3. ASSUME NEW b \in booked'
      PROVE  \E c \in Chains : chains'[c].container = b[1] /\ b[2] \in HeldBy(c)'
  <2>1. CASE b \in booked
    <3>1. PICK c \in Chains : chains[c].container = b[1] /\ b[2] \in HeldBy(c)
      BY <1>1, <2>1 DEF BookingsHeld
    <3>2. chains[c] # NoChain
      <4>1. CASE links[c] = <<>>
        BY <3>1, <4>1 DEF HeldBy
      <4>2. CASE links[c] # <<>>
        <5>1. chains[c].status # "NONE"
          BY <4>2 DEF HeldInv, ChainKept
        <5> QED BY <5>1 DEF NoChain
      <4> QED BY <4>1, <4>2
    <3> QED BY <3>1, <3>2
  <2> QED BY <1>3, <2>1
<1> QED BY <1>2, <1>3 DEF BookingsHeld

\* The links of one chain grow by a nomination, or the state of the last one
\* is settled.
LEMMA NominatedHeld ==
    ASSUME NEW c, NEW l, links[c] \in Seq(LinkRow), l \in LinkRow, l.state = "PENDING",
           chains'[c] = chains[c], links'[c] = Append(links[c], l)
    PROVE  /\ links'[c] \in Seq(LinkRow) /\ links'[c] # <<>>
           /\ Last(links'[c]) = l
           /\ HeldBy(c)' = HeldBy(c)
<1>1. /\ links'[c] \in Seq(LinkRow) /\ Len(links'[c]) = Len(links[c]) + 1
      /\ links'[c][Len(links[c]) + 1] = l
      /\ \A i \in 1..Len(links[c]) : links'[c][i] = links[c][i]
      /\ DOMAIN links'[c] = 1..(Len(links[c]) + 1) /\ DOMAIN links[c] = 1..Len(links[c])
  OBVIOUS
<1>2. {j \in DOMAIN links'[c] : links'[c][j].state = "ACCEPTED"}
        = {j \in DOMAIN links[c] : links[c][j].state = "ACCEPTED"}
  BY <1>1
<1>3. {links'[c][i].to : i \in {j \in DOMAIN links'[c] : links'[c][j].state = "ACCEPTED"}}
        = {links[c][i].to : i \in {j \in DOMAIN links[c] : links[c][j].state = "ACCEPTED"}}
  BY <1>1, <1>2
<1>4. HeldBy(c)' = HeldBy(c)
  BY <1>3 DEF HeldBy
<1> QED BY <1>1, <1>4 DEF Last

LEMMA SettledHeld ==
    ASSUME NEW c, NEW state \in {"ACCEPTED", "DECLINED", "REVOKED"}, links[c] \in Seq(LinkRow), Pending(c),
           (chains'[c] = NoChain) <=> (chains[c] = NoChain), chains'[c].issuer = chains[c].issuer,
           links'[c] = [links[c] EXCEPT ![Len(links[c])].state = state]
    PROVE  /\ links'[c] \in Seq(LinkRow) /\ links'[c] # <<>>
           /\ Last(links'[c]).from = Last(links[c]).from
           /\ Last(links'[c]).to = Last(links[c]).to
           /\ Last(links'[c]).state = state
           /\ HeldBy(c)' = HeldBy(c) \union {o \in {Last(links[c]).to} : state = "ACCEPTED"}
<1> DEFINE k == Len(links[c])
<1>1. k \in 1..k /\ links[c][k].state = "PENDING" /\ links[c] # <<>>
  BY DEF Pending, Last
<1>2. /\ DOMAIN links[c] = 1..k /\ DOMAIN links'[c] = 1..k /\ Len(links'[c]) = k
      /\ links'[c] \in Seq(LinkRow) /\ links'[c] # <<>>
      /\ links'[c][k].from = links[c][k].from /\ links'[c][k].to = links[c][k].to
      /\ links'[c][k].state = state
      /\ \A i \in 1..k : i # k => links'[c][i] = links[c][i]
  <2> DEFINE new == [links[c][k] EXCEPT !.state = state]
  <2>1. /\ links[c][k] \in LinkRow /\ new \in LinkRow
        /\ new.from = links[c][k].from /\ new.to = links[c][k].to /\ new.state = state
    <3>1. PICK l \in LinkRow : l = links[c][k]
      BY <1>1
    <3> QED BY <3>1 DEF LinkRow
  <2>2. links'[c] = [links[c] EXCEPT ![k] = new]
    OBVIOUS
  <2> HIDE DEF new
  <2>3. /\ links'[c] \in Seq(LinkRow) /\ Len(links'[c]) = k
        /\ \A i \in 1..k : links'[c][i] = IF i = k THEN new ELSE links[c][i]
    BY <1>1, <2>1, <2>2, ExceptSeq
  <2> QED BY <1>1, <2>1, <2>3
<1>3. {j \in DOMAIN links'[c] : links'[c][j].state = "ACCEPTED"}
        = {j \in DOMAIN links[c] : links[c][j].state = "ACCEPTED"}
            \union {j \in {k} : state = "ACCEPTED"}
  BY <1>1, <1>2
<1>4. {links'[c][i].to : i \in {j \in DOMAIN links'[c] : links'[c][j].state = "ACCEPTED"}}
        = {links[c][i].to : i \in {j \in DOMAIN links[c] : links[c][j].state = "ACCEPTED"}}
            \union {o \in {links[c][k].to} : state = "ACCEPTED"}
  BY <1>1, <1>2, <1>3
<1>5. HeldBy(c)' = HeldBy(c) \union {o \in {links[c][k].to} : state = "ACCEPTED"}
  BY <1>4 DEF HeldBy
<1> QED BY <1>2, <1>5 DEF Last

LEMMA KeptChain ==
    ASSUME NEW c \in Chains, ChainKept(c), chains'[c] = chains[c], links'[c] = links[c],
           c \in breached' => c \in breached \/ chains[c].status # "NONE"
    PROVE  ChainKept(c)'
BY SameChain DEF ChainKept, Active

\* A step that leaves chains and links alone and adds, if anything, bookings and
\* tokens of parties at the tail, and refused nominations of opened chains.
LEMMA TailUses ==
    ASSUME HeldInv, SingleInv', UNCHANGED <<chains, links>>,
           breached' \subseteq Chains,
           \A c \in breached' : c \in breached \/ chains[c].status # "NONE",
           \A n \in Nonces : \/ tokens'[n] = tokens[n]
                             \/ \E c \in Chains : /\ Active(c)
                                                  /\ tokens'[n].chain = c
                                                  /\ tokens'[n].holder = tailHolder(c),
           \A b \in booked' : \/ b \in booked
                              \/ \E c \in Chains : /\ Active(c)
                                                   /\ b = <<chains[c].container, tailHolder(c)>>
    PROVE  HeldInv'
<1>1. \A c \in Chains : ChainKept(c)'
  BY KeptChain DEF HeldInv
<1>2. \A c \in Chains : HeldBy(c)' = HeldBy(c)
  BY SameChain
<1>3. \A c \in Chains : Active(c) => tailHolder(c) \in HeldBy(c)'
  BY <1>2, TailHasHeld
<1>4. ASSUME NEW n \in Nonces, tokens'[n] # NoToken
      PROVE  \/ /\ tokens[n] # NoToken
                /\ tokens'[n].chain = tokens[n].chain /\ tokens'[n].holder = tokens[n].holder
             \/ \A c \in Chains : tokens'[n].chain = c => tokens'[n].holder \in HeldBy(c)'
  BY <1>3, <1>4
<1>5. ASSUME NEW b \in booked'
      PROVE  \/ b \in booked
             \/ \E c \in Chains : chains'[c].container = b[1] /\ b[2] \in HeldBy(c)'
  BY <1>3, <1>5
<1>6. TokensHeld' /\ BookingsHeld'
  BY <1>2, <1>4, <1>5, HoldersStay
<1> QED BY <1>1, <1>6 DEF HeldInv

\* A step on chain rows and links, one chain at a time.
LEMMA ChainsMove ==
    ASSUME HeldInv, SingleInv', UNCHANGED booked, breached' \subseteq breached,
           links' \in [Chains -> Seq(LinkRow)],
           \A n \in Nonces : \/ tokens'[n] = tokens[n]
                             \/ /\ tokens[n] # NoToken
                                /\ tokens'[n].chain = tokens[n].chain
                                /\ tokens'[n].holder = tokens[n].holder,
           \A c \in Chains :
               \/ chains'[c] = chains[c] /\ links'[c] = links[c]
               \/ /\ ChainKept(c)' /\ HeldBy(c) \subseteq HeldBy(c)'
                  /\ chains[c] # NoChain => chains'[c].container = chains[c].container
    PROVE  HeldInv'
<1>1. \A c \in Chains : ChainKept(c)'
  BY KeptChain DEF HeldInv
<1>2. \A c \in Chains : HeldBy(c) \subseteq HeldBy(c)'
  BY SameChain
<1>3. TokensHeld' /\ BookingsHeld'
  BY <1>2, HoldersStay
<1> QED BY <1>1, <1>3 DEF HeldInv

LEMMA InitHeld == ChainInit => HeldInv
<1> SUFFICES ASSUME ChainInit PROVE HeldInv
  OBVIOUS
<1>1. /\ chains = [c \in Chains |-> NoChain] /\ links = [c \in Chains |-> <<>>]
      /\ tokens = [n \in Nonces |-> NoToken] /\ breached = {} /\ booked = {}
  BY DEF ChainInit
<1>2. \A c \in Chains : ChainKept(c)
  BY <1>1 DEF ChainKept, Active, NoChain
<1>3. TokensHeld /\ BookingsHeld
  BY <1>1 DEF TokensHeld, BookingsHeld
<1> QED BY <1>1, <1>2, <1>3, InitSingle DEF HeldInv

LEMMA CreateKeepsHeld ==
    ASSUME HeldInv, SingleInv', NEW org \in Orgs, NEW c \in Chains,
           NEW d \in Digests, NEW k \in Containers, NEW t \in Int,
           CreateChain(org, c, d, k, t)
    PROVE  /\ HeldInv'
           /\ chains[c].status = "NONE" /\ HeldBy(c) = {} /\ HeldBy(c)' = {org}
           /\ chains'[c].status = "ACTIVE" /\ chains'[c].hold = chains[c].hold /\ chains'[c].issuer = org
           /\ links' = links /\ links[c] = <<>> /\ tokens' = tokens
           /\ \A e \in Chains \ {c} : chains'[e] = chains[e]
<1> DEFINE row == [status |-> "ACTIVE", container |-> k, issuer |-> org, hold |-> FALSE, expires |-> t]
<1>1. /\ chains' = [chains EXCEPT ![c] = row] /\ UNCHANGED <<links, tokens, breached, booked>>
      /\ chains[c] = NoChain
  BY DEF CreateChain
<1>2. row.status = "ACTIVE" /\ row.issuer = org /\ row.hold = FALSE
  OBVIOUS
<1> HIDE DEF row
<1>3. chains[c].status = "NONE" /\ links[c] = <<>> /\ c \notin breached
  BY <1>1 DEF HeldInv, ChainKept, NoChain
<1>4. chains'[c] = row /\ \A e \in Chains \ {c} : chains'[e] = chains[e]
  BY <1>1 DEF HeldInv, SingleInv, RowTypes
<1>5. row # NoChain /\ chains'[c].hold = chains[c].hold
  <2>1. NoChain.hold = FALSE /\ NoChain.status = "NONE"
    BY DEF NoChain
  <2>2. row.hold = NoChain.hold
    BY <1>2, <2>1, Zenon
  <2> QED BY <1>1, <1>2, <1>4, <2>1, <2>2, Zenon
<1>6. HeldBy(c) = {}
  BY <1>1, <1>3 DEF HeldBy
<1>7. HeldBy(c)' = {org}
  BY <1>1, <1>2, <1>3, <1>4, <1>5 DEF HeldBy
<1>8. ChainKept(c)'
  BY <1>1, <1>2, <1>3, <1>4 DEF ChainKept
<1>9. HeldInv'
  <2>1. links' \in [Chains -> Seq(LinkRow)]
    BY <1>1 DEF HeldInv
  <2> QED BY <1>1, <1>4, <1>6, <1>8, <2>1, ChainsMove
<1> QED BY <1>1, <1>2, <1>3, <1>4, <1>5, <1>6, <1>7, <1>9

LEMMA NominateKeepsHeld ==
    ASSUME HeldInv, SingleInv', NEW org \in Orgs, NEW c \in Chains, NEW to \in Orgs, Nominate(org, c, to)
    PROVE  /\ HeldInv'
           /\ Active(c) /\ ~ chains[c].hold /\ ~ Pending(c) /\ tailHolder(c) = org /\ to # org
           /\ UNCHANGED <<chains, tokens>>
           /\ Pending(c)' /\ Last(links'[c]).to = to /\ tailHolder(c)' = org
           /\ HeldBy(c)' = HeldBy(c)
           /\ \A e \in Chains \ {c} : links'[e] = links[e]
<1> DEFINE l == [from |-> org, to |-> to, at |-> clock, state |-> "PENDING"]
<1>1. /\ links' = [links EXCEPT ![c] = Append(links[c], l)]
      /\ UNCHANGED <<chains, tokens, breached, booked>>
      /\ VerifyReleaseHolder(c, org) /\ to # org
  BY DEF Nominate
<1>2. /\ l \in LinkRow /\ l.state = "PENDING" /\ l.from = org /\ l.to = to
  BY DEF LinkRow, HeldInv, SingleInv, RowTypes
<1> HIDE DEF l
<1>3. Active(c) /\ ~ chains[c].hold /\ ~ Pending(c) /\ tailHolder(c) = org
  BY <1>1 DEF VerifyReleaseHolder
<1>4. /\ links[c] \in Seq(LinkRow)
      /\ links'[c] = Append(links[c], l)
      /\ \A e \in Chains \ {c} : links'[e] = links[e]
  BY <1>1 DEF HeldInv
<1>5. /\ links'[c] \in Seq(LinkRow) /\ links'[c] # <<>> /\ Last(links'[c]) = l
      /\ HeldBy(c)' = HeldBy(c)
  BY <1>1, <1>2, <1>4, NominatedHeld
<1>6. org \in HeldBy(c)
  BY <1>3, TailHasHeld
<1>7. ChainKept(c)'
  <2>1. ChainKept(c) /\ chains[c].status = "ACTIVE"
    BY <1>3 DEF HeldInv, Active
  <2> QED BY <1>1, <1>2, <1>5, <1>6, <2>1 DEF ChainKept
<1>8. HeldInv'
  <2>1. links' \in [Chains -> Seq(LinkRow)]
    BY <1>1, <1>5, <1>4 DEF HeldInv
  <2> QED BY <1>1, <1>4, <1>5, <1>7, <2>1, ChainsMove
<1>9. Pending(c)' /\ tailHolder(c)' = org
  BY <1>2, <1>5 DEF Pending, tailHolder
<1> QED BY <1>1, <1>2, <1>3, <1>4, <1>5, <1>8, <1>9

LEMMA ResolveKeepsHeld ==
    ASSUME HeldInv, SingleInv', NEW org \in Orgs, NEW c \in Chains, NEW event,
           NEW state \in {"ACCEPTED", "DECLINED"}, resolveLink(org, c, state, event)
    PROVE  /\ HeldInv'
           /\ Active(c) /\ ~ chains[c].hold /\ Pending(c) /\ Last(links[c]).to = org
           /\ UNCHANGED <<chains, tokens>>
           /\ ~ Pending(c)'
           /\ state = "ACCEPTED" => tailHolder(c)' = org /\ HeldBy(c)' = HeldBy(c) \union {org}
           /\ state = "DECLINED" => tailHolder(c)' = tailHolder(c) /\ HeldBy(c)' = HeldBy(c)
           /\ \A e \in Chains \ {c} : links'[e] = links[e]
<1>1. /\ links' = [links EXCEPT ![c][Len(links[c])].state = state]
      /\ UNCHANGED <<chains, tokens, breached, booked>>
      /\ Active(c) /\ ~ chains[c].hold /\ Pending(c) /\ Last(links[c]).to = org
  BY DEF resolveLink
<1>2. /\ links[c] \in Seq(LinkRow)
      /\ links'[c] = [links[c] EXCEPT ![Len(links[c])].state = state]
      /\ \A e \in Chains \ {c} : links'[e] = links[e]
  BY <1>1 DEF HeldInv
<1>3. /\ links'[c] \in Seq(LinkRow) /\ links'[c] # <<>>
      /\ Last(links'[c]).from = Last(links[c]).from
      /\ Last(links'[c]).to = org
      /\ Last(links'[c]).state = state
      /\ HeldBy(c)' = HeldBy(c) \union {o \in {org} : state = "ACCEPTED"}
  BY <1>1, <1>2, SettledHeld
<1>4. links[c] # <<>> /\ Last(links[c]).state = "PENDING"
  BY <1>1 DEF Pending
<1>5. ChainKept(c)'
  <2>1. ChainKept(c) /\ chains[c].status = "ACTIVE"
    BY <1>1 DEF HeldInv, Active
  <2> QED BY <1>1, <1>3, <1>4, <2>1 DEF ChainKept
<1>6. HeldInv'
  <2>1. links' \in [Chains -> Seq(LinkRow)]
    BY <1>1, <1>2, <1>3 DEF HeldInv
  <2> QED BY <1>1, <1>2, <1>3, <1>5, <2>1, ChainsMove
<1>7. ~ Pending(c)'
  BY <1>3 DEF Pending
<1>8. state = "ACCEPTED" => tailHolder(c)' = org /\ HeldBy(c)' = HeldBy(c) \union {org}
  BY <1>3 DEF tailHolder
<1>9. state = "DECLINED" => tailHolder(c)' = tailHolder(c) /\ HeldBy(c)' = HeldBy(c)
  BY <1>3, <1>4 DEF tailHolder
<1> QED BY <1>1, <1>2, <1>6, <1>7, <1>8, <1>9

\* A chain that is closed keeps its row, but for the status, and its holders.
LEMMA ClosedHeld ==
    ASSUME HeldInv, NEW c \in Chains, Active(c), NEW s \in {"REVOKED", "EXPIRED"},
           chains'[c] = [chains[c] EXCEPT !.status = s],
           links'[c] = RevokePending(c), breached' = breached
    PROVE  /\ ChainKept(c)' /\ HeldBy(c)' = HeldBy(c)
           /\ chains'[c].container = chains[c].container /\ chains'[c].status = s
           /\ chains'[c].hold = chains[c].hold
           /\ links'[c] \in Seq(LinkRow)
<1>1. ChainKept(c) /\ chains[c].status = "ACTIVE" /\ chains[c] \in ChainRow /\ links[c] \in Seq(LinkRow)
  BY DEF HeldInv, Active, SingleInv, RowTypes
<1>2. /\ chains'[c].status = s /\ chains'[c].issuer = chains[c].issuer
      /\ chains'[c].container = chains[c].container /\ chains'[c].hold = chains[c].hold
  BY <1>1 DEF ChainRow
<1>3. chains'[c] # NoChain /\ chains[c] # NoChain
  BY <1>1, <1>2 DEF NoChain
<1>4. CASE Pending(c)
  <2>1. links'[c] = [links[c] EXCEPT ![Len(links[c])].state = "REVOKED"]
    BY <1>4 DEF RevokePending
  <2>2. /\ links'[c] \in Seq(LinkRow)
        /\ Last(links'[c]).from = Last(links[c]).from
        /\ HeldBy(c)' = HeldBy(c) \union {o \in {Last(links[c]).to} : "REVOKED" = "ACCEPTED"}
    BY <1>1, <1>2, <1>3, <1>4, <2>1, SettledHeld
  <2>3. HeldBy(c)' = HeldBy(c)
    BY <2>2
  <2>4. ChainKept(c)'
    BY <1>1, <1>2, <1>4, <2>2, <2>3 DEF ChainKept, Active, Pending
  <2> QED BY <1>2, <2>2, <2>3, <2>4
<1>5. CASE ~ Pending(c)
  <2>1. links'[c] = links[c]
    BY <1>5 DEF RevokePending
  <2>2. HeldBy(c)' = HeldBy(c)
    BY <1>2, <1>3, <2>1 DEF HeldBy
  <2>3. ChainKept(c)'
    BY <1>1, <1>2, <2>1, <2>2 DEF ChainKept, Active
  <2> QED BY <1>1, <1>2, <2>1, <2>2, <2>3
<1> QED BY <1>4, <1>5

\* Revoke closes one chain, ExpireDue those that are due.
LEMMA CloseKeepsHeld ==
    ASSUME HeldInv, SingleInv', NEW S \in SUBSET Chains, \A c \in S : Active(c),
           NEW s \in {"REVOKED", "EXPIRED"}, UNCHANGED <<tokens, breached, booked>>,
           chains' = [c \in Chains |-> IF c \in S THEN [chains[c] EXCEPT !.status = s] ELSE chains[c]],
           links' = [c \in Chains |-> IF c \in S THEN RevokePending(c) ELSE links[c]]
    PROVE  /\ HeldInv'
           /\ \A c \in Chains : HeldBy(c)' = HeldBy(c) /\ chains'[c].hold = chains[c].hold
           /\ \A c \in S : chains'[c].status = s
           /\ \A c \in Chains \ S : chains'[c] = chains[c] /\ links'[c] = links[c]
<1>1. ASSUME NEW c \in S
      PROVE  /\ ChainKept(c)' /\ HeldBy(c)' = HeldBy(c)
             /\ chains'[c].container = chains[c].container /\ chains'[c].status = s
             /\ chains'[c].hold = chains[c].hold
             /\ links'[c] \in Seq(LinkRow)
  <2>1. /\ chains'[c] = [chains[c] EXCEPT !.status = s] /\ links'[c] = RevokePending(c)
        /\ c \in Chains /\ Active(c) /\ breached' = breached
    OBVIOUS
  <2> QED BY <2>1, ClosedHeld
<1>2. ASSUME NEW c \in Chains \ S
      PROVE  chains'[c] = chains[c] /\ links'[c] = links[c] /\ HeldBy(c)' = HeldBy(c)
  <2>1. chains'[c] = chains[c] /\ links'[c] = links[c]
    OBVIOUS
  <2> QED BY <2>1, SameChain
<1>3. links' \in [Chains -> Seq(LinkRow)]
  BY <1>1, <1>2 DEF HeldInv
<1>4. HeldInv'
  BY <1>1, <1>2, <1>3, ChainsMove
<1> QED BY <1>1, <1>2, <1>4

LEMMA RevokeKeepsHeld ==
    ASSUME HeldInv, SingleInv', NEW org, NEW c \in Chains, Revoke(org, c)
    PROVE  /\ HeldInv' /\ Active(c) /\ tokens' = tokens
           /\ \A e \in Chains : HeldBy(e)' = HeldBy(e) /\ chains'[e].hold = chains[e].hold
           /\ chains'[c].status = "REVOKED"
           /\ \A e \in Chains \ {c} : chains'[e] = chains[e] /\ links'[e] = links[e]
<1>1. /\ Active(c) /\ UNCHANGED <<tokens, breached, booked>>
      /\ chains' = [chains EXCEPT ![c].status = "REVOKED"]
      /\ links' = [links EXCEPT ![c] = RevokePending(c)]
  BY DEF Revoke
<1>2. chains' = [e \in Chains |-> IF e \in {c} THEN [chains[e] EXCEPT !.status = "REVOKED"] ELSE chains[e]]
  BY <1>1 DEF HeldInv, SingleInv, RowTypes
<1>3. links' = [e \in Chains |-> IF e \in {c} THEN RevokePending(e) ELSE links[e]]
  BY <1>1 DEF HeldInv
<1>4. {c} \in SUBSET Chains /\ \A e \in {c} : Active(e)
  BY <1>1
<1>5. /\ HeldInv'
      /\ \A e \in Chains : HeldBy(e)' = HeldBy(e) /\ chains'[e].hold = chains[e].hold
      /\ \A e \in {c} : chains'[e].status = "REVOKED"
      /\ \A e \in Chains \ {c} : chains'[e] = chains[e] /\ links'[e] = links[e]
  BY <1>1, <1>2, <1>3, <1>4, CloseKeepsHeld
<1> QED BY <1>1, <1>5

LEMMA ExpireKeepsHeld ==
    ASSUME HeldInv, SingleInv', ExpireDue
    PROVE  /\ HeldInv' /\ Due \in SUBSET Chains /\ \A c \in Due : Active(c)
           /\ tokens' = tokens
           /\ \A e \in Chains : HeldBy(e)' = HeldBy(e) /\ chains'[e].hold = chains[e].hold
           /\ \A c \in Due : chains'[c].status = "EXPIRED"
           /\ \A e \in Chains \ Due : chains'[e] = chains[e] /\ links'[e] = links[e]
<1>1. Due \in SUBSET Chains /\ \A c \in Due : Active(c)
  BY DEF Due
<1>2. /\ UNCHANGED <<tokens, breached, booked>>
      /\ chains' = [c \in Chains |-> IF c \in Due THEN [chains[c] EXCEPT !.status = "EXPIRED"] ELSE chains[c]]
      /\ links' = [c \in Chains |-> IF c \in Due THEN RevokePending(c) ELSE links[c]]
  BY DEF ExpireDue
<1> QED BY <1>1, <1>2, CloseKeepsHeld

LEMMA ConsumeKeepsHeld ==
    ASSUME HeldInv, SingleInv', NEW n \in Nonces, Consume(n), NEW c, c = tokens[n].chain
    PROVE  /\ HeldInv' /\ c \in Chains /\ Active(c) /\ links' = links
           /\ tokens[n].holder \in HeldBy(c)
           /\ tokens'[n].chain = c /\ tokens'[n].consumed /\ tokens'[n].holder = tokens[n].holder
           /\ \A m \in Nonces \ {n} : tokens'[m] = tokens[m]
           /\ chains'[c].status = "COMPLETED"
           /\ \A e \in Chains : HeldBy(e)' = HeldBy(e) /\ chains'[e].hold = chains[e].hold
           /\ \A e \in Chains \ {c} : chains'[e] = chains[e]
<1>1. /\ Active(c) /\ UNCHANGED <<links, breached, booked>> /\ tokens[n] # NoToken
      /\ tokens' = [tokens EXCEPT ![n].consumed = TRUE]
      /\ chains' = [chains EXCEPT ![c].status = "COMPLETED"]
  BY DEF Consume
<1>2. c \in Chains /\ tokens[n].holder \in HeldBy(c)
  BY <1>1 DEF HeldInv, SingleInv, TokensNameChains, TokensHeld
<1>3. /\ tokens'[n].chain = c /\ tokens'[n].consumed /\ tokens'[n].holder = tokens[n].holder
      /\ \A m \in Nonces \ {n} : tokens'[m] = tokens[m]
  BY <1>1 DEF HeldInv, SingleInv, RowTypes, TokenRow
<1>4. /\ chains'[c].status = "COMPLETED" /\ chains'[c].issuer = chains[c].issuer
      /\ chains'[c].hold = chains[c].hold /\ chains'[c].container = chains[c].container
      /\ \A e \in Chains \ {c} : chains'[e] = chains[e]
  BY <1>1, <1>2 DEF HeldInv, SingleInv, RowTypes, ChainRow
<1>5. chains'[c] # NoChain /\ chains[c] # NoChain
  BY <1>1, <1>4 DEF NoChain, Active
<1>6. HeldBy(c)' = HeldBy(c)
  BY <1>1, <1>4, <1>5 DEF HeldBy
<1>7. \A e \in Chains \ {c} : HeldBy(e)' = HeldBy(e)
  BY <1>1, <1>4, SameChain
<1>8. ChainKept(c)'
  <2>1. ChainKept(c) /\ chains[c].status = "ACTIVE"
    BY <1>1, <1>2 DEF HeldInv, Active
  <2> QED BY <1>1, <1>4, <1>6, <2>1 DEF ChainKept, Active
<1>9. HeldInv'
  <2>1. links' \in [Chains -> Seq(LinkRow)]
    BY <1>1 DEF HeldInv
  <2>2. \A m \in Nonces : \/ tokens'[m] = tokens[m]
                          \/ /\ tokens[m] # NoToken
                             /\ tokens'[m].chain = tokens[m].chain
                             /\ tokens'[m].holder = tokens[m].holder
    BY <1>1, <1>3
  <2> QED BY <1>1, <1>4, <1>6, <1>8, <2>1, <2>2, ChainsMove
<1> QED BY <1>1, <1>2, <1>3, <1>4, <1>6, <1>7, <1>9

LEMMA HoldKeepsHeld ==
    ASSUME HeldInv, SingleInv', NEW c \in Chains, applyVelocityHold(c)
    PROVE  /\ HeldInv' /\ UNCHANGED <<links, tokens>>
           /\ \A e \in Chains : /\ HeldBy(e)' = HeldBy(e)
                                /\ chains'[e].status = chains[e].status
                                /\ chains'[e].issuer = chains[e].issuer
           /\ chains'[c].hold
           /\ \A e \in Chains \ {c} : chains'[e] = chains[e]
<1>1. /\ chains' = [chains EXCEPT ![c].hold = TRUE] /\ UNCHANGED <<links, tokens, booked>>
      /\ breached' \subseteq breached /\ c \in breached
  BY DEF applyVelocityHold
<1>2. /\ chains'[c].status = chains[c].status /\ chains'[c].issuer = chains[c].issuer
      /\ chains'[c].hold = TRUE /\ chains'[c].container = chains[c].container
      /\ \A e \in Chains \ {c} : chains'[e] = chains[e]
  BY <1>1 DEF HeldInv, SingleInv, RowTypes, ChainRow
<1>3. chains[c].status # "NONE"
  BY <1>1 DEF HeldInv, ChainKept
<1>4. chains'[c] # NoChain /\ chains[c] # NoChain
  BY <1>2, <1>3 DEF NoChain
<1>5. HeldBy(c)' = HeldBy(c)
  BY <1>1, <1>2, <1>4 DEF HeldBy
<1>6. \A e \in Chains \ {c} : HeldBy(e)' = HeldBy(e)
  BY <1>1, <1>2, SameChain
<1>7. ChainKept(c)'
  <2>1. ChainKept(c)
    BY DEF HeldInv
  <2> QED BY <1>1, <1>2, <1>3, <1>5, <2>1 DEF ChainKept, Active
<1>8. HeldInv'
  <2>1. links' \in [Chains -> Seq(LinkRow)]
    BY <1>1 DEF HeldInv
  <2> QED BY <1>1, <1>2, <1>5, <1>7, <2>1, ChainsMove
<1> QED BY <1>1, <1>2, <1>5, <1>6, <1>8

LEMMA StepKeepsHeld ==
    ASSUME HeldInv, [ChainNext]_chainVars
    PROVE  HeldInv'
<1>1. SingleInv'
  BY StepKeepsSingle, ChainAssumptions DEF HeldInv
<1>2. breached \subseteq Chains
  BY DEF HeldInv
<1>3. ASSUME UNCHANGED <<chains, links, tokens, booked>>, breached' \subseteq breached
      PROVE  HeldInv'
  BY <1>1, <1>2, <1>3, TailUses
<1>4. ASSUME NEW org \in Orgs, NEW d \in Digests, NEW k \in Containers, RegisterBLAuthority(org, d, k)
      PROVE  HeldInv'
  BY <1>3, <1>4 DEF RegisterBLAuthority
<1>5. ASSUME NEW org \in Orgs, NEW c \in Chains, NEW to \in Orgs, NominateBreached(org, c, to)
      PROVE  HeldInv'
  <2>1. UNCHANGED <<chains, links, tokens, booked>> /\ breached' = breached \union {c}
        /\ chains[c].status # "NONE"
    BY <1>5 DEF NominateBreached, VerifyReleaseHolder, Active
  <2> QED BY <1>1, <1>2, <2>1, TailUses
<1>6. ASSUME NEW c \in Chains, HoldLost(c) PROVE HeldInv'
  BY <1>3, <1>6 DEF HoldLost
<1>7. ASSUME NEW org \in Orgs, NEW c \in Chains, NEW n \in Nonces, ReleaseAuthorization(org, c, n)
      PROVE  HeldInv'
  <2> DEFINE token == [chain |-> c, holder |-> org, expires |-> clock + TokenTTL, consumed |-> FALSE]
  <2>1. /\ UNCHANGED <<chains, links, breached, booked>> /\ Active(c) /\ tailHolder(c) = org
        /\ tokens' = [tokens EXCEPT ![n] = token]
    BY <1>7 DEF ReleaseAuthorization, VerifyReleaseHolder
  <2>2. /\ tokens'[n].chain = c /\ tokens'[n].holder = org
        /\ \A m \in Nonces \ {n} : tokens'[m] = tokens[m]
    BY <2>1 DEF HeldInv, SingleInv, RowTypes
  <2> QED BY <1>1, <1>2, <2>1, <2>2, TailUses
<1>8. ASSUME NEW org \in Orgs, NEW c \in Chains, BookContainer(org, c) PROVE HeldInv'
  <2>1. /\ UNCHANGED <<chains, links, tokens, breached>> /\ Active(c) /\ tailHolder(c) = org
        /\ booked' = booked \union {<<chains[c].container, org>>}
    BY <1>8 DEF BookContainer, VerifyReleaseHolder
  <2> QED BY <1>1, <1>2, <2>1, TailUses
<1>9. ASSUME NEW org \in Orgs, NEW c \in Chains, Accept(org, c) \/ Decline(org, c) PROVE HeldInv'
  BY <1>1, <1>9, ResolveKeepsHeld DEF Accept, Decline
<1>10. ASSUME NEW n \in Nonces, Consume(n) PROVE HeldInv'
  BY <1>1, <1>10, ConsumeKeepsHeld
<1>11. CASE Tick \/ UNCHANGED chainVars
  BY <1>3, <1>11 DEF Tick, chainVars
<1>12. ASSUME NEW org \in Orgs, NEW c \in Chains, NEW d \in Digests, NEW k \in Containers, NEW t \in 1..ChainTTL,
              CreateChain(org, c, d, k, clock + t)
       PROVE  HeldInv'
  <2>1. clock + t \in Int
    BY ChainAssumptions DEF HeldInv, SingleInv, RowTypes
  <2> QED BY <1>1, <1>12, <2>1, CreateKeepsHeld
<1> QED
  BY <1>1, <1>4, <1>5, <1>6, <1>7, <1>8, <1>9, <1>10, <1>11, <1>12, NominateKeepsHeld,
     RevokeKeepsHeld, ExpireKeepsHeld, HoldKeepsHeld
  DEF ChainNext

\* Tokens and container bookings exist only for organisations that have held the
\* chain of the container, whatever nominations, holds and sweeps came between
\* (ReleaseAuthorization, VerifyReleaseHolder).
THEOREM OnlyHoldersAct == ChainSpec => []VerifiedHoldersOnly
<1>1. HeldInv => VerifiedHoldersOnly
  BY DEF HeldInv, SingleInv, TokensNameChains, TokensHeld, BookingsHeld, VerifiedHoldersOnly
<1>2. HeldInv /\ [ChainNext]_chainVars => HeldInv'
  BY StepKeepsHeld
<1> QED BY <1>1, <1>2, InitHeld, PTL DEF ChainSpec

-----------------------------------------------------------------------------
(* The rows implement ReleaseCustody.                                      *)

HolderOf(c) == IF Active(c) THEN tailHolder(c) ELSE Nobody
OfferOf(c) == IF Active(c) /\ Pending(c) THEN Last(links[c]).to ELSE Nobody
TakenBy(c) == {tokens[n].holder : n \in Consumed(c)}

\* The custody of a chain that a step does not touch.
LEMMA SameCustody ==
    ASSUME NEW c, chains'[c] = chains[c], links'[c] = links[c]
    PROVE  HolderOf(c)' = HolderOf(c) /\ OfferOf(c)' = OfferOf(c)
<1>1. /\ tailHolder(c)' = tailHolder(c) /\ (Pending(c)' <=> Pending(c)) /\ (Active(c)' <=> Active(c))
  BY SameChain
<1> QED BY <1>1 DEF HolderOf, OfferOf

LEMMA SameTaken ==
    ASSUME NEW c, \A n \in Nonces : \/ tokens'[n] = tokens[n]
                                    \/ ~ tokens'[n].consumed /\ ~ tokens[n].consumed
    PROVE  TakenBy(c)' = TakenBy(c)
<1>1. Consumed(c)' = Consumed(c)
  BY DEF Consumed
<1>2. \A n \in Consumed(c) : tokens'[n] = tokens[n]
  BY DEF Consumed
<1> QED BY <1>1, <1>2 DEF TakenBy

\* A step that changes nothing that custody is about.
LEMMA CustodyStutters ==
    ASSUME UNCHANGED <<chains, links>>,
           \A n \in Nonces : \/ tokens'[n] = tokens[n]
                             \/ ~ tokens'[n].consumed /\ ~ tokens[n].consumed
    PROVE  UNCHANGED Custody!custodyVars
<1>1. \A c \in Chains : /\ HolderOf(c)' = HolderOf(c) /\ OfferOf(c)' = OfferOf(c)
                        /\ TakenBy(c)' = TakenBy(c) /\ HeldBy(c)' = HeldBy(c)
  BY SameCustody, SameTaken, SameChain
<1> QED BY <1>1 DEF Custody!custodyVars, HolderOf, OfferOf, TakenBy

LEMMA CreateIsOpen ==
    ASSUME HeldInv, SingleInv', NEW org \in Orgs, NEW c \in Chains,
           NEW d \in Digests, NEW k \in Containers, NEW t \in Int,
           CreateChain(org, c, d, k, t)
    PROVE  Custody!Open(c, org)
<1>1. /\ chains[c].status = "NONE" /\ HeldBy(c)' = {org}
      /\ chains'[c].status = "ACTIVE" /\ chains'[c].hold = chains[c].hold /\ chains'[c].issuer = org
      /\ links' = links /\ links[c] = <<>> /\ tokens' = tokens
      /\ \A e \in Chains \ {c} : chains'[e] = chains[e]
  BY CreateKeepsHeld, SMT
<1>2. \A e \in Chains \ {c} : /\ HolderOf(e)' = HolderOf(e) /\ OfferOf(e)' = OfferOf(e)
                              /\ HeldBy(e)' = HeldBy(e)
  BY <1>1, SameCustody, SameChain
<1>3. \A e \in Chains : TakenBy(e)' = TakenBy(e)
  BY <1>1, SameTaken
<1>4. HolderOf(c)' = org /\ OfferOf(c)' = Nobody /\ OfferOf(c) = Nobody
  BY <1>1 DEF HolderOf, OfferOf, Active, tailHolder, Pending
<1>5. \A e \in Chains : chains'[e].hold = chains[e].hold
  BY <1>1
<1>6. \A e \in Chains : chains'[e].status = IF e = c THEN "ACTIVE" ELSE chains[e].status
  BY <1>1
<1> QED BY <1>1, <1>2, <1>3, <1>4, <1>5, <1>6 DEF Custody!Open, HolderOf, OfferOf, TakenBy

LEMMA NominateIsOffer ==
    ASSUME HeldInv, SingleInv', NEW org \in Orgs, NEW c \in Chains, NEW to \in Orgs, Nominate(org, c, to)
    PROVE  Custody!Offer(c, to)
<1>1. /\ Active(c) /\ ~ chains[c].hold /\ ~ Pending(c) /\ tailHolder(c) = org /\ to # org
      /\ UNCHANGED <<chains, tokens>>
      /\ Pending(c)' /\ Last(links'[c]).to = to /\ tailHolder(c)' = org
      /\ HeldBy(c)' = HeldBy(c)
      /\ \A e \in Chains \ {c} : links'[e] = links[e]
  BY NominateKeepsHeld
<1>2. \A e \in Chains \ {c} : /\ HolderOf(e)' = HolderOf(e) /\ OfferOf(e)' = OfferOf(e)
                              /\ HeldBy(e)' = HeldBy(e)
  BY <1>1, SameCustody, SameChain
<1>3. \A e \in Chains : TakenBy(e)' = TakenBy(e)
  BY <1>1, SameTaken
<1>4. /\ HolderOf(c)' = org /\ HolderOf(c) = org
      /\ OfferOf(c)' = to /\ OfferOf(c) = Nobody
      /\ chains[c].status = "ACTIVE"
  BY <1>1 DEF HolderOf, OfferOf, Active
<1> QED BY <1>1, <1>2, <1>3, <1>4
        DEF Custody!Offer, Custody!Moving, HolderOf, OfferOf, TakenBy

LEMMA ResolveIsTakeOrRefuse ==
    ASSUME HeldInv, SingleInv', NEW org \in Orgs, NEW c \in Chains, NEW event,
           NEW state \in {"ACCEPTED", "DECLINED"}, resolveLink(org, c, state, event)
    PROVE  /\ state = "ACCEPTED" => Custody!Take(c)
           /\ state = "DECLINED" => Custody!Refuse(c)
<1>1. /\ Active(c) /\ ~ chains[c].hold /\ Pending(c) /\ Last(links[c]).to = org
      /\ UNCHANGED <<chains, tokens>>
      /\ ~ Pending(c)'
      /\ state = "ACCEPTED" => tailHolder(c)' = org /\ HeldBy(c)' = HeldBy(c) \union {org}
      /\ state = "DECLINED" => tailHolder(c)' = tailHolder(c) /\ HeldBy(c)' = HeldBy(c)
      /\ \A e \in Chains \ {c} : links'[e] = links[e]
  BY ResolveKeepsHeld
<1>2. \A e \in Chains \ {c} : /\ HolderOf(e)' = HolderOf(e) /\ OfferOf(e)' = OfferOf(e)
                              /\ HeldBy(e)' = HeldBy(e)
  BY <1>1, SameCustody, SameChain
<1>3. \A e \in Chains : TakenBy(e)' = TakenBy(e)
  BY <1>1, SameTaken
<1>4. /\ OfferOf(c) = org /\ OfferOf(c)' = Nobody /\ org # Nobody
      /\ chains[c].status = "ACTIVE"
      /\ HolderOf(c) = tailHolder(c) /\ HolderOf(c)' = tailHolder(c)'
  BY <1>1, ChainAssumptions DEF HolderOf, OfferOf, Active
<1>5. ASSUME state = "ACCEPTED" PROVE Custody!Take(c)
  BY <1>1, <1>2, <1>3, <1>4, <1>5 DEF Custody!Take, Custody!Moving, HolderOf, OfferOf, TakenBy
<1>6. ASSUME state = "DECLINED" PROVE Custody!Refuse(c)
  BY <1>1, <1>2, <1>3, <1>4, <1>6 DEF Custody!Refuse, Custody!Moving, HolderOf, OfferOf, TakenBy
<1> QED BY <1>5, <1>6

LEMMA ChainsClose ==
    ASSUME NEW S \in SUBSET Chains, \A c \in S : Active(c), NEW s \in {"REVOKED", "EXPIRED"},
           tokens' = tokens,
           \A e \in Chains : HeldBy(e)' = HeldBy(e) /\ chains'[e].hold = chains[e].hold,
           \A e \in S : chains'[e].status = s,
           \A e \in Chains \ S : chains'[e] = chains[e] /\ links'[e] = links[e]
    PROVE  Custody!Close(S)
<1>1. \A e \in Chains \ S : HolderOf(e)' = HolderOf(e) /\ OfferOf(e)' = OfferOf(e)
  BY SameCustody
<1>2. \A e \in Chains : TakenBy(e)' = TakenBy(e)
  BY SameTaken
<1>3. \A e \in S : HolderOf(e)' = Nobody /\ OfferOf(e)' = Nobody
  BY DEF HolderOf, OfferOf, Active
<1>4. \A e \in Chains : chains'[e].status = IF e \in S THEN s ELSE chains[e].status
  OBVIOUS
<1>5. \A c \in S : chains[c].status = "ACTIVE" /\ c \in Chains
  BY DEF Active
<1> QED BY <1>1, <1>2, <1>3, <1>4, <1>5 DEF Custody!Close, Custody!Closed, HolderOf, OfferOf, TakenBy

\* The gate takes the container once, for a party that has held the chain.
LEMMA ConsumeIsHandOver ==
    ASSUME HeldInv, SingleInv', NEW n \in Nonces, Consume(n),
           NEW c, c = tokens[n].chain, NEW o, o = tokens[n].holder
    PROVE  c \in Chains /\ o \in Orgs /\ Custody!HandOver(c, o)
<1>1. /\ c \in Chains /\ Active(c) /\ links' = links
      /\ o \in HeldBy(c)
      /\ tokens'[n].chain = c /\ tokens'[n].consumed /\ tokens'[n].holder = o
      /\ \A m \in Nonces \ {n} : tokens'[m] = tokens[m]
      /\ chains'[c].status = "COMPLETED"
      /\ \A e \in Chains : HeldBy(e)' = HeldBy(e) /\ chains'[e].hold = chains[e].hold
      /\ \A e \in Chains \ {c} : chains'[e] = chains[e]
  BY ConsumeKeepsHeld
<1>2. o \in Orgs
  <2>1. o \in Orgs \union {Nobody}
    BY DEF HeldInv, SingleInv, RowTypes, TokenRow
  <2>2. ChainKept(c) /\ chains[c].status = "ACTIVE" /\ links[c] \in Seq(LinkRow)
    BY <1>1 DEF HeldInv, Active
  <2>3. \A i \in DOMAIN links[c] : links[c][i].to \in Orgs
    <3> TAKE i \in DOMAIN links[c]
    <3>1. links[c][i] \in LinkRow
      BY <2>2
    <3> QED BY <3>1 DEF LinkRow
  <2> QED BY <1>1, <2>2, <2>3 DEF HeldBy, ChainKept
<1>3. \A m \in Nonces : tokens[m].chain = c => ~ tokens[m].consumed
  BY <1>1 DEF HeldInv, SingleInv, ReleasedIsCompleted, Active
<1>4. TakenBy(c) = {} /\ TakenBy(c)' = {o}
  <2>1. Consumed(c) = {} /\ Consumed(c)' = {n}
    BY <1>1, <1>3 DEF Consumed
  <2> QED BY <1>1, <2>1 DEF TakenBy
<1>5. \A e \in Chains \ {c} : TakenBy(e)' = TakenBy(e)
  <2> TAKE e \in Chains \ {c}
  <2>1. Consumed(e)' = Consumed(e) /\ n \notin Consumed(e)
    BY <1>1 DEF Consumed
  <2>2. \A m \in Consumed(e) : tokens'[m] = tokens[m]
    BY <1>1, <2>1 DEF Consumed
  <2> QED BY <2>1, <2>2 DEF TakenBy
<1>6. \A e \in Chains \ {c} : HolderOf(e)' = HolderOf(e) /\ OfferOf(e)' = OfferOf(e)
  BY <1>1, SameCustody
<1>7. HolderOf(c)' = Nobody /\ OfferOf(c)' = Nobody /\ chains[c].status = "ACTIVE"
  BY <1>1 DEF HolderOf, OfferOf, Active
<1>8. \A e \in Chains : chains'[e].status = IF e = c THEN "COMPLETED" ELSE chains[e].status
  BY <1>1
<1>9. Custody!End(c, "COMPLETED")
  <2>1. [e \in Chains |-> chains'[e].status] = [[e \in Chains |-> chains[e].status] EXCEPT ![c] = "COMPLETED"]
    BY <1>8
  <2>2. [e \in Chains |-> HolderOf(e)'] = [[e \in Chains |-> HolderOf(e)] EXCEPT ![c] = Nobody]
    BY <1>6, <1>7
  <2>3. [e \in Chains |-> OfferOf(e)'] = [[e \in Chains |-> OfferOf(e)] EXCEPT ![c] = Nobody]
    BY <1>6, <1>7
  <2>4. {e \in Chains : chains'[e].hold} = {e \in Chains : chains[e].hold}
    BY <1>1
  <2>5. [e \in Chains |-> HeldBy(e)'] = [e \in Chains |-> HeldBy(e)]
    BY <1>1
  <2> QED BY <1>1, <1>7, <2>1, <2>2, <2>3, <2>4, <2>5 DEF Custody!End, HolderOf, OfferOf
<1>10. Custody!HandOver(c, o)
  BY <1>1, <1>4, <1>5, <1>9 DEF Custody!HandOver, TakenBy
<1> QED BY <1>1, <1>2, <1>10

\* A hold changes neither the holder nor the offer.
LEMMA HoldKeepsCustody ==
    ASSUME HeldInv, SingleInv', NEW c \in Chains, applyVelocityHold(c)
    PROVE  \A e \in Chains : HolderOf(e)' = HolderOf(e) /\ OfferOf(e)' = OfferOf(e)
<1>1. /\ UNCHANGED <<links, tokens>>
      /\ \A e \in Chains : /\ chains'[e].status = chains[e].status
                           /\ chains'[e].issuer = chains[e].issuer
  BY HoldKeepsHeld
<1>2. \A e \in Chains : HolderOf(e)' = HolderOf(e) /\ OfferOf(e)' = OfferOf(e)
  <2> TAKE e \in Chains
  <2>1. tailHolder(e)' = tailHolder(e)
    <3>1. CASE links[e] = <<>>
      BY <1>1, <3>1 DEF tailHolder
    <3>2. CASE links[e] # <<>>
      <4>1. links[e] \in Seq(LinkRow) /\ Len(links[e]) \in DOMAIN links[e]
        BY <3>2 DEF HeldInv
      <4>2. PICK l \in LinkRow : l = Last(links[e])
        BY <4>1 DEF Last
      <4>3. l.state \in {"PENDING", "ACCEPTED", "DECLINED", "REVOKED"}
        BY DEF LinkRow
      <4> QED BY <1>1, <3>2, <4>2, <4>3 DEF tailHolder
    <3> QED BY <3>1, <3>2
  <2> QED BY <1>1, <2>1 DEF HolderOf, OfferOf, Active, Pending
<1> QED BY <1>2

LEMMA HoldIsFreeze ==
    ASSUME HeldInv, SingleInv', NEW c \in Chains, applyVelocityHold(c)
    PROVE  Custody!Freeze(c)
<1>1. /\ UNCHANGED <<links, tokens>>
      /\ \A e \in Chains : /\ HeldBy(e)' = HeldBy(e)
                           /\ chains'[e].status = chains[e].status
                           /\ chains'[e].issuer = chains[e].issuer
      /\ chains'[c].hold
      /\ \A e \in Chains \ {c} : chains'[e] = chains[e]
  BY HoldKeepsHeld
<1>2. \A e \in Chains : HolderOf(e)' = HolderOf(e) /\ OfferOf(e)' = OfferOf(e)
  BY HoldKeepsCustody
<1>3. \A e \in Chains : TakenBy(e)' = TakenBy(e)
  BY <1>1, SameTaken
<1>4. {e \in Chains : chains'[e].hold} = {e \in Chains : chains[e].hold} \union {c}
  BY <1>1
<1> QED BY <1>1, <1>2, <1>3, <1>4 DEF Custody!Freeze, HolderOf, OfferOf, TakenBy

LEMMA InitCustody == ChainInit => Custody!CustodyInit
<1> SUFFICES ASSUME ChainInit PROVE Custody!CustodyInit
  OBVIOUS
<1>1. /\ chains = [c \in Chains |-> NoChain] /\ links = [c \in Chains |-> <<>>]
      /\ tokens = [n \in Nonces |-> NoToken]
  BY DEF ChainInit
<1>2. NoChain.status = "NONE" /\ NoChain.hold = FALSE /\ NoToken.consumed = FALSE
  BY DEF NoChain, NoToken
<1>3. \A c \in Chains : /\ chains[c].status = "NONE" /\ ~ chains[c].hold /\ ~ Active(c)
                        /\ HeldBy(c) = {} /\ Consumed(c) = {}
  BY <1>1, <1>2 DEF HeldBy, Consumed, Active
<1> QED BY <1>3 DEF Custody!CustodyInit

LEMMA StepIsCustody ==
    ASSUME HeldInv, [ChainNext]_chainVars
    PROVE  [Custody!CustodyNext]_Custody!custodyVars
<1>1. SingleInv'
  BY StepKeepsSingle, ChainAssumptions DEF HeldInv
<1>2. ASSUME UNCHANGED <<chains, links, tokens>> PROVE UNCHANGED Custody!custodyVars
  BY <1>2, CustodyStutters
<1>3. ASSUME NEW org \in Orgs, NEW d \in Digests, NEW k \in Containers, RegisterBLAuthority(org, d, k)
      PROVE  UNCHANGED Custody!custodyVars
  BY <1>2, <1>3 DEF RegisterBLAuthority
<1>4. ASSUME NEW org \in Orgs, NEW c \in Chains, NEW d \in Digests, NEW k \in Containers, NEW t \in 1..ChainTTL,
             CreateChain(org, c, d, k, clock + t)
      PROVE  Custody!CustodyNext
  <2>1. clock + t \in Int
    BY ChainAssumptions DEF HeldInv, SingleInv, RowTypes
  <2>2. Custody!Open(c, org)
    BY <1>1, <1>4, <2>1, CreateIsOpen
  <2> QED BY <2>2 DEF Custody!CustodyNext
<1>5. ASSUME NEW org \in Orgs, NEW c \in Chains, NEW to \in Orgs, Nominate(org, c, to)
      PROVE  Custody!CustodyNext
  BY <1>1, <1>5, NominateIsOffer DEF Custody!CustodyNext
<1>6. ASSUME NEW org \in Orgs, NEW c \in Chains, NEW to \in Orgs, NominateBreached(org, c, to)
      PROVE  UNCHANGED Custody!custodyVars
  BY <1>2, <1>6 DEF NominateBreached
<1>7. ASSUME NEW org \in Orgs, NEW c \in Chains, Accept(org, c) PROVE Custody!CustodyNext
  BY <1>1, <1>7, ResolveIsTakeOrRefuse DEF Accept, Custody!CustodyNext
<1>8. ASSUME NEW org \in Orgs, NEW c \in Chains, Decline(org, c) PROVE Custody!CustodyNext
  BY <1>1, <1>8, ResolveIsTakeOrRefuse DEF Decline, Custody!CustodyNext
<1>9. ASSUME NEW org \in Orgs, NEW c \in Chains, Revoke(org, c) PROVE Custody!CustodyNext
  <2>1. /\ {c} \in SUBSET Chains /\ \A e \in {c} : Active(e)
        /\ tokens' = tokens
        /\ \A e \in Chains : HeldBy(e)' = HeldBy(e) /\ chains'[e].hold = chains[e].hold
        /\ \A e \in {c} : chains'[e].status = "REVOKED"
        /\ \A e \in Chains \ {c} : chains'[e] = chains[e] /\ links'[e] = links[e]
    BY <1>1, <1>9, RevokeKeepsHeld
  <2>2. Custody!Close({c})
    BY <2>1, ChainsClose
  <2> QED BY <2>1, <2>2 DEF Custody!CustodyNext
<1>10. ASSUME NEW org \in Orgs, NEW c \in Chains, NEW n \in Nonces, ReleaseAuthorization(org, c, n)
       PROVE  UNCHANGED Custody!custodyVars
  <2> DEFINE token == [chain |-> c, holder |-> org, expires |-> clock + TokenTTL, consumed |-> FALSE]
  <2>1. /\ UNCHANGED <<chains, links>> /\ tokens' = [tokens EXCEPT ![n] = token] /\ tokens[n] = NoToken
    BY <1>10 DEF ReleaseAuthorization
  <2>2. token.consumed = FALSE /\ NoToken.consumed = FALSE
    BY DEF NoToken
  <2> HIDE DEF token
  <2>3. \A m \in Nonces : \/ tokens'[m] = tokens[m]
                          \/ ~ tokens'[m].consumed /\ ~ tokens[m].consumed
    BY <2>1, <2>2 DEF HeldInv, SingleInv, RowTypes
  <2> QED BY <2>1, <2>3, CustodyStutters
<1>11. ASSUME NEW org \in Orgs, NEW c \in Chains, BookContainer(org, c)
       PROVE  UNCHANGED Custody!custodyVars
  BY <1>2, <1>11 DEF BookContainer
<1>12. ASSUME NEW c \in Chains, applyVelocityHold(c) PROVE Custody!CustodyNext
  BY <1>1, <1>12, HoldIsFreeze DEF Custody!CustodyNext
<1>13. ASSUME NEW c \in Chains, HoldLost(c) PROVE UNCHANGED Custody!custodyVars
  BY <1>2, <1>13 DEF HoldLost
<1>14. ASSUME NEW n \in Nonces, Consume(n) PROVE Custody!CustodyNext
  <2>1. PICK c, o : c = tokens[n].chain /\ o = tokens[n].holder
    OBVIOUS
  <2>2. c \in Chains /\ o \in Orgs /\ Custody!HandOver(c, o)
    BY <1>1, <1>14, <2>1, ConsumeIsHandOver
  <2> QED BY <2>2 DEF Custody!CustodyNext
<1>15. ASSUME ExpireDue PROVE Custody!CustodyNext
  <2>1. PICK S : S = Due
    OBVIOUS
  <2>2. /\ S \in SUBSET Chains /\ \A c \in S : Active(c)
        /\ tokens' = tokens
        /\ \A e \in Chains : HeldBy(e)' = HeldBy(e) /\ chains'[e].hold = chains[e].hold
        /\ \A e \in S : chains'[e].status = "EXPIRED"
        /\ \A e \in Chains \ S : chains'[e] = chains[e] /\ links'[e] = links[e]
    BY <1>1, <1>15, <2>1, ExpireKeepsHeld
  <2>3. Custody!Close(S)
    BY <2>2, ChainsClose
  <2> QED BY <2>2, <2>3 DEF Custody!CustodyNext
<1>16. ASSUME Tick \/ UNCHANGED chainVars PROVE UNCHANGED Custody!custodyVars
  BY <1>2, <1>16 DEF Tick, chainVars
<1> QED
  BY <1>3, <1>4, <1>5, <1>6, <1>7, <1>8, <1>9, <1>10, <1>11, <1>12, <1>13, <1>14, <1>15, <1>16
  DEF ChainNext

\* The rows of chains, links and tokens keep the promise of ReleaseCustody:
\* custody moves by acceptance only, never on hold, and ends in one hand-over
\* to a party that has held it (internal/securechain/store.go, all operations).
THEOREM ChainImplementsCustody == ChainSpec => ImplementsCustody
<1>1. HeldInv /\ [ChainNext]_chainVars => HeldInv'
  BY StepKeepsHeld
<1>2. HeldInv /\ [ChainNext]_chainVars => [Custody!CustodyNext]_Custody!custodyVars
  BY StepIsCustody
<1> QED BY <1>1, <1>2, InitHeld, InitCustody, PTL
        DEF ChainSpec, ImplementsCustody, Custody!CustodySpec

-----------------------------------------------------------------------------
(* The audit trail.                                                        *)

AuditEvents == {"chain_created", "chain_revoked", "chain_expired", "release_consumed", "release_authorized",
                "velocity_flag_raised", "link_nominated", "link_accepted", "link_declined"}

AuditRow == [event : AuditEvents, org : Orgs \union {Nobody}]

\* One more entry is the latest of its kind and of no other.
LEMMA LatestEntry ==
    ASSUME NEW entries \in Seq(AuditRow), NEW e \in AuditRow, NEW events
    PROVE  Latest(Append(entries, e), events) = IF e.event \in events THEN {e} ELSE Latest(entries, events)
<1> DEFINE n == Len(entries)
           next == Append(entries, e)
           last(s) == {j \in DOMAIN s : s[j].event \in events
                                        /\ \A k \in DOMAIN s : s[k].event \in events => k <= j}
<1>1. /\ n \in Nat /\ DOMAIN entries = 1..n /\ DOMAIN next = 1..(n + 1) /\ next[n + 1] = e
      /\ \A i \in 1..n : next[i] = entries[i]
  OBVIOUS
<1>2. /\ Latest(next, events) = {next[i] : i \in last(next)}
      /\ Latest(entries, events) = {entries[i] : i \in last(entries)}
  BY DEF Latest
<1> HIDE DEF next, n
<1>3. ASSUME e.event \in events PROVE Latest(next, events) = {e}
  <2>1. last(next) = {n + 1}
    BY <1>1, <1>3
  <2> QED
    BY <1>1, <1>2, <1>3, <2>1
<1>4. ASSUME e.event \notin events PROVE Latest(next, events) = Latest(entries, events)
  <2>1. last(next) = last(entries) /\ last(entries) \subseteq 1..n
    BY <1>1, <1>4
  <2> QED
    BY <1>1, <1>2, <1>4, <2>1
<1> QED
  BY <1>3, <1>4 DEF next

\* What AuditExplainsChain says of one chain but for its hold, with its offer
\* or Nobody; and, for the induction, a chain that does not exist has no entries.
Explained(entries, status, holder, offer) ==
    /\ {statusAfter[e.event] : e \in Latest(entries, DOMAIN statusAfter)} = {status} \ {"NONE"}
    /\ status = "NONE" => entries = <<>>
    /\ status = "ACTIVE" =>
        /\ {e.org : e \in Latest(entries, holderEvents)} = {holder}
        /\ {e.org : e \in {f \in Latest(entries, offerEvents) : f.event = "link_nominated"}} = {offer} \ {Nobody}

LEMMA EventKinds ==
    /\ DOMAIN statusAfter = {"chain_created", "chain_revoked", "chain_expired", "release_consumed"}
    /\ statusAfter["chain_created"] = "ACTIVE" /\ statusAfter["chain_revoked"] = "REVOKED"
    /\ statusAfter["chain_expired"] = "EXPIRED" /\ statusAfter["release_consumed"] = "COMPLETED"
BY DEF statusAfter

LEMMA NoEntries ==
    ASSUME NEW events
    PROVE  Latest(<<>>, events) = {}
BY DEF Latest

\* An entry of an event that says nothing of status, holder and offer.
LEMMA NoteEntered ==
    ASSUME NEW entries \in Seq(AuditRow), NEW e \in AuditRow, NEW status, NEW holder, NEW offer,
           Explained(entries, status, holder, offer), status # "NONE",
           e.event \in {"velocity_flag_raised", "release_authorized"}
    PROVE  Explained(Append(entries, e), status, holder, offer)
<1>1. e.event \notin DOMAIN statusAfter /\ e.event \notin holderEvents /\ e.event \notin offerEvents
  BY EventKinds DEF holderEvents, offerEvents
<1>2. \A events \in {DOMAIN statusAfter, holderEvents, offerEvents} :
        Latest(Append(entries, e), events) = Latest(entries, events)
  BY <1>1, LatestEntry
<1> QED
  BY <1>2 DEF Explained

LEMMA NominationEntered ==
    ASSUME NEW entries \in Seq(AuditRow), NEW e \in AuditRow, NEW holder, NEW offer,
           Explained(entries, "ACTIVE", holder, offer), e.event = "link_nominated", e.org # Nobody
    PROVE  Explained(Append(entries, e), "ACTIVE", holder, e.org)
<1>1. e.event \notin DOMAIN statusAfter /\ e.event \notin holderEvents /\ e.event \in offerEvents
  BY EventKinds DEF holderEvents, offerEvents
<1>2. /\ Latest(Append(entries, e), DOMAIN statusAfter) = Latest(entries, DOMAIN statusAfter)
      /\ Latest(Append(entries, e), holderEvents) = Latest(entries, holderEvents)
      /\ Latest(Append(entries, e), offerEvents) = {e}
  BY <1>1, LatestEntry
<1>3. {x.org : x \in {f \in {e} : f.event = "link_nominated"}} = {e.org} \ {Nobody}
  OBVIOUS
<1> QED
  BY <1>2, <1>3 DEF Explained

LEMMA AnswerEntered ==
    ASSUME NEW entries \in Seq(AuditRow), NEW e \in AuditRow, NEW holder, NEW offer,
           Explained(entries, "ACTIVE", holder, offer), e.event \in {"link_accepted", "link_declined"}
    PROVE  Explained(Append(entries, e), "ACTIVE", IF e.event = "link_accepted" THEN e.org ELSE holder, Nobody)
<1>1. e.event \notin DOMAIN statusAfter /\ e.event \in offerEvents
      /\ (e.event \in holderEvents <=> e.event = "link_accepted")
  BY EventKinds DEF holderEvents, offerEvents
<1>2. /\ Latest(Append(entries, e), DOMAIN statusAfter) = Latest(entries, DOMAIN statusAfter)
      /\ Latest(Append(entries, e), offerEvents) = {e}
      /\ Latest(Append(entries, e), holderEvents) =
           IF e.event = "link_accepted" THEN {e} ELSE Latest(entries, holderEvents)
  BY <1>1, LatestEntry
<1>3. {x.org : x \in {f \in {e} : f.event = "link_nominated"}} = {Nobody} \ {Nobody}
  OBVIOUS
<1>4. {x.org : x \in Latest(Append(entries, e), holderEvents)} =
        {IF e.event = "link_accepted" THEN e.org ELSE holder}
  BY <1>2 DEF Explained
<1> QED
  BY <1>2, <1>3, <1>4 DEF Explained

LEMMA EndEntered ==
    ASSUME NEW entries \in Seq(AuditRow), NEW e \in AuditRow, NEW status, NEW holder, NEW offer,
           \/ e.event = "chain_revoked" /\ status = "REVOKED"
           \/ e.event = "chain_expired" /\ status = "EXPIRED"
           \/ e.event = "release_consumed" /\ status = "COMPLETED"
    PROVE  Explained(Append(entries, e), status, holder, offer)
<1>1. e.event \in DOMAIN statusAfter /\ statusAfter[e.event] = status /\ status \notin {"NONE", "ACTIVE"}
  BY EventKinds
<1>2. Latest(Append(entries, e), DOMAIN statusAfter) = {e}
  BY <1>1, LatestEntry
<1> QED
  BY <1>1, <1>2 DEF Explained

LEMMA StartEntered ==
    ASSUME NEW e \in AuditRow, e.event = "chain_created"
    PROVE  Explained(Append(<<>>, e), "ACTIVE", e.org, Nobody)
<1>1. e.event \in DOMAIN statusAfter /\ e.event \in holderEvents /\ e.event \notin offerEvents
      /\ statusAfter[e.event] = "ACTIVE"
  BY EventKinds DEF holderEvents, offerEvents
<1>2. <<>> \in Seq(AuditRow)
  OBVIOUS
<1>3. /\ Latest(Append(<<>>, e), DOMAIN statusAfter) = {e}
      /\ Latest(Append(<<>>, e), holderEvents) = {e}
      /\ Latest(Append(<<>>, e), offerEvents) = {}
  BY <1>1, <1>2, LatestEntry, NoEntries
<1> QED
  BY <1>1, <1>3 DEF Explained

\* The holder and the offer are those of the custody of ReleaseCustody.
AuditInv ==
    /\ HeldInv
    /\ trail \in [Chains -> Seq(AuditRow)]
    /\ \A c \in Chains : Explained(trail[c], chains[c].status, HolderOf(c), OfferOf(c))

\* The chains of S are accounted for; nothing happens to the others.
LEMMA OthersExplained ==
    ASSUME AuditInv, HeldInv', NEW S \in SUBSET Chains, trail' \in [Chains -> Seq(AuditRow)],
           \A e \in Chains \ S : trail'[e] = trail[e] /\ chains'[e] = chains[e] /\ links'[e] = links[e],
           \A e \in S : Explained(trail'[e], chains'[e].status, HolderOf(e)', OfferOf(e)')
    PROVE  AuditInv'
<1>1. ASSUME NEW e \in Chains \ S PROVE Explained(trail'[e], chains'[e].status, HolderOf(e)', OfferOf(e)')
  <2>1. HolderOf(e)' = HolderOf(e) /\ OfferOf(e)' = OfferOf(e)
    BY SameCustody
  <2> QED
    BY <2>1 DEF AuditInv
<1>2. ASSUME NEW e \in Chains PROVE Explained(trail'[e], chains'[e].status, HolderOf(e)', OfferOf(e)')
  BY <1>1
<1> QED
  BY <1>2 DEF AuditInv

\* One entry is written for one chain.
LEMMA EntryWritten ==
    ASSUME trail \in [Chains -> Seq(AuditRow)], NEW c \in Chains, NEW event \in AuditEvents,
           NEW org \in Orgs \union {Nobody}, audit(c, event, org),
           NEW e, e = [event |-> event, org |-> org]
    PROVE  /\ e \in AuditRow /\ e.event = event /\ e.org = org
           /\ trail[c] \in Seq(AuditRow)
           /\ trail' \in [Chains -> Seq(AuditRow)] /\ trail'[c] = Append(trail[c], e)
           /\ \A d \in Chains \ {c} : trail'[d] = trail[d]
<1>1. e \in AuditRow /\ e.event = event /\ e.org = org
  BY DEF AuditRow
<1>2. trail' = [trail EXCEPT ![c] = Append(trail[c], e)]
  BY DEF audit
<1>3. Append(trail[c], e) \in Seq(AuditRow)
  BY <1>1
<1> QED
  BY <1>1, <1>2, <1>3

\* The one chain an entry is written for is accounted for with it.
LEMMA EntryExplains ==
    ASSUME AuditInv, HeldInv', NEW c \in Chains, trail' \in [Chains -> Seq(AuditRow)],
           \A d \in Chains \ {c} : trail'[d] = trail[d] /\ chains'[d] = chains[d] /\ links'[d] = links[d],
           Explained(trail'[c], chains'[c].status, HolderOf(c)', OfferOf(c)')
    PROVE  AuditInv'
<1>1. PICK S \in SUBSET Chains : S = {c}
  OBVIOUS
<1>2. /\ \A d \in Chains \ S : trail'[d] = trail[d] /\ chains'[d] = chains[d] /\ links'[d] = links[d]
      /\ \A d \in S : Explained(trail'[d], chains'[d].status, HolderOf(d)', OfferOf(d)')
  BY <1>1
<1> QED
  BY <1>2, OthersExplained

LEMMA CreateExplained ==
    ASSUME AuditInv, SingleInv', NEW org \in Orgs, NEW c \in Chains,
           NEW d \in Digests, NEW k \in Containers, NEW t \in Int,
           CreateChain(org, c, d, k, t)
    PROVE  AuditInv'
<1>1. /\ HeldInv' /\ chains[c].status = "NONE"
      /\ chains'[c].status = "ACTIVE" /\ chains'[c].issuer = org
      /\ links' = links /\ links[c] = <<>>
      /\ \A e \in Chains \ {c} : chains'[e] = chains[e]
  BY CreateKeepsHeld, SMT DEF AuditInv
<1>2. HolderOf(c)' = org /\ OfferOf(c)' = Nobody
  BY <1>1 DEF HolderOf, OfferOf, Active, tailHolder, Pending
<1>3. audit(c, "chain_created", org)
  BY DEF CreateChain
<1>4. PICK e : e = [event |-> "chain_created", org |-> org]
  OBVIOUS
<1>5. /\ e \in AuditRow /\ e.event = "chain_created" /\ e.org = org
      /\ trail' \in [Chains -> Seq(AuditRow)] /\ trail'[c] = Append(trail[c], e)
      /\ \A f \in Chains \ {c} : trail'[f] = trail[f]
  <2>1. trail \in [Chains -> Seq(AuditRow)] /\ "chain_created" \in AuditEvents /\ org \in Orgs \union {Nobody}
    BY DEF AuditInv, AuditEvents
  <2> QED
    BY <1>3, <1>4, <2>1, EntryWritten
<1>6. trail[c] = <<>>
  BY <1>1 DEF AuditInv, Explained
<1>7. Explained(trail'[c], "ACTIVE", org, Nobody)
  BY <1>5, <1>6, StartEntered
<1> QED
  BY <1>1, <1>2, <1>5, <1>7, EntryExplains

LEMMA ResolveExplained ==
    ASSUME AuditInv, SingleInv', NEW org \in Orgs, NEW c \in Chains, Accept(org, c) \/ Decline(org, c)
    PROVE  AuditInv'
<1>1. PICK state \in {"ACCEPTED", "DECLINED"}, event \in {"link_accepted", "link_declined"} :
        resolveLink(org, c, state, event) /\ (state = "ACCEPTED" <=> event = "link_accepted")
  BY DEF Accept, Decline
<1>2. /\ HeldInv' /\ Active(c) /\ UNCHANGED chains /\ ~ Pending(c)'
      /\ state = "ACCEPTED" => tailHolder(c)' = org
      /\ state = "DECLINED" => tailHolder(c)' = tailHolder(c)
      /\ \A e \in Chains \ {c} : links'[e] = links[e]
  BY <1>1, ResolveKeepsHeld DEF AuditInv
<1>3. /\ HolderOf(c)' = IF event = "link_accepted" THEN org ELSE HolderOf(c)
      /\ OfferOf(c)' = Nobody /\ chains[c].status = "ACTIVE" /\ chains'[c].status = "ACTIVE"
  BY <1>1, <1>2 DEF HolderOf, OfferOf, Active
<1>4. audit(c, event, org)
  BY <1>1 DEF resolveLink
<1>5. PICK e : e = [event |-> event, org |-> org]
  OBVIOUS
<1>6. /\ e \in AuditRow /\ e.event = event /\ e.org = org /\ trail[c] \in Seq(AuditRow)
      /\ trail' \in [Chains -> Seq(AuditRow)] /\ trail'[c] = Append(trail[c], e)
      /\ \A f \in Chains \ {c} : trail'[f] = trail[f]
  <2>1. trail \in [Chains -> Seq(AuditRow)] /\ event \in AuditEvents /\ org \in Orgs \union {Nobody}
    BY DEF AuditInv, AuditEvents
  <2> QED
    BY <1>4, <1>5, <2>1, EntryWritten
<1>7. Explained(trail[c], "ACTIVE", HolderOf(c), OfferOf(c))
  BY <1>3 DEF AuditInv
<1>8. Explained(trail'[c], "ACTIVE", IF e.event = "link_accepted" THEN e.org ELSE HolderOf(c), Nobody)
  BY <1>6, <1>7, AnswerEntered
<1>9. Explained(trail'[c], chains'[c].status, HolderOf(c)', OfferOf(c)')
  BY <1>3, <1>6, <1>8
<1> QED
  BY <1>2, <1>6, <1>9, EntryExplains

LEMMA NominateExplained ==
    ASSUME AuditInv, SingleInv', NEW org \in Orgs, NEW c \in Chains, NEW to \in Orgs, Nominate(org, c, to)
    PROVE  AuditInv'
<1>1. HeldInv
  BY DEF AuditInv
<1>2. /\ HeldInv' /\ Active(c) /\ UNCHANGED chains
      /\ tailHolder(c) = org /\ Pending(c)' /\ Last(links'[c]).to = to /\ tailHolder(c)' = org
      /\ \A e \in Chains \ {c} : links'[e] = links[e]
  BY <1>1, NominateKeepsHeld
<1>3. /\ HolderOf(c)' = HolderOf(c) /\ OfferOf(c)' = to
      /\ chains[c].status = "ACTIVE" /\ chains'[c].status = "ACTIVE"
  BY <1>2 DEF HolderOf, OfferOf, Active
<1>4. PICK flag, offer : /\ flag = [event |-> "velocity_flag_raised", org |-> Nobody]
                         /\ offer = [event |-> "link_nominated", org |-> to]
  OBVIOUS
<1>5. /\ flag \in AuditRow /\ flag.event = "velocity_flag_raised"
      /\ offer \in AuditRow /\ offer.event = "link_nominated" /\ offer.org = to /\ to # Nobody
  BY <1>4, ChainAssumptions DEF AuditRow, AuditEvents
<1>6. /\ trail \in [Chains -> Seq(AuditRow)] /\ trail[c] \in Seq(AuditRow)
      /\ Explained(trail[c], "ACTIVE", HolderOf(c), OfferOf(c))
  BY <1>3 DEF AuditInv
<1>7. PICK before : before = IF Breach(c) THEN Append(trail[c], flag) ELSE trail[c]
  OBVIOUS
<1>8. before \in Seq(AuditRow) /\ Explained(before, "ACTIVE", HolderOf(c), OfferOf(c))
  <2>1. CASE Breach(c)
    <3>1. before = Append(trail[c], flag) /\ before \in Seq(AuditRow)
      BY <1>5, <1>6, <1>7, <2>1
    <3>2. Explained(Append(trail[c], flag), "ACTIVE", HolderOf(c), OfferOf(c))
      BY <1>5, <1>6, NoteEntered
    <3> QED BY <3>1, <3>2
  <2>2. CASE ~ Breach(c)
    BY <1>6, <1>7, <2>2
  <2> QED BY <2>1, <2>2
<1>9. trail' = [trail EXCEPT ![c] = trail[c] \o (IF Breach(c) THEN <<flag>> ELSE <<>>) \o <<offer>>]
  BY <1>4 DEF Nominate
<1>10. trail[c] \o (IF Breach(c) THEN <<flag>> ELSE <<>>) \o <<offer>> = Append(before, offer)
  <2>1. trail[c] \o (IF Breach(c) THEN <<flag>> ELSE <<>>) = before
    BY <1>5, <1>6, <1>7, AppendIsConcat
  <2>2. before \o <<offer>> = Append(before, offer)
    BY <1>5, <1>8, AppendIsConcat
  <2> QED BY <2>1, <2>2
<1>11. PICK after : after = Append(before, offer)
  OBVIOUS
<1>12. after \in Seq(AuditRow) /\ Explained(after, "ACTIVE", HolderOf(c), to)
  <2>1. after \in Seq(AuditRow)
    BY <1>5, <1>8, <1>11
  <2>2. Explained(Append(before, offer), "ACTIVE", HolderOf(c), offer.org)
    BY <1>5, <1>8, NominationEntered
  <2> QED BY <1>5, <1>11, <2>1, <2>2
<1>13. trail' = [trail EXCEPT ![c] = after]
  BY <1>9, <1>10, <1>11
<1>14. /\ trail' \in [Chains -> Seq(AuditRow)] /\ trail'[c] = after
       /\ \A e \in Chains \ {c} : trail'[e] = trail[e]
  BY <1>6, <1>12, <1>13
<1>15. Explained(trail'[c], chains'[c].status, HolderOf(c)', OfferOf(c)')
  BY <1>3, <1>12, <1>14
<1> QED
  BY <1>2, <1>14, <1>15, EntryExplains

LEMMA RevokeExplained ==
    ASSUME AuditInv, SingleInv', NEW org \in Orgs, NEW c \in Chains, Revoke(org, c)
    PROVE  AuditInv'
<1>1. HeldInv
  BY DEF AuditInv
<1>2. /\ HeldInv' /\ chains'[c].status = "REVOKED"
      /\ \A e \in Chains \ {c} : chains'[e] = chains[e] /\ links'[e] = links[e]
  BY <1>1, RevokeKeepsHeld
<1>3. /\ audit(c, "chain_revoked", org) /\ trail \in [Chains -> Seq(AuditRow)]
      /\ "chain_revoked" \in AuditEvents /\ org \in Orgs \union {Nobody}
  BY DEF Revoke, AuditInv, AuditEvents
<1>4. PICK e : e = [event |-> "chain_revoked", org |-> org]
  OBVIOUS
<1>5. /\ e \in AuditRow /\ e.event = "chain_revoked" /\ trail[c] \in Seq(AuditRow)
      /\ trail' \in [Chains -> Seq(AuditRow)] /\ trail'[c] = Append(trail[c], e)
      /\ \A f \in Chains \ {c} : trail'[f] = trail[f]
  BY <1>3, <1>4, EntryWritten
<1>6. PICK holder, offer : holder = HolderOf(c)' /\ offer = OfferOf(c)'
  OBVIOUS
<1>7. Explained(trail'[c], chains'[c].status, HolderOf(c)', OfferOf(c)')
  <2>1. Explained(Append(trail[c], e), "REVOKED", holder, offer)
    BY <1>5, EndEntered
  <2> QED
    BY <1>2, <1>5, <1>6, <2>1
<1> QED
  BY <1>2, <1>5, <1>7, EntryExplains

LEMMA ConsumeExplained ==
    ASSUME AuditInv, SingleInv', NEW n \in Nonces, Consume(n)
    PROVE  AuditInv'
<1>1. HeldInv
  BY DEF AuditInv
<1>2. PICK c, o : c = tokens[n].chain /\ o = tokens[n].holder
  OBVIOUS
<1>3. /\ HeldInv' /\ c \in Chains /\ chains'[c].status = "COMPLETED" /\ links' = links
      /\ \A e \in Chains \ {c} : chains'[e] = chains[e]
  BY <1>1, <1>2, ConsumeKeepsHeld
<1>4. o \in Orgs \union {Nobody}
  BY <1>1, <1>2 DEF HeldInv, SingleInv, RowTypes, TokenRow
<1>5. audit(c, "release_consumed", o)
  BY <1>2 DEF Consume
<1>6. trail \in [Chains -> Seq(AuditRow)] /\ "release_consumed" \in AuditEvents
  BY DEF AuditInv, AuditEvents
<1>7. PICK e : e = [event |-> "release_consumed", org |-> o]
  OBVIOUS
<1>8. /\ e \in AuditRow /\ e.event = "release_consumed" /\ trail[c] \in Seq(AuditRow)
      /\ trail' \in [Chains -> Seq(AuditRow)] /\ trail'[c] = Append(trail[c], e)
      /\ \A f \in Chains \ {c} : trail'[f] = trail[f]
  BY <1>3, <1>4, <1>5, <1>6, <1>7, EntryWritten
<1>9. PICK holder, offer : holder = HolderOf(c)' /\ offer = OfferOf(c)'
  OBVIOUS
<1>10. Explained(trail'[c], chains'[c].status, HolderOf(c)', OfferOf(c)')
  <2>1. Explained(Append(trail[c], e), "COMPLETED", holder, offer)
    BY <1>8, EndEntered
  <2> QED
    BY <1>3, <1>8, <1>9, <2>1
<1> QED
  BY <1>3, <1>8, <1>10, EntryExplains

LEMMA ExpireExplained ==
    ASSUME AuditInv, SingleInv', ExpireDue
    PROVE  AuditInv'
<1>1. HeldInv /\ trail \in [Chains -> Seq(AuditRow)]
  BY DEF AuditInv
<1>2. PICK S, e : S = Due /\ e = [event |-> "chain_expired", org |-> Nobody]
  OBVIOUS
<1>3. /\ HeldInv' /\ S \in SUBSET Chains
      /\ \A c \in S : chains'[c].status = "EXPIRED"
      /\ \A c \in Chains \ S : chains'[c] = chains[c] /\ links'[c] = links[c]
  BY <1>1, <1>2, ExpireKeepsHeld
<1>4. e \in AuditRow /\ e.event = "chain_expired"
  BY <1>2 DEF AuditRow, AuditEvents
<1>5. trail' = [c \in Chains |-> IF c \in S THEN Append(trail[c], e) ELSE trail[c]]
  BY <1>2 DEF ExpireDue
<1>6. \A c \in Chains : trail[c] \in Seq(AuditRow) /\ Append(trail[c], e) \in Seq(AuditRow)
  BY <1>1, <1>4
<1>7. /\ trail' \in [Chains -> Seq(AuditRow)]
      /\ \A c \in S : trail'[c] = Append(trail[c], e)
      /\ \A c \in Chains \ S : trail'[c] = trail[c]
  BY <1>3, <1>5, <1>6
<1>8. ASSUME NEW c \in S PROVE Explained(trail'[c], chains'[c].status, HolderOf(c)', OfferOf(c)')
  <2>1. trail[c] \in Seq(AuditRow)
    BY <1>3, <1>6
  <2>2. PICK holder, offer : holder = HolderOf(c)' /\ offer = OfferOf(c)'
    OBVIOUS
  <2>3. Explained(Append(trail[c], e), "EXPIRED", holder, offer)
    BY <1>4, <2>1, EndEntered
  <2> QED BY <1>3, <1>7, <2>2, <2>3
<1> QED
  BY <1>3, <1>7, <1>8, OthersExplained

LEMMA AuthorizeExplained ==
    ASSUME AuditInv, HeldInv', NEW org \in Orgs, NEW c \in Chains, NEW n \in Nonces, ReleaseAuthorization(org, c, n)
    PROVE  AuditInv'
<1>1. Active(c) /\ UNCHANGED <<chains, links>> /\ audit(c, "release_authorized", org)
  BY DEF ReleaseAuthorization, VerifyReleaseHolder
<1>2. /\ trail \in [Chains -> Seq(AuditRow)] /\ "release_authorized" \in AuditEvents
      /\ org \in Orgs \union {Nobody}
      /\ Explained(trail[c], chains[c].status, HolderOf(c), OfferOf(c))
  BY DEF AuditInv, AuditEvents
<1>3. PICK e : e = [event |-> "release_authorized", org |-> org]
  OBVIOUS
<1>4. /\ e \in AuditRow /\ e.event = "release_authorized" /\ trail[c] \in Seq(AuditRow)
      /\ trail' \in [Chains -> Seq(AuditRow)] /\ trail'[c] = Append(trail[c], e)
      /\ \A f \in Chains \ {c} : trail'[f] = trail[f]
  BY <1>1, <1>2, <1>3, EntryWritten
<1>5. chains[c].status # "NONE"
  BY <1>1 DEF Active
<1>6. Explained(Append(trail[c], e), chains[c].status, HolderOf(c), OfferOf(c))
  BY <1>2, <1>4, <1>5, NoteEntered
<1>7. HolderOf(c)' = HolderOf(c) /\ OfferOf(c)' = OfferOf(c)
  BY <1>1, SameCustody
<1>8. Explained(trail'[c], chains'[c].status, HolderOf(c)', OfferOf(c)')
  BY <1>1, <1>4, <1>6, <1>7
<1> QED
  BY <1>1, <1>4, <1>8, EntryExplains

\* A chain whose hold is written late exists: it was refused a nomination.
LEMMA HoldExplained ==
    ASSUME AuditInv, SingleInv', NEW c \in Chains, applyVelocityHold(c)
    PROVE  AuditInv'
<1>1. HeldInv
  BY DEF AuditInv
<1>2. /\ HeldInv' /\ UNCHANGED links /\ chains'[c].status = chains[c].status
      /\ \A e \in Chains \ {c} : chains'[e] = chains[e]
  BY <1>1, HoldKeepsHeld
<1>3. HolderOf(c)' = HolderOf(c) /\ OfferOf(c)' = OfferOf(c)
  BY <1>1, HoldKeepsCustody
<1>4. c \in breached /\ audit(c, "velocity_flag_raised", Nobody)
  BY DEF applyVelocityHold
<1>5. chains[c].status # "NONE"
  BY <1>1, <1>4 DEF HeldInv, ChainKept
<1>6. /\ trail \in [Chains -> Seq(AuditRow)] /\ "velocity_flag_raised" \in AuditEvents
      /\ Nobody \in Orgs \union {Nobody}
      /\ Explained(trail[c], chains[c].status, HolderOf(c), OfferOf(c))
  BY DEF AuditInv, AuditEvents
<1>7. PICK e : e = [event |-> "velocity_flag_raised", org |-> Nobody]
  OBVIOUS
<1>8. /\ e \in AuditRow /\ e.event = "velocity_flag_raised" /\ trail[c] \in Seq(AuditRow)
      /\ trail' \in [Chains -> Seq(AuditRow)] /\ trail'[c] = Append(trail[c], e)
      /\ \A f \in Chains \ {c} : trail'[f] = trail[f]
  BY <1>4, <1>6, <1>7, EntryWritten
<1>9. Explained(Append(trail[c], e), chains[c].status, HolderOf(c), OfferOf(c))
  BY <1>5, <1>6, <1>8, NoteEntered
<1>10. Explained(trail'[c], chains'[c].status, HolderOf(c)', OfferOf(c)')
  BY <1>2, <1>3, <1>8, <1>9
<1> QED
  BY <1>2, <1>8, <1>10, EntryExplains

LEMMA UntouchedExplained ==
    ASSUME AuditInv, HeldInv', UNCHANGED <<chains, links, trail>>
    PROVE  AuditInv'
<1>1. \A e \in Chains : HolderOf(e)' = HolderOf(e) /\ OfferOf(e)' = OfferOf(e)
  BY SameCustody
<1> QED
  BY <1>1 DEF AuditInv

LEMMA StepKeepsAudit ==
    ASSUME AuditInv, [ChainNext]_chainVars
    PROVE  AuditInv'
<1>1. HeldInv
  BY DEF AuditInv
<1>2. SingleInv' /\ HeldInv'
  BY <1>1, StepKeepsSingle, StepKeepsHeld, ChainAssumptions DEF HeldInv
<1>3. ASSUME NEW org \in Orgs, NEW d \in Digests, NEW k \in Containers, RegisterBLAuthority(org, d, k)
      PROVE  AuditInv'
  BY <1>2, <1>3, UntouchedExplained DEF RegisterBLAuthority
<1>4. ASSUME NEW org \in Orgs, NEW c \in Chains, NEW d \in Digests, NEW k \in Containers, NEW t \in 1..ChainTTL,
             CreateChain(org, c, d, k, clock + t)
      PROVE  AuditInv'
  <2>1. clock + t \in Int
    BY <1>1, ChainAssumptions DEF HeldInv, SingleInv, RowTypes
  <2> QED BY <1>2, <1>4, <2>1, CreateExplained
<1>5. ASSUME NEW org \in Orgs, NEW c \in Chains, NEW to \in Orgs, Nominate(org, c, to) PROVE AuditInv'
  BY <1>2, <1>5, NominateExplained
<1>6. ASSUME NEW org \in Orgs, NEW c \in Chains, NEW to \in Orgs, NominateBreached(org, c, to) PROVE AuditInv'
  BY <1>2, <1>6, UntouchedExplained DEF NominateBreached
<1>7. ASSUME NEW org \in Orgs, NEW c \in Chains, Accept(org, c) \/ Decline(org, c) PROVE AuditInv'
  BY <1>2, <1>7, ResolveExplained
<1>8. ASSUME NEW org \in Orgs, NEW c \in Chains, Revoke(org, c) PROVE AuditInv'
  BY <1>2, <1>8, RevokeExplained
<1>9. ASSUME NEW org \in Orgs, NEW c \in Chains, NEW n \in Nonces, ReleaseAuthorization(org, c, n) PROVE AuditInv'
  BY <1>2, <1>9, AuthorizeExplained
<1>10. ASSUME NEW org \in Orgs, NEW c \in Chains, BookContainer(org, c) PROVE AuditInv'
  BY <1>2, <1>10, UntouchedExplained DEF BookContainer
<1>11. ASSUME NEW c \in Chains, applyVelocityHold(c) PROVE AuditInv'
  BY <1>2, <1>11, HoldExplained
<1>12. ASSUME NEW c \in Chains, HoldLost(c) PROVE AuditInv'
  BY <1>2, <1>12, UntouchedExplained DEF HoldLost
<1>13. ASSUME NEW n \in Nonces, Consume(n) PROVE AuditInv'
  BY <1>2, <1>13, ConsumeExplained
<1>14. ASSUME ExpireDue PROVE AuditInv'
  BY <1>2, <1>14, ExpireExplained
<1>15. ASSUME Tick \/ UNCHANGED chainVars PROVE AuditInv'
  BY <1>2, <1>15, UntouchedExplained DEF Tick, chainVars
<1> QED
  BY <1>3, <1>4, <1>5, <1>6, <1>7, <1>8, <1>9, <1>10, <1>11, <1>12, <1>13, <1>14, <1>15 DEF ChainNext

LEMMA InitAudit == ChainInit => AuditInv
<1> SUFFICES ASSUME ChainInit PROVE AuditInv
  OBVIOUS
<1>1. HeldInv
  BY InitHeld
<1>2. /\ trail = [c \in Chains |-> <<>>] /\ chains = [c \in Chains |-> NoChain] /\ NoChain.status = "NONE"
  BY DEF ChainInit, NoChain
<1>3. \A c \in Chains : trail[c] = <<>> /\ chains[c].status = "NONE"
  BY <1>2
<1>4. trail \in [Chains -> Seq(AuditRow)]
  BY <1>2
<1>5. \A holder, offer : Explained(<<>>, "NONE", holder, offer)
  BY NoEntries DEF Explained
<1> QED
  BY <1>1, <1>3, <1>4, <1>5 DEF AuditInv

-----------------------------------------------------------------------------
(* The hold and its flag.                                                  *)

\* A refused nomination waits for its hold only where holds are configured.
HoldInv ==
    /\ AuditInv
    /\ breached = {} \/ HoldConfigured
    /\ \A c \in Chains : chains[c].hold <=> HoldConfigured /\ Flagged(trail[c])

LEMMA FlaggedEntry ==
    ASSUME NEW entries \in Seq(AuditRow), NEW e \in AuditRow
    PROVE  Flagged(Append(entries, e)) <=> Flagged(entries) \/ e.event = "velocity_flag_raised"
<1>1. PICK n, next : n = Len(entries) /\ next = Append(entries, e)
  OBVIOUS
<1>2. /\ n \in Nat /\ DOMAIN entries = 1..n /\ DOMAIN next = 1..(n + 1) /\ next[n + 1] = e
      /\ \A i \in 1..n : next[i] = entries[i]
  BY <1>1
<1>3. \A i : i \in 1..(n + 1) <=> i \in 1..n \/ i = n + 1
  BY <1>2
<1>4. Flagged(next) <=> Flagged(entries) \/ e.event = "velocity_flag_raised"
  BY <1>2, <1>3 DEF Flagged
<1> QED BY <1>1, <1>4

\* A step that neither puts a chain on hold nor flags one where flags are holds.
LEMMA HoldsKept ==
    ASSUME HoldInv, AuditInv', breached' = {} \/ HoldConfigured,
           \A c \in Chains : /\ chains'[c].hold = chains[c].hold
                             /\ HoldConfigured => (Flagged(trail'[c]) <=> Flagged(trail[c]))
    PROVE  HoldInv'
BY DEF HoldInv

\* A step with one entry, of another event, for one chain.
LEMMA OtherEntry ==
    ASSUME AuditInv, NEW c \in Chains, NEW event \in AuditEvents, NEW org \in Orgs \union {Nobody},
           audit(c, event, org), event # "velocity_flag_raised"
    PROVE  \A d \in Chains : Flagged(trail'[d]) <=> Flagged(trail[d])
<1>1. PICK e : e = [event |-> event, org |-> org]
  OBVIOUS
<1>2. trail \in [Chains -> Seq(AuditRow)]
  BY DEF AuditInv
<1>3. /\ e \in AuditRow /\ e.event = event /\ trail[c] \in Seq(AuditRow)
      /\ trail'[c] = Append(trail[c], e)
      /\ \A d \in Chains \ {c} : trail'[d] = trail[d]
  BY <1>1, <1>2, EntryWritten
<1>4. Flagged(trail'[c]) <=> Flagged(trail[c])
  BY <1>3, FlaggedEntry
<1> QED BY <1>3, <1>4

LEMMA NominateKeepsHold ==
    ASSUME HoldInv, AuditInv', NEW org \in Orgs, NEW c \in Chains, NEW to \in Orgs, Nominate(org, c, to)
    PROVE  HoldInv'
<1>1. UNCHANGED <<chains, breached>>
  BY DEF Nominate
<1>2. ASSUME HoldConfigured, NEW d \in Chains PROVE Flagged(trail'[d]) <=> Flagged(trail[d])
  <2>1. PICK offer : offer = [event |-> "link_nominated", org |-> to]
    OBVIOUS
  <2>2. offer \in AuditRow /\ offer.event = "link_nominated"
    BY <2>1 DEF AuditRow, AuditEvents
  <2>3. ~ Breach(c)
    BY <1>2 DEF Nominate
  <2>4. trail' = [trail EXCEPT ![c] = trail[c] \o <<>> \o <<offer>>]
    BY <2>1, <2>3 DEF Nominate
  <2>5. trail \in [Chains -> Seq(AuditRow)] /\ trail[c] \in Seq(AuditRow)
    BY DEF HoldInv, AuditInv
  <2>6. trail[c] \o <<>> \o <<offer>> = Append(trail[c], offer)
    BY <2>2, <2>5, AppendIsConcat
  <2>7. Flagged(Append(trail[c], offer)) <=> Flagged(trail[c])
    BY <2>2, <2>5, FlaggedEntry
  <2> QED BY <2>4, <2>5, <2>6, <2>7
<1> QED BY <1>1, <1>2, HoldsKept DEF HoldInv

LEMMA HoldIsFlagged ==
    ASSUME HoldInv, AuditInv', NEW c \in Chains, applyVelocityHold(c)
    PROVE  HoldInv'
<1>1. /\ c \in breached /\ breached' = breached \ {c}
      /\ chains' = [chains EXCEPT ![c].hold = TRUE]
      /\ audit(c, "velocity_flag_raised", Nobody)
  BY DEF applyVelocityHold
<1>2. HoldConfigured
  BY <1>1 DEF HoldInv
<1>3. trail \in [Chains -> Seq(AuditRow)] /\ "velocity_flag_raised" \in AuditEvents
  BY DEF HoldInv, AuditInv, AuditEvents
<1>4. PICK e : e = [event |-> "velocity_flag_raised", org |-> Nobody]
  OBVIOUS
<1>5. /\ e \in AuditRow /\ e.event = "velocity_flag_raised" /\ trail[c] \in Seq(AuditRow)
      /\ trail'[c] = Append(trail[c], e)
      /\ \A d \in Chains \ {c} : trail'[d] = trail[d]
  BY <1>1, <1>3, <1>4, EntryWritten
<1>6. Flagged(trail'[c])
  BY <1>5, FlaggedEntry
<1>7. chains'[c].hold = TRUE /\ \A d \in Chains \ {c} : chains'[d] = chains[d]
  BY <1>1 DEF HoldInv, AuditInv, HeldInv, SingleInv, RowTypes, ChainRow
<1>8. \A d \in Chains : chains'[d].hold <=> HoldConfigured /\ Flagged(trail'[d])
  BY <1>2, <1>5, <1>6, <1>7 DEF HoldInv
<1> QED BY <1>2, <1>8 DEF HoldInv

LEMMA StepKeepsHold ==
    ASSUME HoldInv, [ChainNext]_chainVars
    PROVE  HoldInv'
<1>1. AuditInv
  BY DEF HoldInv
<1>2. AuditInv'
  BY <1>1, StepKeepsAudit
<1>3. chains \in [Chains -> ChainRow] /\ trail \in [Chains -> Seq(AuditRow)]
  BY <1>1 DEF AuditInv, HeldInv, SingleInv, RowTypes
<1>4. ASSUME UNCHANGED <<chains, trail>>, breached' = {} \/ HoldConfigured PROVE HoldInv'
  BY <1>2, <1>4, HoldsKept
<1>5. ASSUME NEW c \in Chains, NEW event \in AuditEvents \ {"velocity_flag_raised"},
             NEW org \in Orgs \union {Nobody}, audit(c, event, org), breached' = breached,
             \A d \in Chains : chains'[d].hold = chains[d].hold
      PROVE  HoldInv'
  <2>1. \A d \in Chains : Flagged(trail'[d]) <=> Flagged(trail[d])
    BY <1>1, <1>5, OtherEntry
  <2> QED BY <1>2, <1>5, <2>1, HoldsKept DEF HoldInv
<1>6. ASSUME NEW org \in Orgs, NEW d \in Digests, NEW k \in Containers, RegisterBLAuthority(org, d, k)
      PROVE  HoldInv'
  BY <1>4, <1>6 DEF RegisterBLAuthority, HoldInv
<1>7. ASSUME NEW org \in Orgs, NEW c \in Chains, NEW d \in Digests, NEW k \in Containers, NEW t \in 1..ChainTTL,
             CreateChain(org, c, d, k, clock + t)
      PROVE  HoldInv'
  <2>1. \A e \in Chains : chains'[e].hold = chains[e].hold
    <3>1. PICK row : /\ row = [status |-> "ACTIVE", container |-> k, issuer |-> org,
                               hold |-> FALSE, expires |-> clock + t]
                     /\ chains' = [chains EXCEPT ![c] = row]
      BY <1>7 DEF CreateChain
    <3>2. row.hold = FALSE /\ chains[c].hold = FALSE
      BY <1>7, <3>1 DEF CreateChain, NoChain
    <3> QED BY <1>3, <3>1, <3>2
  <2>2. audit(c, "chain_created", org) /\ breached' = breached
    BY <1>7 DEF CreateChain
  <2>3. "chain_created" \in AuditEvents \ {"velocity_flag_raised"}
    BY DEF AuditEvents
  <2> QED BY <1>5, <2>1, <2>2, <2>3
<1>8. ASSUME NEW org \in Orgs, NEW c \in Chains, NEW to \in Orgs, Nominate(org, c, to) PROVE HoldInv'
  BY <1>2, <1>8, NominateKeepsHold
<1>9. ASSUME NEW org \in Orgs, NEW c \in Chains, NEW to \in Orgs, NominateBreached(org, c, to) PROVE HoldInv'
  BY <1>4, <1>9 DEF NominateBreached
<1>10. ASSUME NEW org \in Orgs, NEW c \in Chains, Accept(org, c) \/ Decline(org, c) PROVE HoldInv'
  <2>1. PICK event \in {"link_accepted", "link_declined"} : audit(c, event, org) /\ UNCHANGED <<chains, breached>>
    BY <1>10 DEF Accept, Decline, resolveLink
  <2>2. event \in AuditEvents \ {"velocity_flag_raised"}
    BY <2>1 DEF AuditEvents
  <2> QED BY <1>5, <2>1, <2>2
<1>11. ASSUME NEW org \in Orgs, NEW c \in Chains, Revoke(org, c) PROVE HoldInv'
  <2>1. chains' = [chains EXCEPT ![c].status = "REVOKED"]
    BY <1>11 DEF Revoke
  <2>2. \A e \in Chains : chains'[e].hold = chains[e].hold
    BY <1>3, <2>1 DEF ChainRow
  <2>3. audit(c, "chain_revoked", org) /\ breached' = breached
    BY <1>11 DEF Revoke
  <2>4. "chain_revoked" \in AuditEvents \ {"velocity_flag_raised"}
    BY DEF AuditEvents
  <2> QED BY <1>5, <2>2, <2>3, <2>4
<1>12. ASSUME NEW org \in Orgs, NEW c \in Chains, NEW n \in Nonces, ReleaseAuthorization(org, c, n) PROVE HoldInv'
  <2>1. audit(c, "release_authorized", org) /\ UNCHANGED <<chains, breached>>
    BY <1>12 DEF ReleaseAuthorization
  <2>2. "release_authorized" \in AuditEvents \ {"velocity_flag_raised"}
    BY DEF AuditEvents
  <2> QED BY <1>5, <2>1, <2>2
<1>13. ASSUME NEW org \in Orgs, NEW c \in Chains, BookContainer(org, c) PROVE HoldInv'
  BY <1>4, <1>13 DEF BookContainer, HoldInv
<1>14. ASSUME NEW c \in Chains, applyVelocityHold(c) PROVE HoldInv'
  BY <1>2, <1>14, HoldIsFlagged
<1>15. ASSUME NEW c \in Chains, HoldLost(c) PROVE HoldInv'
  BY <1>4, <1>15 DEF HoldLost, HoldInv
<1>16. ASSUME NEW n \in Nonces, Consume(n) PROVE HoldInv'
  <2>1. PICK c, o : c = tokens[n].chain /\ o = tokens[n].holder
    OBVIOUS
  <2>2. c \in Chains
    BY <1>1, <1>16, <2>1 DEF AuditInv, HeldInv, SingleInv, TokensNameChains, Consume
  <2>3. o \in Orgs \union {Nobody}
    BY <1>1, <2>1 DEF AuditInv, HeldInv, SingleInv, RowTypes, TokenRow
  <2>4. /\ chains' = [chains EXCEPT ![c].status = "COMPLETED"]
        /\ audit(c, "release_consumed", o) /\ breached' = breached
    BY <1>16, <2>1 DEF Consume
  <2>5. \A e \in Chains : chains'[e].hold = chains[e].hold
    BY <1>3, <2>4 DEF ChainRow
  <2>6. "release_consumed" \in AuditEvents \ {"velocity_flag_raised"}
    BY DEF AuditEvents
  <2> QED BY <1>5, <2>2, <2>3, <2>4, <2>5, <2>6
<1>17. ASSUME ExpireDue PROVE HoldInv'
  <2>1. PICK S, e : S = Due /\ e = [event |-> "chain_expired", org |-> Nobody]
    OBVIOUS
  <2>2. e \in AuditRow /\ e.event = "chain_expired"
    BY <2>1 DEF AuditRow, AuditEvents
  <2>3. /\ trail' = [c \in Chains |-> IF c \in S THEN Append(trail[c], e) ELSE trail[c]]
        /\ chains' = [c \in Chains |-> IF c \in S THEN [chains[c] EXCEPT !.status = "EXPIRED"] ELSE chains[c]]
        /\ breached' = breached
    BY <1>17, <2>1 DEF ExpireDue
  <2>4. \A c \in Chains : chains'[c].hold = chains[c].hold
    BY <1>3, <2>3 DEF ChainRow
  <2>5. \A c \in Chains : Flagged(Append(trail[c], e)) <=> Flagged(trail[c])
    BY <1>3, <2>2, FlaggedEntry
  <2>6. \A c \in Chains : Flagged(trail'[c]) <=> Flagged(trail[c])
    BY <2>3, <2>5
  <2> QED BY <1>2, <2>3, <2>4, <2>6, HoldsKept DEF HoldInv
<1>18. ASSUME Tick \/ UNCHANGED chainVars PROVE HoldInv'
  BY <1>4, <1>18 DEF Tick, chainVars, HoldInv
<1> QED
  BY <1>6, <1>7, <1>8, <1>9, <1>10, <1>11, <1>12, <1>13, <1>14, <1>15, <1>16, <1>17, <1>18 DEF ChainNext

LEMMA InitHold == ChainInit => HoldInv
<1> SUFFICES ASSUME ChainInit PROVE HoldInv
  OBVIOUS
<1>1. \A c \in Chains : chains[c].hold = FALSE /\ trail[c] = <<>>
  BY DEF ChainInit, NoChain
<1>2. ~ Flagged(<<>>)
  BY DEF Flagged
<1> QED BY <1>1, <1>2, InitAudit DEF HoldInv, ChainInit

LEMMA HoldInvExplains == HoldInv => AuditExplainsChain
<1> SUFFICES ASSUME HoldInv, NEW c \in Chains
             PROVE  /\ {statusAfter[e.event] : e \in Latest(trail[c], DOMAIN statusAfter)} = {chains[c].status} \ {"NONE"}
                    /\ chains[c].hold <=> HoldConfigured /\ Flagged(trail[c])
                    /\ Active(c) =>
                        /\ {e.org : e \in Latest(trail[c], holderEvents)} = {tailHolder(c)}
                        /\ {e.org : e \in {f \in Latest(trail[c], offerEvents) : f.event = "link_nominated"}}
                             = IF Pending(c) THEN {Last(links[c]).to} ELSE {}
  BY DEF AuditExplainsChain
<1>1. Explained(trail[c], chains[c].status, HolderOf(c), OfferOf(c))
  BY DEF HoldInv, AuditInv
<1>2. ASSUME Pending(c) PROVE Last(links[c]).to # Nobody
  <2>1. links[c] \in Seq(LinkRow) /\ links[c] # <<>>
    BY <1>2 DEF HoldInv, AuditInv, HeldInv, Pending
  <2>2. Last(links[c]) \in LinkRow
    BY <2>1 DEF Last
  <2> QED BY <2>2, ChainAssumptions DEF LinkRow
<1>3. Active(c) => /\ HolderOf(c) = tailHolder(c) /\ chains[c].status = "ACTIVE"
                   /\ {OfferOf(c)} \ {Nobody} = IF Pending(c) THEN {Last(links[c]).to} ELSE {}
  BY <1>2 DEF HolderOf, OfferOf, Active
<1>4. chains[c].hold <=> HoldConfigured /\ Flagged(trail[c])
  BY DEF HoldInv
<1> QED
  BY <1>1, <1>3, <1>4 DEF Explained

\* The audit trail of a chain tells its status, its hold and, while it is in
\* force, its holder and its open nomination (internal/securechain/store.go,
\* audit and every operation that calls it).
THEOREM TrailsExplainChains == ChainSpec => []AuditExplainsChain
<1>1. HoldInv /\ [ChainNext]_chainVars => HoldInv'
  BY StepKeepsHold
<1> QED
  BY <1>1, InitHold, HoldInvExplains, PTL DEF ChainSpec
=============================================================================
