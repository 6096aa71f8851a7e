--------------------------- MODULE RegistryProofs ---------------------------
(***************************************************************************)
(* internal/registry for any number of vessels, owners, officers, rules    *)
(* and licences, and any bound on the events: VesselTrailExplains,         *)
(* OneRuleGoverns and LicenceTrailExplains; and what a third party is told *)
(* of a seafarer's certificate, for any certificates, tenants, expiry      *)
(* dates and verifications, whatever sweeps fail: VerificationHonest.      *)
(*                                                                         *)
(* The parts of the state are written by different steps, so each has an   *)
(* invariant of its own.  Those of vessels and licences are predicates on  *)
(* the row and the trail of one vessel (VesselKept) or one licence         *)
(* (LicenceKept).  The entries of an ownership chain contain each other,   *)
(* so a chain is a sequence over some set (SomeSeq).  VerificationHonest   *)
(* speaks of past verifications only; ToldTrue ties each of them to the    *)
(* row as it is now: VALID was before the expiry, EXPIRED means that the   *)
(* expiry has passed, REVOKED that the row is REVOKED, and no step takes   *)
(* any of these back.                                                      *)
(***************************************************************************)
EXTENDS ShipRegistry, SeafarerCertificates, FiniteSetTheorems, SequenceTheorems, TLAPS

SomeSeq(s) == \E S : s \in Seq(S)

LEMMA Appended ==
    ASSUME NEW s, SomeSeq(s), NEW e
    PROVE  /\ SomeSeq(Append(s, e))
           /\ Len(s) \in Nat /\ DOMAIN s = 1..Len(s)
           /\ Len(Append(s, e)) = Len(s) + 1 /\ DOMAIN Append(s, e) = 1..(Len(s) + 1)
           /\ Append(s, e)[Len(s) + 1] = e
           /\ \A i \in DOMAIN s : Append(s, e)[i] = s[i] /\ i \in Int /\ 1 <= i /\ i <= Len(s)
           /\ \A i \in DOMAIN Append(s, e) : i \in DOMAIN s \/ i = Len(s) + 1
<1>1. PICK S : s \in Seq(S)
  BY DEF SomeSeq
<1>2. s \in Seq(S \union {e}) /\ e \in S \union {e}
  BY <1>1
<1>3. Append(s, e) \in Seq(S \union {e})
  BY <1>2
<1>4. /\ Len(s) \in Nat /\ DOMAIN s = 1..Len(s)
      /\ Len(Append(s, e)) = Len(s) + 1 /\ DOMAIN Append(s, e) = 1..(Len(s) + 1)
      /\ Append(s, e)[Len(s) + 1] = e
      /\ \A i \in 1..Len(s) : Append(s, e)[i] = s[i]
  BY <1>2
<1> QED
  BY <1>3, <1>4 DEF SomeSeq

\* f with x at y; kept folded, so that the lemmas below match by name.
Put(f, y, x) == [f EXCEPT ![y] = x]

LEMMA PutAt ==
    ASSUME NEW X, NEW f, f = [y \in X |-> f[y]], NEW y \in X, NEW x, NEW g, g = Put(f, y, x)
    PROVE  g[y] = x /\ (\A z \in X \ {y} : g[z] = f[z]) /\ g = [z \in X |-> g[z]]
BY DEF Put

-----------------------------------------------------------------------------
(* The cabotage rule in force.                                             *)

RulesInv ==
    /\ rules \in [Rules -> RuleRow \union {None}]
    /\ installing = [r \in Rules |-> installing[r]]
    /\ \A r \in Rules : installing[r] # None => installing[r] \subseteq Rows(rules)
    /\ Rows(rules) # {} => \E r \in Rules : Active = {r}

LEMMA RulesUntouched ==
    ASSUME RulesInv, UNCHANGED <<rules, installing>>
    PROVE  RulesInv'
BY DEF RulesInv, Rows, Active

LEMMA RetireStep ==
    ASSUME RulesInv, NEW r \in Rules, RetireRules(r)
    PROVE  RulesInv'
<1>1. rules' = rules /\ installing' = Put(installing, r, Active)
  BY DEF RetireRules, Put
<1>2. installing'[r] = Active /\ (\A q \in Rules \ {r} : installing'[q] = installing[q])
      /\ installing' = [q \in Rules |-> installing'[q]]
  BY <1>1, PutAt DEF RulesInv
<1>3. Rows(rules)' = Rows(rules) /\ Active' = Active /\ Active \subseteq Rows(rules)
  BY <1>1 DEF Rows, Active
<1> QED
  BY <1>1, <1>2, <1>3 DEF RulesInv

LEMMA UpsertStep ==
    ASSUME RulesInv, NEW r \in Rules, NEW terms \in Terms, UpsertCabotageRule(r, terms)
    PROVE  RulesInv'
<1>1. installing[r] # None /\ installing' = Put(installing, r, None)
  BY DEF UpsertCabotageRule, Put
<1>2. installing'[r] = None /\ (\A q \in Rules \ {r} : installing'[q] = installing[q])
      /\ installing' = [q \in Rules |-> installing'[q]]
  BY <1>1, PutAt DEF RulesInv
<1>3. PICK gone : gone = installing[r] /\ gone \subseteq Rows(rules)
  BY <1>1 DEF RulesInv
<1>4. CASE rules' = rules
  BY <1>2, <1>4 DEF RulesInv, Rows, Active
<1>5. CASE rules' # rules
  <2>1. /\ rules' = [q \in Rules |-> IF q = r THEN [terms |-> terms, active |-> TRUE]
                                     ELSE IF q \in gone THEN [rules[q] EXCEPT !.active = FALSE]
                                     ELSE rules[q]]
        /\ Active \ gone \subseteq {r}
    BY <1>3, <1>5 DEF UpsertCabotageRule, OneActive
  <2>2. PICK on : on = [terms |-> terms, active |-> TRUE] /\ on \in RuleRow
    <3>1. [terms |-> terms, active |-> TRUE] \in RuleRow
      BY DEF RuleRow
    <3> QED
      BY <3>1, Zenon
  <2>3. on.active
    BY <2>2
  <2>4. ASSUME NEW q \in Rules, q # r, q \in gone
        PROVE  rules'[q] \in RuleRow /\ ~rules'[q].active
    <3>1. PICK old \in RuleRow : old = rules[q]
      BY <1>3, <2>4 DEF RulesInv, Rows
    <3>2. PICK off : off = [old EXCEPT !.active = FALSE]
      OBVIOUS
    <3>3. off \in RuleRow /\ ~off.active
      BY <3>2 DEF RuleRow
    <3> QED
      BY <2>1, <2>4, <3>1, <3>2, <3>3
  <2>5. \A q \in Rules : q # r /\ q \notin gone => rules'[q] = rules[q]
    BY <2>1
  <2>6. rules'[r] = on
    BY <2>1, <2>2
  <2>7. rules' \in [Rules -> RuleRow \union {None}]
    BY <2>1, <2>2, <2>4, <2>5, <2>6 DEF RulesInv
  <2>8. \A q \in Rules : q \in Rows(rules) => rules'[q] # None
    BY <2>2, <2>4, <2>5, <2>6, RegistryAssumptions DEF Rows
  <2>9. Rows(rules) \subseteq Rows(rules')
    BY <2>7, <2>8 DEF Rows, RulesInv
  <2>10. \A q \in Rules : q \in Active' <=> q = r
    <3>1. r \in Active'
      BY <2>2, <2>3, <2>6, <2>7, RegistryAssumptions DEF Active, Rows
    <3>2. ASSUME NEW q \in Rules, q # r, q \in Active' PROVE FALSE
      <4>1. rules'[q] # None /\ rules'[q].active
        BY <3>2 DEF Active, Rows
      <4>2. q \notin gone
        BY <2>4, <3>2, <4>1
      <4>3. rules[q] # None /\ rules[q].active
        BY <2>5, <3>2, <4>1, <4>2
      <4>4. q \in Active
        BY <4>3 DEF Active, Rows, RulesInv
      <4> QED
        BY <2>1, <3>2, <4>2, <4>4
    <3> QED
      BY <3>1, <3>2
  <2>11. Active' \subseteq Rules
    BY <2>7 DEF Active, Rows
  <2>12. Active' = {r}
    BY <2>10, <2>11
  <2>13. \A q \in Rules : installing'[q] # None => installing'[q] \subseteq Rows(rules)'
    BY <1>2, <2>9 DEF RulesInv, Rows
  <2> QED
    BY <1>2, <2>7, <2>12, <2>13 DEF RulesInv
<1> QED
  BY <1>4, <1>5

LEMMA OneRuleFromInv == RulesInv => OneRuleGoverns
BY FS_Singleton DEF RulesInv, OneRuleGoverns

-----------------------------------------------------------------------------
(* One vessel: its row, its chain of owners and its events.                *)

MovesIn(t) == {i \in DOMAIN t : t[i].type # "transferred"}
ChangesIn(t) == {i \in DOMAIN t : t[i].type # "transitioned"}
UpTo(t, i) == {j \in ChangesIn(t) : j <= i}

\* The hash of a row is that of its columns with an instant its time column
\* may have been cut from.
Committed(v, x) ==
    \E at \in Readings : /\ x.at = Stored(at)
                         /\ x.hash = chainHash(x.previous, v, x.seq, x.owner, at, x.by)

\* x can be the next entry of the chain; kept folded.
Front(v, chain) == IF Len(chain) = 0 THEN genesisHash(v) ELSE chain[Len(chain)].hash
Follows(v, chain, x) ==
    x.seq = Len(chain) + 1 /\ x.vessel = v /\ x.previous = Front(v, chain) /\ Committed(v, x)

Chained(v, chain) ==
    \A i \in DOMAIN chain :
        /\ chain[i].seq = i /\ chain[i].vessel = v
        /\ i = 1 => chain[i].previous = genesisHash(v)
        /\ i # 1 => chain[i].previous = chain[i - 1].hash
        /\ Committed(v, chain[i])

Explained(v, row, chain, t) ==
    /\ Len(t) # 0 /\ t[1].type = "registered" /\ t[1].by = row.maker
    /\ \E i \in MovesIn(t) : row.status = t[i].to /\ \A j \in MovesIn(t) : j <= i
    /\ Len(chain) # 0 /\ row.owner = LastOf(chain).owner
    /\ Len(chain) = Cardinality(ChangesIn(t))
    /\ \A i \in ChangesIn(t) :
         /\ Cardinality(UpTo(t, i)) \in 1..Len(chain)
         /\ chain[Cardinality(UpTo(t, i))].by = t[i].by
         /\ t[i].type = "transferred" => chain[Cardinality(UpTo(t, i))].owner = t[i].to
    /\ Chained(v, chain)
    /\ \A i \in MovesIn(t) : t[i].to \in {"REGISTRATION", "CERTIFICATE_ISSUED"} => t[i].by # row.maker

VesselKept(v, row, chain, t) ==
    /\ row \in VesselRow \union {None} /\ SomeSeq(chain) /\ SomeSeq(t)
    /\ row = None => chain = <<>> /\ t = <<>>
    /\ row # None => Explained(v, row, chain, t)

VesselInv ==
    /\ vessels = [v \in Vessels |-> vessels[v]]
    /\ owners = [v \in Vessels |-> owners[v]]
    /\ trail = [v \in Vessels |-> trail[v]]
    /\ \A v \in Vessels : VesselKept(v, vessels[v], owners[v], trail[v])

\* Moves and changes after one more event.
LEMMA MoveAdded ==
    ASSUME NEW t, SomeSeq(t), NEW e
    PROVE  LET u == Append(t, e) n == Len(t) + 1 IN
           /\ MovesIn(u) = IF e.type # "transferred" THEN MovesIn(t) \union {n} ELSE MovesIn(t)
           /\ \A i \in MovesIn(u) : i \in Int /\ i <= n
           /\ \A i \in MovesIn(t) : u[i] = t[i]
           /\ u[n] = e
<1> DEFINE u == Append(t, e)
           n == Len(t) + 1
<1>1. \A i : i \in MovesIn(u) <=> i \in MovesIn(t) \/ (i = n /\ e.type # "transferred")
  BY Appended DEF MovesIn
<1>2. \A i \in MovesIn(t) : u[i] = t[i] /\ i \in Int /\ i <= n
  BY Appended DEF MovesIn
<1>3. u[n] = e /\ n \in Int /\ n <= n
  BY Appended
<1> HIDE DEF u, n
<1>4. MovesIn(u) = IF e.type # "transferred" THEN MovesIn(t) \union {n} ELSE MovesIn(t)
  BY <1>1
<1>5. \A i \in MovesIn(u) : i \in Int /\ i <= n
  BY <1>1, <1>2, <1>3
<1> QED
  BY <1>2, <1>3, <1>4, <1>5 DEF u, n

LEMMA ChangesFinite ==
    ASSUME NEW t, SomeSeq(t)
    PROVE  /\ IsFiniteSet(ChangesIn(t)) /\ Cardinality(ChangesIn(t)) \in Nat
           /\ \A i : IsFiniteSet(UpTo(t, i)) /\ Cardinality(UpTo(t, i)) \in Nat
<1>1. Len(t) \in Nat /\ DOMAIN t = 1..Len(t)
  BY Appended
<1>2. IsFiniteSet(1..Len(t))
  BY <1>1, FS_Interval
<1>3. ChangesIn(t) \subseteq 1..Len(t) /\ \A i : UpTo(t, i) \subseteq 1..Len(t)
  BY <1>1 DEF ChangesIn, UpTo
<1> QED
  BY <1>2, <1>3, FS_Subset, FS_CardinalityType

LEMMA ChangeOld ==
    ASSUME NEW t, SomeSeq(t), NEW e, e.type = "transitioned"
    PROVE  LET u == Append(t, e) IN
           /\ ChangesIn(u) = ChangesIn(t)
           /\ \A i \in ChangesIn(t) : UpTo(u, i) = UpTo(t, i) /\ u[i] = t[i]
<1> DEFINE u == Append(t, e)
<1>1. \A i : i \in ChangesIn(u) <=> i \in ChangesIn(t)
  BY Appended DEF ChangesIn
<1>2. \A i \in ChangesIn(t) : u[i] = t[i]
  BY Appended DEF ChangesIn
<1> HIDE DEF u
<1>3. ChangesIn(u) = ChangesIn(t)
  BY <1>1
<1> QED
  BY <1>2, <1>3 DEF UpTo, u

LEMMA ChangeKept ==
    ASSUME NEW t, SomeSeq(t), NEW e, NEW i \in ChangesIn(t)
    PROVE  UpTo(Append(t, e), i) = UpTo(t, i) /\ Append(t, e)[i] = t[i]
<1> DEFINE u == Append(t, e)
<1>1. ASSUME NEW j PROVE j \in UpTo(u, i) <=> j \in UpTo(t, i)
  BY Appended DEF UpTo, ChangesIn
<1> QED
  BY <1>1, Appended DEF UpTo, ChangesIn

LEMMA ChangeNew ==
    ASSUME NEW t, SomeSeq(t), NEW e, e.type # "transitioned"
    PROVE  LET u == Append(t, e) n == Len(t) + 1 IN
           /\ ChangesIn(u) = ChangesIn(t) \union {n}
           /\ Cardinality(ChangesIn(u)) = Cardinality(ChangesIn(t)) + 1
           /\ UpTo(u, n) = ChangesIn(u)
           /\ \A i \in ChangesIn(t) : UpTo(u, i) = UpTo(t, i) /\ u[i] = t[i]
           /\ u[n] = e
<1> DEFINE u == Append(t, e)
           n == Len(t) + 1
<1>1. \A i : i \in ChangesIn(u) <=> i \in ChangesIn(t) \/ i = n
  BY Appended DEF ChangesIn
<1>2. \A i \in ChangesIn(t) : u[i] = t[i] /\ i \in Int /\ i <= n /\ i < n
  BY Appended DEF ChangesIn
<1>3. u[n] = e /\ n \in Int /\ n <= n /\ n \notin ChangesIn(t)
  BY <1>2, Appended
<1> HIDE DEF u, n
<1>4. ChangesIn(u) = ChangesIn(t) \union {n}
  BY <1>1
<1>5. Cardinality(ChangesIn(u)) = Cardinality(ChangesIn(t)) + 1
  BY <1>3, <1>4, ChangesFinite, FS_AddElement
<1>6. UpTo(u, n) = ChangesIn(u)
  BY <1>1, <1>2, <1>3 DEF UpTo
<1>7. ASSUME NEW i \in ChangesIn(t) PROVE UpTo(u, i) = UpTo(t, i)
  <2>1. ~(n <= i)
    BY <1>2, <1>3
  <2> QED
    BY <1>1, <2>1 DEF UpTo
<1> QED
  BY <1>2, <1>3, <1>4, <1>5, <1>6, <1>7 DEF u, n

\* One more entry on a chain.
LEMMA ChainGrows ==
    ASSUME NEW v, NEW chain, SomeSeq(chain), NEW x, Chained(v, chain),
           Follows(v, chain, x)
    PROVE  /\ LastOf(Append(chain, x)) = x /\ Len(Append(chain, x)) # 0
           /\ Chained(v, Append(chain, x))
<1> DEFINE next == Append(chain, x)
           n == Len(chain)
<1>1. /\ n \in Nat /\ DOMAIN chain = 1..n /\ DOMAIN next = 1..(n + 1) /\ Len(next) = n + 1
      /\ next[n + 1] = x /\ \A i \in DOMAIN chain : next[i] = chain[i]
  BY Appended
<1>2. LastOf(next) = x /\ Len(next) # 0
  BY <1>1 DEF LastOf
<1>3. ASSUME NEW i \in DOMAIN next
      PROVE  /\ next[i].seq = i /\ next[i].vessel = v
             /\ i = 1 => next[i].previous = genesisHash(v)
             /\ i # 1 => next[i].previous = next[i - 1].hash
             /\ Committed(v, next[i])
  <2>1. CASE i \in DOMAIN chain
    <3>1. next[i] = chain[i] /\ (i # 1 => next[i - 1] = chain[i - 1])
      BY <1>1, <2>1
    <3> QED
      BY <2>1, <3>1 DEF Chained
  <2>2. CASE i = n + 1
    <3>1. next[i] = x /\ (i = 1 <=> n = 0) /\ (n # 0 => i - 1 = n /\ n \in DOMAIN chain)
      BY <1>1, <2>2
    <3>2. n # 0 => next[i - 1] = chain[n]
      BY <1>1, <3>1
    <3> HIDE DEF next
    <3> QED
      BY <2>2, <3>1, <3>2 DEF Follows, Front
  <2> QED
    BY <1>1, <2>1, <2>2
<1> QED
  BY <1>2, <1>3 DEF Chained

LEMMA RegisterKeeps ==
    ASSUME NEW v, NEW chain, NEW t, VesselKept(v, None, chain, t),
           NEW row \in VesselRow, row.status = "APPLICATION",
           NEW x, Follows(v, chain, x), x.owner = row.owner, x.by = row.maker,
           NEW e, e.type = "registered", e.to = "APPLICATION", e.by = row.maker
    PROVE  VesselKept(v, row, Append(chain, x), Append(t, e))
<1> DEFINE u == Append(t, e)
           next == Append(chain, x)
<1>1. chain = <<>> /\ t = <<>> /\ SomeSeq(chain) /\ SomeSeq(t) /\ row # None
  BY RegistryAssumptions DEF VesselKept
<1>2. Len(chain) = 0 /\ Len(t) = 0 /\ ChangesIn(t) = {} /\ MovesIn(t) = {} /\ Chained(v, chain)
  BY <1>1 DEF ChangesIn, MovesIn, Chained
<1>3. SomeSeq(t) /\ SomeSeq(chain) /\ e.type # "transitioned" /\ e.type # "transferred"
  BY <1>1
<1>4. /\ SomeSeq(u) /\ SomeSeq(next) /\ Len(u) = Len(t) + 1 /\ u[Len(t) + 1] = e
      /\ Len(next) = Len(chain) + 1 /\ next[Len(chain) + 1] = x
  BY <1>3, Appended
<1>5. MovesIn(u) = MovesIn(t) \union {Len(t) + 1}
  BY <1>3, MoveAdded
<1>6. ChangesIn(u) = ChangesIn(t) \union {Len(t) + 1} /\ UpTo(u, Len(t) + 1) = ChangesIn(u)
  BY <1>3, ChangeNew
<1>7. LastOf(next) = x /\ Chained(v, next)
  BY <1>2, <1>3, ChainGrows, Zenon
<1>8. Cardinality({1}) = 1
  BY FS_Singleton
<1> HIDE DEF u, next
<1>9. MovesIn(u) = {1} /\ ChangesIn(u) = {1} /\ UpTo(u, 1) = {1} /\ Len(u) = 1 /\ u[1] = e /\ Len(next) = 1 /\ next[1] = x
  BY <1>2, <1>4, <1>5, <1>6
<1>10. \A i \in ChangesIn(u) :
         /\ Cardinality(UpTo(u, i)) \in 1..Len(next)
         /\ next[Cardinality(UpTo(u, i))].by = u[i].by
         /\ u[i].type = "transferred" => next[Cardinality(UpTo(u, i))].owner = u[i].to
  <2>0. Cardinality(UpTo(u, 1)) = 1
    BY <1>8, <1>9, Zenon
  <2>1. Cardinality(UpTo(u, 1)) = 1 /\ 1 \in 1..Len(next)
    BY <1>9, <2>0
  <2>2. next[1].by = u[1].by /\ u[1].type # "transferred"
    BY <1>3, <1>9
  <2>3. ASSUME NEW i \in ChangesIn(u) PROVE i = 1
    BY <1>9
  <2> QED
    BY <2>1, <2>2, <2>3
<1>11. Explained(v, row, next, u)
  BY <1>7, <1>8, <1>9, <1>10 DEF Explained
<1> QED
  BY <1>1, <1>4, <1>11 DEF VesselKept, u, next

LEMMA TransitionKeeps ==
    ASSUME NEW v, NEW row \in VesselRow, NEW chain, NEW t, VesselKept(v, row, chain, t),
           NEW next \in VesselRow, next.owner = row.owner, next.maker = row.maker,
           NEW e, e.type = "transitioned", e.to = next.status,
           e.to \in {"REGISTRATION", "CERTIFICATE_ISSUED"} => e.by # row.maker
    PROVE  VesselKept(v, next, chain, Append(t, e))
<1> DEFINE u == Append(t, e)
           n == Len(t) + 1
<1>1. Explained(v, row, chain, t) /\ SomeSeq(t) /\ SomeSeq(chain) /\ row # None /\ next # None
  BY RegistryAssumptions DEF VesselKept
<1>2. Len(t) # 0 /\ t[1].type = "registered" /\ t[1].by = row.maker
  BY <1>1 DEF Explained
<1>3. SomeSeq(u) /\ Len(u) # 0 /\ u[1] = t[1] /\ u[n] = e
  BY <1>1, <1>2, Appended
<1>4. MovesIn(u) = MovesIn(t) \union {n} /\ (\A i \in MovesIn(u) : i <= n) /\ \A i \in MovesIn(t) : u[i] = t[i]
  BY <1>1, MoveAdded
<1>5. ChangesIn(u) = ChangesIn(t) /\ \A i \in ChangesIn(t) : UpTo(u, i) = UpTo(t, i) /\ u[i] = t[i]
  BY <1>1, ChangeOld
<1> HIDE DEF u, n
<1>6. Explained(v, next, chain, u)
  <2>1. \E i \in MovesIn(u) : next.status = u[i].to /\ \A j \in MovesIn(u) : j <= i
    BY <1>3, <1>4
  <2>2. \A i \in MovesIn(u) : u[i].to \in {"REGISTRATION", "CERTIFICATE_ISSUED"} => u[i].by # next.maker
    BY <1>1, <1>3, <1>4 DEF Explained
  <2>3. \A i \in ChangesIn(u) :
         /\ Cardinality(UpTo(u, i)) \in 1..Len(chain)
         /\ chain[Cardinality(UpTo(u, i))].by = u[i].by
         /\ u[i].type = "transferred" => chain[Cardinality(UpTo(u, i))].owner = u[i].to
    BY <1>1, <1>5 DEF Explained
  <2> QED
    BY <1>1, <1>2, <1>3, <1>5, <2>1, <2>2, <2>3 DEF Explained
<1> QED
  BY <1>1, <1>3, <1>6 DEF VesselKept, u

LEMMA TransferKeeps ==
    ASSUME NEW v, NEW row \in VesselRow, NEW chain, NEW t, VesselKept(v, row, chain, t),
           NEW next \in VesselRow, next.status = row.status, next.maker = row.maker,
           NEW x, Follows(v, chain, x), x.owner = next.owner,
           NEW e, e.type = "transferred", e.to = next.owner, e.by = x.by
    PROVE  VesselKept(v, next, Append(chain, x), Append(t, e))
<1> DEFINE u == Append(t, e)
           n == Len(t) + 1
           links == Append(chain, x)
<1>1. Explained(v, row, chain, t) /\ SomeSeq(t) /\ SomeSeq(chain) /\ row # None /\ next # None
  BY RegistryAssumptions DEF VesselKept
<1>2. Len(t) # 0 /\ t[1].type = "registered" /\ t[1].by = row.maker
  BY <1>1 DEF Explained
<1>3. SomeSeq(u) /\ Len(u) # 0 /\ u[1] = t[1] /\ u[n] = e
  BY <1>1, <1>2, Appended
<1>4. MovesIn(u) = MovesIn(t) /\ \A i \in MovesIn(t) : u[i] = t[i]
  <2>1. SomeSeq(t) /\ e.type = "transferred"
    BY <1>1
  <2>2. MovesIn(u) = IF e.type # "transferred" THEN MovesIn(t) \union {n} ELSE MovesIn(t)
    BY <2>1, MoveAdded
  <2>3. \A i \in MovesIn(t) : u[i] = t[i]
    BY <2>1, Appended DEF MovesIn
  <2> HIDE DEF u, n
  <2> QED
    BY <2>1, <2>2, <2>3
<1>5. /\ ChangesIn(u) = ChangesIn(t) \union {n} /\ Cardinality(ChangesIn(u)) = Cardinality(ChangesIn(t)) + 1
      /\ UpTo(u, n) = ChangesIn(u) /\ \A i \in ChangesIn(t) : UpTo(u, i) = UpTo(t, i) /\ u[i] = t[i]
  <2>1. e.type # "transitioned"
    OBVIOUS
  <2>2. SomeSeq(t)
    BY <1>1
  <2>3. ChangesIn(u) = ChangesIn(t) \union {n}
    BY <2>1, <2>2, ChangeNew
  <2>4. Cardinality(ChangesIn(u)) = Cardinality(ChangesIn(t)) + 1
    BY <2>1, <2>2, ChangeNew
  <2>5. UpTo(u, n) = ChangesIn(u)
    BY <2>1, <2>2, ChangeNew
  <2>6. \A i \in ChangesIn(t) : UpTo(u, i) = UpTo(t, i) /\ u[i] = t[i]
    BY <2>2, ChangeKept
  <2> HIDE DEF u, n
  <2> QED
    BY <2>3, <2>4, <2>5, <2>6
<1>6. /\ SomeSeq(links) /\ Len(links) = Len(chain) + 1 /\ links[Len(chain) + 1] = x
      /\ Len(chain) \in Nat /\ \A i \in 1..Len(chain) : links[i] = chain[i]
  BY <1>1, Appended
<1>7. LastOf(links) = x /\ Len(links) # 0 /\ Chained(v, links)
  <2>1. Chained(v, chain)
    BY <1>1 DEF Explained
  <2> QED
    BY <1>1, <2>1, ChainGrows, Zenon
<1> HIDE DEF u, n, links
<1>8. Explained(v, next, links, u)
  <2>1. \E i \in MovesIn(u) : next.status = u[i].to /\ \A j \in MovesIn(u) : j <= i
    BY <1>1, <1>4 DEF Explained
  <2>2. \A i \in MovesIn(u) : u[i].to \in {"REGISTRATION", "CERTIFICATE_ISSUED"} => u[i].by # next.maker
    BY <1>1, <1>4 DEF Explained
  <2>3. Len(chain) = Cardinality(ChangesIn(t)) /\ Len(links) = Cardinality(ChangesIn(u))
    BY <1>1, <1>5, <1>6 DEF Explained
  <2>4. ASSUME NEW i \in ChangesIn(u)
        PROVE  /\ Cardinality(UpTo(u, i)) \in 1..Len(links)
               /\ links[Cardinality(UpTo(u, i))].by = u[i].by
               /\ u[i].type = "transferred" => links[Cardinality(UpTo(u, i))].owner = u[i].to
    <3>1. CASE i = n
      <4>1. Cardinality(UpTo(u, i)) = Len(chain) + 1 /\ u[i] = e
        BY <1>3, <1>5, <2>3, <3>1
      <4> QED
        BY <1>6, <4>1
    <3>2. CASE i # n
      <4>1. PICK k : k = Cardinality(UpTo(t, i)) /\ UpTo(u, i) = UpTo(t, i) /\ u[i] = t[i] /\ i \in ChangesIn(t)
        BY <1>5, <3>2
      <4>2. k \in 1..Len(chain) /\ chain[k].by = t[i].by /\ (t[i].type = "transferred" => chain[k].owner = t[i].to)
        BY <1>1, <4>1 DEF Explained
      <4>3. links[k] = chain[k] /\ k \in 1..Len(links)
        BY <1>6, <4>2
      <4> QED
        BY <4>1, <4>2, <4>3
    <3> QED
      BY <3>1, <3>2
  <2> QED
    BY <1>2, <1>3, <1>7, <2>1, <2>2, <2>3, <2>4 DEF Explained
<1> QED
  BY <1>1, <1>3, <1>6, <1>8 DEF VesselKept, u, links

\* g is f but for x at v.
Written(f, g, v, x) ==
    g = [z \in Vessels |-> g[z]] /\ g[v] = x /\ \A z \in Vessels \ {v} : g[z] = f[z]

LEMMA PutWritten ==
    ASSUME NEW f, f = [z \in Vessels |-> f[z]], NEW v \in Vessels, NEW x, NEW g, g = Put(f, v, x)
    PROVE  Written(f, g, v, x)
BY PutAt DEF Written

LEMMA OneVesselWritten ==
    ASSUME VesselInv, NEW v \in Vessels, NEW row, NEW chain, NEW t, VesselKept(v, row, chain, t),
           Written(vessels, vessels', v, row), Written(owners, owners', v, chain), Written(trail, trail', v, t)
    PROVE  VesselInv'
<1>1. ASSUME NEW z \in Vessels PROVE VesselKept(z, vessels'[z], owners'[z], trail'[z])
  <2>1. CASE z = v
    BY <2>1 DEF Written
  <2>2. CASE z # v
    <3>1. vessels'[z] = vessels[z] /\ owners'[z] = owners[z] /\ trail'[z] = trail[z]
      BY <2>2 DEF Written
    <3>2. VesselKept(z, vessels[z], owners[z], trail[z])
      BY DEF VesselInv
    <3> QED
      BY <3>1, <3>2
  <2> QED
    BY <2>1, <2>2
<1>2. /\ vessels' = [z \in Vessels |-> vessels'[z]] /\ owners' = [z \in Vessels |-> owners'[z]]
      /\ trail' = [z \in Vessels |-> trail'[z]]
  BY DEF Written
<1> QED
  BY <1>1, <1>2 DEF VesselInv

LEMMA VesselsUntouched ==
    ASSUME VesselInv, UNCHANGED vesselVars
    PROVE  VesselInv'
BY DEF VesselInv, vesselVars

LEMMA EventWritten ==
    ASSUME VesselInv, NEW v \in Vessels, NEW e, emitVessel(v, e)
    PROVE  Written(trail, trail', v, Append(trail[v], e))
<1>1. trail' = Put(trail, v, Append(trail[v], e)) /\ trail = [z \in Vessels |-> trail[z]]
  BY DEF emitVessel, Put, VesselInv
<1> QED
  BY <1>1, PutWritten

LEMMA RowCommitted ==
    ASSUME NEW previous, NEW v, NEW seq, NEW owner, NEW at \in Readings, NEW by,
           NEW x, x = ownershipRow(previous, v, seq, owner, at, by)
    PROVE  /\ x.seq = seq /\ x.vessel = v /\ x.owner = owner /\ x.by = by /\ x.previous = previous
           /\ Committed(v, x)
<1>1. /\ x.seq = seq /\ x.vessel = v /\ x.owner = owner /\ x.by = by /\ x.previous = previous
      /\ x.at = Stored(at) /\ x.hash = chainHash(previous, v, seq, owner, at, by)
  BY DEF ownershipRow
<1> QED
  BY <1>1, Zenon DEF Committed

\* The entry appendOwnership puts on a chain.
LEMMA EntryAdded ==
    ASSUME NEW v, NEW owner, NEW officer, NEW at \in Readings, NEW chain, chain = owners[v]
    PROVE  \E x : /\ appendOwnership(v, owner, officer, at) = Append(chain, x)
                  /\ Follows(v, chain, x) /\ x.owner = owner /\ x.by = officer
<1>1. PICK x : x = ownershipRow(Front(v, chain), v, Len(chain) + 1, owner, at, officer)
  OBVIOUS
<1>2. appendOwnership(v, owner, officer, at) = Append(chain, x)
  BY <1>1, Zenon DEF appendOwnership, Front
<1>3. Follows(v, chain, x) /\ x.owner = owner /\ x.by = officer
  <2>1. PICK seq, previous : seq = Len(chain) + 1 /\ previous = Front(v, chain)
    OBVIOUS
  <2>2. x = ownershipRow(previous, v, seq, owner, at, officer)
    BY <1>1, <2>1
  <2>3. /\ x.seq = seq /\ x.vessel = v /\ x.owner = owner /\ x.by = officer /\ x.previous = previous
        /\ Committed(v, x)
    BY <2>2, RowCommitted
  <2> QED
    BY <2>1, <2>3 DEF Follows
<1> QED
  BY <1>2, <1>3, Zenon

LEMMA RegisterStep ==
    ASSUME VesselInv, NEW v \in Vessels, NEW w \in Owners, NEW o \in Officers, NEW at \in Readings,
           Register(v, w, o, at)
    PROVE  VesselInv'
<1>1. PICK row \in VesselRow : row = [status |-> "APPLICATION", owner |-> w, maker |-> o]
  BY DEF VesselRow
<1>2. row.status = "APPLICATION" /\ row.owner = w /\ row.maker = o
  BY <1>1
<1>3. PICK e : e = [type |-> "registered", to |-> "APPLICATION", by |-> o]
  OBVIOUS
<1>4. e.type = "registered" /\ e.to = "APPLICATION" /\ e.by = row.maker
  BY <1>2, <1>3
<1>5. PICK chain : chain = owners[v]
  OBVIOUS
<1>6. PICK t : t = trail[v]
  OBVIOUS
<1>7. PICK x : /\ appendOwnership(v, w, o, at) = Append(chain, x)
               /\ Follows(v, chain, x) /\ x.owner = w /\ x.by = o
  BY <1>5, EntryAdded
<1>8. vessels[v] = None /\ emitVessel(v, e)
  BY <1>3 DEF Register
<1>9. vessels' = Put(vessels, v, row) /\ owners' = Put(owners, v, Append(chain, x))
  BY <1>1, <1>7, Zenon DEF Register, Put
<1>10. Written(vessels, vessels', v, row) /\ Written(owners, owners', v, Append(chain, x))
  <2>1. vessels = [z \in Vessels |-> vessels[z]] /\ owners = [z \in Vessels |-> owners[z]]
    BY DEF VesselInv
  <2>2. Written(vessels, vessels', v, row)
    BY <1>9, <2>1, PutWritten
  <2>3. Written(owners, owners', v, Append(chain, x))
    BY <1>9, <2>1, PutWritten
  <2> QED
    BY <2>2, <2>3
<1>11. Written(trail, trail', v, Append(t, e))
  BY <1>6, <1>8, EventWritten
<1>12. VesselKept(v, None, chain, t)
  BY <1>5, <1>6, <1>8 DEF VesselInv
<1>13. x.owner = row.owner /\ x.by = row.maker
  BY <1>2, <1>7
<1>14. VesselKept(v, row, Append(chain, x), Append(t, e))
  BY <1>2, <1>4, <1>7, <1>12, <1>13, RegisterKeeps
<1> QED
  BY <1>10, <1>11, <1>14, OneVesselWritten

\* A row with another status, or another owner.
LEMMA RowMoved ==
    ASSUME NEW row \in VesselRow,
           NEW s \in {"APPLICATION", "SURVEY", "REGISTRATION", "CERTIFICATE_ISSUED", "SUSPENDED", "DEREGISTERED"},
           NEW next, next = [row EXCEPT !.status = s]
    PROVE  next \in VesselRow /\ next.status = s /\ next.owner = row.owner /\ next.maker = row.maker
BY DEF VesselRow

LEMMA RowSold ==
    ASSUME NEW row \in VesselRow, NEW w \in Owners, NEW next, next = [row EXCEPT !.owner = w]
    PROVE  next \in VesselRow /\ next.owner = w /\ next.status = row.status /\ next.maker = row.maker
BY DEF VesselRow

LEMMA TransitionStep ==
    ASSUME VesselInv, NEW v \in Vessels, NEW target \in DOMAIN vesselTransitions, NEW o \in Officers,
           Transition(v, target, o)
    PROVE  VesselInv'
<1>1. PICK row \in VesselRow : row = vessels[v]
  BY DEF Transition, VesselInv, VesselKept
<1>2. target \in {"APPLICATION", "SURVEY", "REGISTRATION", "CERTIFICATE_ISSUED", "SUSPENDED", "DEREGISTERED"}
  BY DEF vesselTransitions
<1>3. PICK next \in VesselRow : next = [row EXCEPT !.status = target] /\ next.status = target
                                /\ next.owner = row.owner /\ next.maker = row.maker
  <2>1. PICK one : one = [row EXCEPT !.status = target]
    OBVIOUS
  <2> QED
    BY <1>2, <2>1, RowMoved
<1>4. PICK e : e = [type |-> "transitioned", to |-> target, by |-> o]
  OBVIOUS
<1>5. e.type = "transitioned" /\ e.to = next.status /\ e.by = o
  BY <1>3, <1>4
<1>6. e.to \in {"REGISTRATION", "CERTIFICATE_ISSUED"} => e.by # row.maker
  BY <1>1, <1>3, <1>5 DEF Transition, Checker
<1>7. PICK chain : chain = owners[v]
  OBVIOUS
<1>8. PICK t : t = trail[v]
  OBVIOUS
<1>9. emitVessel(v, e) /\ owners' = owners
  BY <1>4 DEF Transition
<1>10. vessels' = Put(vessels, v, next)
  BY <1>1, <1>3 DEF Transition, Put
<1>11. Written(vessels, vessels', v, next)
  BY <1>10, PutWritten DEF VesselInv
<1>12. Written(owners, owners', v, chain)
  BY <1>7, <1>9 DEF Written, VesselInv
<1>13. Written(trail, trail', v, Append(t, e))
  BY <1>8, <1>9, EventWritten
<1>14. VesselKept(v, row, chain, t)
  BY <1>1, <1>7, <1>8 DEF VesselInv
<1>15. VesselKept(v, next, chain, Append(t, e))
  BY <1>3, <1>5, <1>6, <1>14, TransitionKeeps
<1> QED
  BY <1>11, <1>12, <1>13, <1>15, OneVesselWritten

LEMMA TransferStep ==
    ASSUME VesselInv, NEW v \in Vessels, NEW w \in Owners, NEW o \in Officers, NEW at \in Readings,
           TransferOwnership(v, w, o, at)
    PROVE  VesselInv'
<1>1. PICK row \in VesselRow : row = vessels[v]
  BY DEF TransferOwnership, VesselInv, VesselKept
<1>2. PICK next \in VesselRow : next = [row EXCEPT !.owner = w] /\ next.owner = w
                                /\ next.status = row.status /\ next.maker = row.maker
  <2>1. PICK one : one = [row EXCEPT !.owner = w]
    OBVIOUS
  <2> QED
    BY <2>1, RowSold
<1>3. PICK e : e = [type |-> "transferred", to |-> w, by |-> o]
  OBVIOUS
<1>4. PICK chain : chain = owners[v]
  OBVIOUS
<1>5. PICK t : t = trail[v]
  OBVIOUS
<1>6. PICK x : /\ appendOwnership(v, w, o, at) = Append(chain, x)
               /\ Follows(v, chain, x) /\ x.owner = w /\ x.by = o
  BY <1>4, EntryAdded
<1>7. e.type = "transferred" /\ e.to = next.owner /\ e.by = x.by /\ x.owner = next.owner
  BY <1>2, <1>3, <1>6
<1>8. emitVessel(v, e)
  BY <1>3 DEF TransferOwnership
<1>9. vessels' = Put(vessels, v, next) /\ owners' = Put(owners, v, Append(chain, x))
  BY <1>1, <1>2, <1>6 DEF TransferOwnership, Put
<1>10. Written(vessels, vessels', v, next) /\ Written(owners, owners', v, Append(chain, x))
  <2>1. vessels = [z \in Vessels |-> vessels[z]] /\ owners = [z \in Vessels |-> owners[z]]
    BY DEF VesselInv
  <2>2. Written(vessels, vessels', v, next)
    BY <1>9, <2>1, PutWritten
  <2>3. Written(owners, owners', v, Append(chain, x))
    BY <1>9, <2>1, PutWritten
  <2> QED
    BY <2>2, <2>3
<1>11. Written(trail, trail', v, Append(t, e))
  BY <1>5, <1>8, EventWritten
<1>12. VesselKept(v, row, chain, t)
  BY <1>1, <1>4, <1>5 DEF VesselInv
<1>13. VesselKept(v, next, Append(chain, x), Append(t, e))
  BY <1>2, <1>6, <1>7, <1>12, TransferKeeps
<1> QED
  BY <1>10, <1>11, <1>13, OneVesselWritten

\* Tuples, one entry at a time.
LEMMA Tuples ==
    ASSUME NEW a, NEW b, NEW c, NEW d
    PROVE  /\ Append(<<>>, a) = <<a>> /\ Append(<<a>>, b) = <<a, b>>
           /\ Append(<<a, b>>, c) = <<a, b, c>> /\ Append(<<a, b, c>>, d) = <<a, b, c, d>>
<1>1. PICK S : S = {a, b, c, d}
  OBVIOUS
<1>2. a \in S /\ b \in S /\ c \in S /\ d \in S
  BY <1>1
<1>3. Append(<<>>, a) = <<a>>
  <2>1. Append(<<>>, a) \in Seq(S) /\ <<a>> \in Seq(S) /\ Len(Append(<<>>, a)) = 1 /\ Len(<<a>>) = 1
    BY <1>2
  <2>2. Append(<<>>, a)[1] = <<a>>[1]
    BY <1>2
  <2> QED
    BY <2>1, <2>2, SeqEqual
<1>4. Append(<<a>>, b) = <<a, b>>
  <2>1. Append(<<a>>, b) \in Seq(S) /\ <<a, b>> \in Seq(S) /\ Len(Append(<<a>>, b)) = 2 /\ Len(<<a, b>>) = 2
    BY <1>2
  <2>2. \A i \in 1..2 : Append(<<a>>, b)[i] = <<a, b>>[i]
    BY <1>2
  <2> QED
    BY <2>1, <2>2, SeqEqual
<1>5. Append(<<a, b>>, c) = <<a, b, c>>
  <2>1. Append(<<a, b>>, c) \in Seq(S) /\ <<a, b, c>> \in Seq(S) /\ Len(Append(<<a, b>>, c)) = 3 /\ Len(<<a, b, c>>) = 3
    BY <1>2
  <2>2. \A i \in 1..3 : Append(<<a, b>>, c)[i] = <<a, b, c>>[i]
    BY <1>2
  <2> QED
    BY <2>1, <2>2, SeqEqual
<1>6. Append(<<a, b, c>>, d) = <<a, b, c, d>>
  <2>1. /\ Append(<<a, b, c>>, d) \in Seq(S) /\ <<a, b, c, d>> \in Seq(S)
        /\ Len(Append(<<a, b, c>>, d)) = 4 /\ Len(<<a, b, c, d>>) = 4
    BY <1>2
  <2>2. \A i \in 1..4 : Append(<<a, b, c>>, d)[i] = <<a, b, c, d>>[i]
    BY <1>2
  <2> QED
    BY <2>1, <2>2, SeqEqual
<1> QED
  BY <1>3, <1>4, <1>5, <1>6

\* A vessel enrolled before the start went through the operations above.
LEMMA EnrolledKept ==
    ASSUME NEW v, NEW m \in Officers, NEW c \in Officers, m # c, NEW w \in Owners, NEW at \in Readings
    PROVE  VesselKept(v, [status |-> "CERTIFICATE_ISSUED", owner |-> w, maker |-> m],
                <<ownershipRow(genesisHash(v), v, 1, w, at, m)>>,
                <<[type |-> "registered", to |-> "APPLICATION", by |-> m],
                  [type |-> "transitioned", to |-> "SURVEY", by |-> m],
                  [type |-> "transitioned", to |-> "REGISTRATION", by |-> c],
                  [type |-> "transitioned", to |-> "CERTIFICATE_ISSUED", by |-> c]>>)
<1> DEFINE Row(s) == [status |-> s, owner |-> w, maker |-> m]
           x == ownershipRow(genesisHash(v), v, 1, w, at, m)
           e1 == [type |-> "registered", to |-> "APPLICATION", by |-> m]
           e2 == [type |-> "transitioned", to |-> "SURVEY", by |-> m]
           e3 == [type |-> "transitioned", to |-> "REGISTRATION", by |-> c]
           e4 == [type |-> "transitioned", to |-> "CERTIFICATE_ISSUED", by |-> c]
<1>1. \A s \in {"APPLICATION", "SURVEY", "REGISTRATION", "CERTIFICATE_ISSUED"} :
        Row(s) \in VesselRow /\ Row(s).status = s /\ Row(s).owner = w /\ Row(s).maker = m
  BY DEF VesselRow
<1>0. x.seq = 1 /\ x.vessel = v /\ x.owner = w /\ x.by = m /\ x.previous = genesisHash(v) /\ Committed(v, x)
  BY RowCommitted
<1>2. /\ e1.type = "registered" /\ e1.to = "APPLICATION" /\ e1.by = m
      /\ e2.type = "transitioned" /\ e2.to = "SURVEY"
      /\ e3.type = "transitioned" /\ e3.to = "REGISTRATION" /\ e3.by # m
      /\ e4.type = "transitioned" /\ e4.to = "CERTIFICATE_ISSUED" /\ e4.by # m
  OBVIOUS
<1> HIDE DEF Row, x, e1, e2, e3, e4
<1>3. SomeSeq(<<>>) /\ VesselKept(v, None, <<>>, <<>>)
  <2>1. <<>> \in Seq({})
    OBVIOUS
  <2>2. SomeSeq(<<>>)
    BY <2>1 DEF SomeSeq
  <2> QED
    BY <2>2 DEF VesselKept
<1>4. /\ Append(<<>>, x) = <<x>> /\ Append(<<>>, e1) = <<e1>> /\ Append(<<e1>>, e2) = <<e1, e2>>
      /\ Append(<<e1, e2>>, e3) = <<e1, e2, e3>> /\ Append(<<e1, e2, e3>>, e4) = <<e1, e2, e3, e4>>
  <2>1. Append(<<>>, x) = <<x>>
    BY Tuples
  <2> QED
    BY <2>1, Tuples
<1>5. VesselKept(v, Row("APPLICATION"), <<x>>, <<e1>>)
  <2>1. PICK row \in VesselRow : row = Row("APPLICATION") /\ row.status = "APPLICATION" /\ row.owner = w /\ row.maker = m
    BY <1>1
  <2>2. PICK none : none = <<>>
    OBVIOUS
  <2>3. Len(none) = 0 /\ VesselKept(v, None, none, none)
    BY <1>3, <2>2
  <2>4. Follows(v, none, x) /\ x.owner = row.owner /\ x.by = row.maker /\ e1.by = row.maker
    BY <1>0, <1>2, <2>1, <2>3 DEF Follows, Front
  <2>5. VesselKept(v, row, Append(none, x), Append(none, e1))
    BY <1>2, <2>1, <2>3, <2>4, RegisterKeeps, Zenon
  <2> QED
    BY <1>4, <2>1, <2>2, <2>5
<1>6. VesselKept(v, Row("SURVEY"), <<x>>, <<e1, e2>>)
  <2>1. VesselKept(v, Row("SURVEY"), <<x>>, Append(<<e1>>, e2))
    BY <1>1, <1>2, <1>5, TransitionKeeps
  <2> QED
    BY <1>4, <2>1
<1>7. VesselKept(v, Row("REGISTRATION"), <<x>>, <<e1, e2, e3>>)
  <2>1. VesselKept(v, Row("REGISTRATION"), <<x>>, Append(<<e1, e2>>, e3))
    BY <1>1, <1>2, <1>6, TransitionKeeps
  <2> QED
    BY <1>4, <2>1
<1>8. VesselKept(v, Row("CERTIFICATE_ISSUED"), <<x>>, <<e1, e2, e3, e4>>)
  <2>1. VesselKept(v, Row("CERTIFICATE_ISSUED"), <<x>>, Append(<<e1, e2, e3>>, e4))
    BY <1>1, <1>2, <1>7, TransitionKeeps
  <2> QED
    BY <1>4, <2>1
<1> QED
  BY <1>8 DEF Row, x, e1, e2, e3, e4

LEMMA VesselsInit == RegistryInit => VesselInv
<1> SUFFICES ASSUME RegistryInit PROVE VesselInv
  OBVIOUS
<1>1. PICK m \in Officers, c \in Officers, w \in Owners, at \in Readings :
        /\ m # c
        /\ vessels = [v \in Vessels |-> IF v \notin Enrolled THEN None
                        ELSE [status |-> "CERTIFICATE_ISSUED", owner |-> w, maker |-> m]]
        /\ owners = [v \in Vessels |-> IF v \notin Enrolled THEN <<>>
                        ELSE <<ownershipRow(genesisHash(v), v, 1, w, at, m)>>]
        /\ trail = [v \in Vessels |-> IF v \notin Enrolled THEN <<>>
                        ELSE <<[type |-> "registered", to |-> "APPLICATION", by |-> m],
                               [type |-> "transitioned", to |-> "SURVEY", by |-> m],
                               [type |-> "transitioned", to |-> "REGISTRATION", by |-> c],
                               [type |-> "transitioned", to |-> "CERTIFICATE_ISSUED", by |-> c]>>]
  BY DEF RegistryInit
<1>2. ASSUME NEW v \in Vessels PROVE VesselKept(v, vessels[v], owners[v], trail[v])
  <2>1. CASE v \in Enrolled
    BY <1>1, <2>1, EnrolledKept
  <2>2. CASE v \notin Enrolled
    <3>1. vessels[v] = None /\ owners[v] = <<>> /\ trail[v] = <<>>
      BY <1>1, <2>2
    <3>2. <<>> \in Seq({})
      OBVIOUS
    <3>3. SomeSeq(<<>>)
      BY <3>2 DEF SomeSeq
    <3> QED
      BY <3>1, <3>3 DEF VesselKept
  <2> QED
    BY <2>1, <2>2
<1>3. /\ vessels = [v \in Vessels |-> vessels[v]] /\ owners = [v \in Vessels |-> owners[v]]
      /\ trail = [v \in Vessels |-> trail[v]]
  BY <1>1
<1> QED
  BY <1>2, <1>3 DEF VesselInv

LEMMA TrailFromInv == VesselInv => VesselTrailExplains
<1> SUFFICES ASSUME VesselInv, NEW v \in Rows(vessels)
             PROVE  LET event(i) == trail[v][i]
                        moves == {i \in DOMAIN trail[v] : event(i).type # "transferred"}
                        changes == {i \in DOMAIN trail[v] : event(i).type # "transitioned"}
                        entry(i) == owners[v][Cardinality({j \in changes : j <= i})]
                    IN /\ \E i \in moves : vessels[v].status = event(i).to /\ \A j \in moves : j <= i
                       /\ vessels[v].owner = LastOf(owners[v]).owner
                       /\ Len(owners[v]) = Cardinality(changes)
                       /\ \A i \in changes : /\ entry(i).by = event(i).by
                                             /\ event(i).type = "transferred" => entry(i).owner = event(i).to
                       /\ \A i \in DOMAIN owners[v] :
                            /\ owners[v][i].seq = i /\ owners[v][i].vessel = v
                            /\ owners[v][i].previous = IF i = 1 THEN genesisHash(v) ELSE owners[v][i - 1].hash
                            /\ \E at \in Readings :
                                /\ owners[v][i].at = Stored(at)
                                /\ owners[v][i].hash = chainHash(owners[v][i].previous, v, i, owners[v][i].owner, at,
                                                                 owners[v][i].by)
                       /\ event(1).type = "registered"
                       /\ \A i \in moves : event(i).to \in {"REGISTRATION", "CERTIFICATE_ISSUED"} =>
                                             event(i).by # event(1).by
  BY DEF VesselTrailExplains
<1>1. v \in Vessels /\ vessels[v] # None
  BY DEF VesselInv, Rows
<1>2. PICK row, chain, t : row = vessels[v] /\ chain = owners[v] /\ t = trail[v] /\ Explained(v, row, chain, t)
  BY <1>1 DEF VesselInv, VesselKept
<1>3. {i \in DOMAIN trail[v] : trail[v][i].type # "transferred"} = MovesIn(t)
  BY <1>2 DEF MovesIn
<1>4. {i \in DOMAIN trail[v] : trail[v][i].type # "transitioned"} = ChangesIn(t)
  BY <1>2 DEF ChangesIn
<1>5. \A i : {j \in ChangesIn(t) : j <= i} = UpTo(t, i)
  BY DEF UpTo
<1>6. /\ \E i \in MovesIn(t) : row.status = t[i].to /\ \A j \in MovesIn(t) : j <= i
      /\ row.owner = LastOf(chain).owner
      /\ Len(chain) = Cardinality(ChangesIn(t))
      /\ \A i \in ChangesIn(t) :
           /\ chain[Cardinality(UpTo(t, i))].by = t[i].by
           /\ t[i].type = "transferred" => chain[Cardinality(UpTo(t, i))].owner = t[i].to
      /\ t[1].type = "registered"
      /\ \A i \in MovesIn(t) : t[i].to \in {"REGISTRATION", "CERTIFICATE_ISSUED"} => t[i].by # t[1].by
  BY <1>2 DEF Explained
<1>7. \A i \in DOMAIN chain :
        /\ chain[i].seq = i /\ chain[i].vessel = v
        /\ chain[i].previous = IF i = 1 THEN genesisHash(v) ELSE chain[i - 1].hash
        /\ \E at \in Readings :
             /\ chain[i].at = Stored(at)
             /\ chain[i].hash = chainHash(chain[i].previous, v, i, chain[i].owner, at, chain[i].by)
  <2>1. Chained(v, chain)
    BY <1>2 DEF Explained
  <2>2. \A i \in DOMAIN chain : chain[i].previous = IF i = 1 THEN genesisHash(v) ELSE chain[i - 1].hash
    BY <2>1 DEF Chained
  <2>3. ASSUME NEW i \in DOMAIN chain
        PROVE  \E at \in Readings :
                 /\ chain[i].at = Stored(at)
                 /\ chain[i].hash = chainHash(chain[i].previous, v, i, chain[i].owner, at, chain[i].by)
    <3>1. chain[i].seq = i /\ Committed(v, chain[i])
      BY <2>1 DEF Chained
    <3> QED
      BY <3>1, Zenon DEF Committed
  <2> QED
    BY <2>1, <2>2, <2>3, Zenon DEF Chained
<1> DEFINE moves == {i \in DOMAIN trail[v] : trail[v][i].type # "transferred"}
           changes == {i \in DOMAIN trail[v] : trail[v][i].type # "transitioned"}
           entry(i) == owners[v][Cardinality({j \in changes : j <= i})]
<1>8. \E i \in moves : vessels[v].status = trail[v][i].to /\ \A j \in moves : j <= i
  BY <1>2, <1>3, <1>6, Zenon
<1>9. vessels[v].owner = LastOf(owners[v]).owner /\ Len(owners[v]) = Cardinality(changes)
  BY <1>2, <1>4, <1>6, Zenon
<1>10. ASSUME NEW i \in changes
       PROVE  entry(i).by = trail[v][i].by /\ (trail[v][i].type = "transferred" => entry(i).owner = trail[v][i].to)
  <2>1. i \in ChangesIn(t) /\ entry(i) = chain[Cardinality(UpTo(t, i))]
    BY <1>2, <1>4, <1>5, Zenon
  <2> QED
    BY <1>2, <1>6, <2>1, Zenon
<1>11. \A i \in DOMAIN owners[v] :
        /\ owners[v][i].seq = i /\ owners[v][i].vessel = v
        /\ owners[v][i].previous = IF i = 1 THEN genesisHash(v) ELSE owners[v][i - 1].hash
        /\ \E at \in Readings :
             /\ owners[v][i].at = Stored(at)
             /\ owners[v][i].hash = chainHash(owners[v][i].previous, v, i, owners[v][i].owner, at, owners[v][i].by)
  BY <1>2, <1>7, Zenon
<1>12. /\ trail[v][1].type = "registered"
       /\ \A i \in moves : trail[v][i].to \in {"REGISTRATION", "CERTIFICATE_ISSUED"} => trail[v][i].by # trail[v][1].by
  BY <1>2, <1>3, <1>6, Zenon
<1> QED
  BY <1>8, <1>9, <1>10, <1>11, <1>12, Zenon

-----------------------------------------------------------------------------
(* One licence: its row and its audit trail.                               *)

\* The status an entry of the trail leaves behind.
LeadsTo(action) ==
    CASE action = "APPLIED" -> "APPLICATION"
      [] action = "REINSTATED" -> "GRANTED"
      [] OTHER -> action

Acts == {"GRANTED", "REJECTED", "SUSPENDED", "REVOKED", "REINSTATED"}

Audited(row, t) ==
    /\ Len(t) # 0 /\ t[1] = [action |-> "APPLIED", by |-> row.by]
    /\ row.status = LeadsTo(LastOf(t).action)
    /\ Len(t) # 1 => LastOf(t).action \in Acts
    /\ \A i \in DOMAIN t \ {1} : t[i].by # row.by /\ t[i - 1].action \notin {"REJECTED", "REVOKED"}
    /\ Len(t) >= 2 => t[2].action \in {"GRANTED", "REJECTED"} /\ t[2].by = row.decidedBy

LicenceKept(row, t) ==
    /\ row \in LicenceRow \union {None} /\ SomeSeq(t)
    /\ row = None => t = <<>>
    /\ row # None => Audited(row, t)

OpenRow(row) == row # None /\ row.status \in {"APPLICATION", "GRANTED", "SUSPENDED"}

\* Two licences do not hold the place of one vessel.
Apart(r1, r2) == OpenRow(r1) /\ OpenRow(r2) /\ r1.vessel = r2.vessel => r1.vessel = None

LicenceInv ==
    /\ licences = [l \in Licences |-> licences[l]]
    /\ audit = [l \in Licences |-> audit[l]]
    /\ \A l \in Licences : LicenceKept(licences[l], audit[l])
    /\ \A k, l \in Licences : k # l => Apart(licences[k], licences[l])

\* A row that waits for its decision has one entry, a decided one has more.
LEMMA DecidedOnce ==
    ASSUME NEW row \in LicenceRow, NEW t, LicenceKept(row, t)
    PROVE  /\ Len(t) \in Nat /\ Len(t) # 0 /\ t[1].by = row.by
           /\ row.status = "APPLICATION" <=> Len(t) = 1
           /\ row.status = LeadsTo(t[Len(t)].action)
<1>1. row # None /\ Audited(row, t) /\ Len(t) \in Nat
  BY RegistryAssumptions, Appended DEF LicenceKept
<1>2. /\ Len(t) # 0 /\ t[1] = [action |-> "APPLIED", by |-> row.by]
      /\ row.status = LeadsTo(t[Len(t)].action)
      /\ Len(t) # 1 => t[Len(t)].action \in Acts
  BY <1>1 DEF Audited, LastOf
<1>3. t[1].action = "APPLIED" /\ t[1].by = row.by
  BY <1>2
<1> QED
  BY <1>1, <1>2, <1>3 DEF LeadsTo, Acts

LEMMA ApplyKeeps ==
    ASSUME NEW t, LicenceKept(None, t), NEW row \in LicenceRow, row.status = "APPLICATION",
           NEW e, e = [action |-> "APPLIED", by |-> row.by]
    PROVE  LicenceKept(row, Append(t, e))
<1> DEFINE u == Append(t, e)
<1>1. t = <<>> /\ SomeSeq(t) /\ row # None
  BY RegistryAssumptions DEF LicenceKept
<1>2. Len(t) = 0
  BY <1>1
<1>3. SomeSeq(t)
  BY <1>1
<1>4. SomeSeq(u) /\ Len(u) = Len(t) + 1 /\ DOMAIN u = 1..(Len(t) + 1) /\ u[Len(t) + 1] = e
  BY <1>3, Appended
<1> HIDE DEF u
<1>5. Len(u) = 1 /\ DOMAIN u = {1} /\ u[1] = e /\ LastOf(u) = e
  BY <1>2, <1>4 DEF LastOf
<1>6. e.action = "APPLIED"
  OBVIOUS
<1>7. Audited(row, u)
  BY <1>5, <1>6 DEF Audited, LeadsTo
<1> QED
  BY <1>1, <1>4, <1>7 DEF LicenceKept, u

LEMMA ActKeeps ==
    ASSUME NEW row \in LicenceRow, NEW t, LicenceKept(row, t), row.status \notin {"REJECTED", "REVOKED"},
           NEW next \in LicenceRow, next.by = row.by,
           NEW e, e.by # row.by, e.action \in Acts, next.status = LeadsTo(e.action),
           row.status = "APPLICATION" => e.action \in {"GRANTED", "REJECTED"} /\ next.decidedBy = e.by,
           row.status # "APPLICATION" => next.decidedBy = row.decidedBy
    PROVE  LicenceKept(next, Append(t, e))
<1> DEFINE u == Append(t, e)
           n == Len(t)
<1>1. row # None /\ next # None /\ Audited(row, t) /\ SomeSeq(t)
  BY RegistryAssumptions DEF LicenceKept
<1>2. /\ n \in Nat /\ n # 0 /\ t[1].by = row.by /\ (row.status = "APPLICATION" <=> n = 1)
      /\ row.status = LeadsTo(t[n].action)
  BY DecidedOnce
<1>3. t[n].action \notin {"REJECTED", "REVOKED"}
  BY <1>2 DEF LeadsTo
<1>4. /\ SomeSeq(u) /\ Len(u) = n + 1 /\ DOMAIN u = 1..(n + 1) /\ u[n + 1] = e /\ DOMAIN t = 1..n
      /\ \A i \in DOMAIN t : u[i] = t[i]
  BY <1>1, Appended
<1>5. /\ t[1] = [action |-> "APPLIED", by |-> row.by]
      /\ \A i \in DOMAIN t \ {1} : t[i].by # row.by /\ t[i - 1].action \notin {"REJECTED", "REVOKED"}
      /\ n >= 2 => t[2].action \in {"GRANTED", "REJECTED"} /\ t[2].by = row.decidedBy
  BY <1>1 DEF Audited
<1> HIDE DEF u, n
<1>6. Len(u) # 0 /\ u[1] = [action |-> "APPLIED", by |-> next.by]
  <2>1. u[1] = t[1]
    BY <1>2, <1>4
  <2> QED
    BY <1>2, <1>4, <1>5, <2>1
<1>7. LastOf(u) = e
  BY <1>4 DEF LastOf
<1>8. ASSUME NEW i \in DOMAIN u \ {1} PROVE u[i].by # next.by /\ u[i - 1].action \notin {"REJECTED", "REVOKED"}
  <2>1. CASE i \in DOMAIN t
    <3>1. u[i] = t[i] /\ u[i - 1] = t[i - 1]
      BY <1>2, <1>4, <2>1
    <3> QED
      BY <1>5, <2>1, <3>1
  <2>2. CASE i = n + 1
    <3>1. u[i] = e /\ i - 1 = n /\ n \in DOMAIN t
      BY <1>2, <1>4, <2>2
    <3>2. u[i - 1] = t[n]
      BY <1>4, <3>1
    <3> QED
      BY <1>3, <3>1, <3>2
  <2> QED
    BY <1>2, <1>4, <2>1, <2>2
<1>9. u[2].action \in {"GRANTED", "REJECTED"} /\ u[2].by = next.decidedBy
  <2>1. CASE n = 1
    <3>1. u[2] = e
      BY <1>4, <2>1
    <3> QED
      BY <1>2, <2>1, <3>1
  <2>2. CASE n # 1
    <3>1. n >= 2 /\ u[2] = t[2]
      BY <1>2, <1>4, <2>2
    <3> QED
      BY <1>2, <1>5, <2>2, <3>1
  <2> QED
    BY <2>1, <2>2
<1>10. Audited(next, u)
  BY <1>6, <1>7, <1>8, <1>9 DEF Audited
<1> QED
  BY <1>1, <1>4, <1>10 DEF LicenceKept, u

LEMMA OneLicenceWritten ==
    ASSUME LicenceInv, NEW l \in Licences, NEW row, NEW t, LicenceKept(row, t),
           licences' = Put(licences, l, row), audit' = Put(audit, l, t),
           \A k \in Licences \ {l} : Apart(licences[k], row) /\ Apart(row, licences[k])
    PROVE  LicenceInv'
<1>1. licences = [k \in Licences |-> licences[k]] /\ audit = [k \in Licences |-> audit[k]]
  BY DEF LicenceInv
<1>2. /\ licences'[l] = row /\ (\A k \in Licences \ {l} : licences'[k] = licences[k])
      /\ licences' = [k \in Licences |-> licences'[k]]
  BY <1>1, PutAt
<1>3. /\ audit'[l] = t /\ (\A k \in Licences \ {l} : audit'[k] = audit[k])
      /\ audit' = [k \in Licences |-> audit'[k]]
  BY <1>1, PutAt
<1>4. ASSUME NEW k \in Licences PROVE LicenceKept(licences'[k], audit'[k])
  <2>1. CASE k = l
    BY <1>2, <1>3, <2>1
  <2>2. CASE k # l
    <3>1. LicenceKept(licences[k], audit[k]) /\ licences'[k] = licences[k] /\ audit'[k] = audit[k]
      BY <1>2, <1>3, <2>2 DEF LicenceInv
    <3> QED
      BY <3>1
  <2> QED
    BY <2>1, <2>2
<1>5. ASSUME NEW j \in Licences, NEW k \in Licences, j # k PROVE Apart(licences'[j], licences'[k])
  <2>1. CASE j = l
    <3>1. licences'[j] = row /\ licences'[k] = licences[k] /\ Apart(row, licences[k])
      BY <1>2, <1>5, <2>1
    <3> QED
      BY <3>1
  <2>2. CASE k = l
    <3>1. licences'[k] = row /\ licences'[j] = licences[j] /\ Apart(licences[j], row)
      BY <1>2, <1>5, <2>2
    <3> QED
      BY <3>1
  <2>3. CASE j # l /\ k # l
    <3>1. licences'[k] = licences[k] /\ licences'[j] = licences[j] /\ Apart(licences[j], licences[k])
      BY <1>2, <1>5, <2>3 DEF LicenceInv
    <3> QED
      BY <3>1
  <2> QED
    BY <2>1, <2>2, <2>3
<1> QED
  BY <1>2, <1>3, <1>4, <1>5 DEF LicenceInv

LEMMA LicencesUntouched ==
    ASSUME LicenceInv, UNCHANGED fisheryVars
    PROVE  LicenceInv'
BY DEF LicenceInv, fisheryVars

LEMMA ApplyStep ==
    ASSUME LicenceInv, NEW l \in Licences, NEW v \in Vessels \union {None}, NEW aquaculture \in BOOLEAN,
           NEW w \in Owners, NEW o \in Officers, ApplyFisheriesPermit(l, v, aquaculture, w, o)
    PROVE  LicenceInv'
<1>1. PICK row \in LicenceRow : row = [vessel |-> v, owner |-> w, status |-> "APPLICATION", by |-> o, decidedBy |-> None]
  BY DEF LicenceRow
<1>2. row.vessel = v /\ row.status = "APPLICATION" /\ row.by = o
  BY <1>1
<1>3. PICK e : e = [action |-> "APPLIED", by |-> o]
  OBVIOUS
<1>4. PICK t : t = audit[l]
  OBVIOUS
<1>5. licences[l] = None /\ (v # None => ~PlaceTaken(v))
  BY DEF ApplyFisheriesPermit
<1>6. licences' = Put(licences, l, row) /\ audit' = Put(audit, l, Append(t, e))
  BY <1>1, <1>3, <1>4, Zenon DEF ApplyFisheriesPermit, insertFisheriesAudit, Put
<1>7. LicenceKept(None, t)
  BY <1>4, <1>5 DEF LicenceInv
<1>8. LicenceKept(row, Append(t, e))
  BY <1>2, <1>3, <1>7, ApplyKeeps
<1>9. ASSUME NEW k \in Licences \ {l} PROVE Apart(licences[k], row) /\ Apart(row, licences[k])
  BY <1>2, <1>5 DEF Apart, OpenRow, PlaceTaken, OpenLicence
<1> QED
  BY <1>6, <1>8, <1>9, OneLicenceWritten

\* A licence that was open keeps the place it had.
LEMMA PlaceKept ==
    ASSUME LicenceInv, NEW l \in Licences, NEW row, row = licences[l], NEW next, next.vessel = row.vessel, OpenRow(row)
    PROVE  \A k \in Licences \ {l} : Apart(licences[k], next) /\ Apart(next, licences[k])
<1>1. \A k \in Licences \ {l} : Apart(licences[k], row) /\ Apart(row, licences[k])
  BY DEF LicenceInv
<1> QED
  BY <1>1 DEF Apart

LEMMA DecideStep ==
    ASSUME LicenceInv, NEW l \in Licences, NEW grant \in BOOLEAN, NEW o \in Officers, DecideFisheriesPermit(l, grant, o)
    PROVE  LicenceInv'
<1>1. PICK row \in LicenceRow : row = licences[l]
  BY DEF DecideFisheriesPermit, LicenceInv, LicenceKept
<1>2. PICK s \in {"GRANTED", "REJECTED"} : s = IF grant THEN "GRANTED" ELSE "REJECTED"
  OBVIOUS
<1>3. PICK next : next = [row EXCEPT !.status = s, !.decidedBy = o]
  OBVIOUS
<1>4. next \in LicenceRow /\ next.status = s /\ next.decidedBy = o /\ next.by = row.by /\ next.vessel = row.vessel
  BY <1>3 DEF LicenceRow
<1>5. PICK e : e = [action |-> s, by |-> o]
  OBVIOUS
<1>6. e.action = s /\ e.by = o
  BY <1>5
<1>7. PICK t : t = audit[l]
  OBVIOUS
<1>8. row # None /\ row.status = "APPLICATION" /\ row.by # o
  BY <1>1 DEF DecideFisheriesPermit
<1>9. licences' = Put(licences, l, next)
  BY <1>1, <1>2, <1>3 DEF DecideFisheriesPermit, Put
<1>10. audit' = Put(audit, l, Append(t, e))
  BY <1>2, <1>5, <1>7 DEF DecideFisheriesPermit, insertFisheriesAudit, Put
<1>11. LicenceKept(row, t)
  BY <1>1, <1>7 DEF LicenceInv
<1>12. e.action \in Acts /\ e.action \in {"GRANTED", "REJECTED"} /\ next.status = LeadsTo(e.action)
  BY <1>4, <1>6 DEF Acts, LeadsTo
<1>13. LicenceKept(next, Append(t, e))
  BY <1>4, <1>6, <1>8, <1>11, <1>12, ActKeeps
<1>14. OpenRow(row)
  BY <1>8 DEF OpenRow
<1>15. \A k \in Licences \ {l} : Apart(licences[k], next) /\ Apart(next, licences[k])
  BY <1>1, <1>4, <1>14, PlaceKept
<1> QED
  BY <1>9, <1>10, <1>13, <1>15, OneLicenceWritten

LEMMA MoveStep ==
    ASSUME LicenceInv, NEW l \in Licences, NEW target \in {"GRANTED", "SUSPENDED", "REVOKED"}, NEW o \in Officers,
           TransitionFisheriesPermit(l, target, o)
    PROVE  LicenceInv'
<1>1. PICK row \in LicenceRow : row = licences[l]
  BY DEF TransitionFisheriesPermit, LicenceInv, LicenceKept
<1>2. PICK next : next = [row EXCEPT !.status = target]
  OBVIOUS
<1>3. /\ next \in LicenceRow /\ next.status = target /\ next.decidedBy = row.decidedBy
      /\ next.by = row.by /\ next.vessel = row.vessel
  BY <1>2 DEF LicenceRow
<1>4. PICK a : a = IF target = "GRANTED" THEN "REINSTATED" ELSE target
  OBVIOUS
<1>5. PICK e : e = [action |-> a, by |-> o]
  OBVIOUS
<1>6. e.action = a /\ e.by = o
  BY <1>5
<1>7. PICK t : t = audit[l]
  OBVIOUS
<1>8. row # None /\ row.status \in {"GRANTED", "SUSPENDED"} /\ row.by # o
  BY <1>1 DEF TransitionFisheriesPermit, validFisheriesTransition
<1>9. licences' = Put(licences, l, next)
  BY <1>1, <1>2 DEF TransitionFisheriesPermit, Put
<1>10. audit' = Put(audit, l, Append(t, e))
  BY <1>4, <1>5, <1>7 DEF TransitionFisheriesPermit, insertFisheriesAudit, Put
<1>11. LicenceKept(row, t)
  BY <1>1, <1>7 DEF LicenceInv
<1>12. e.action \in Acts /\ next.status = LeadsTo(e.action)
  BY <1>3, <1>4, <1>6 DEF Acts, LeadsTo
<1>13. row.status # "APPLICATION" /\ row.status \notin {"REJECTED", "REVOKED"}
  BY <1>8
<1>14. LicenceKept(next, Append(t, e))
  BY <1>3, <1>6, <1>8, <1>11, <1>12, <1>13, ActKeeps
<1>15. OpenRow(row)
  BY <1>8 DEF OpenRow
<1>16. \A k \in Licences \ {l} : Apart(licences[k], next) /\ Apart(next, licences[k])
  BY <1>1, <1>3, <1>15, PlaceKept
<1> QED
  BY <1>9, <1>10, <1>14, <1>16, OneLicenceWritten

LEMMA LicencesInit == RegistryInit => LicenceInv
<1> SUFFICES ASSUME RegistryInit PROVE LicenceInv
  OBVIOUS
<1>1. licences = [l \in Licences |-> None] /\ audit = [l \in Licences |-> <<>>]
  BY DEF RegistryInit
<1>2. <<>> \in Seq({})
  OBVIOUS
<1>3. SomeSeq(<<>>)
  BY <1>2 DEF SomeSeq
<1>4. \A l \in Licences : LicenceKept(licences[l], audit[l])
  BY <1>1, <1>3 DEF LicenceKept
<1>5. \A k, l \in Licences : Apart(licences[k], licences[l])
  BY <1>1 DEF Apart, OpenRow
<1> QED
  BY <1>1, <1>4, <1>5 DEF LicenceInv

LEMMA LicenceTrailFromInv == LicenceInv => LicenceTrailExplains
<1> SUFFICES ASSUME LicenceInv PROVE LicenceTrailExplains
  OBVIOUS
<1>1. ASSUME NEW l \in Rows(licences)
      PROVE  /\ audit[l][1] = [action |-> "APPLIED", by |-> licences[l].by]
             /\ licences[l].status = LeadsTo(LastOf(audit[l]).action)
             /\ \A i \in DOMAIN audit[l] \ {1} :
                  audit[l][i].by # licences[l].by /\ audit[l][i - 1].action \notin {"REJECTED", "REVOKED"}
             /\ Len(audit[l]) >= 2 => audit[l][2].action \in {"GRANTED", "REJECTED"} /\ audit[l][2].by = licences[l].decidedBy
  <2>1. l \in Licences /\ licences[l] # None
    BY DEF LicenceInv, Rows
  <2>2. PICK row, t : row = licences[l] /\ t = audit[l] /\ Audited(row, t)
    BY <2>1 DEF LicenceInv, LicenceKept
  <2> QED
    BY <2>2 DEF Audited
<1>2. ASSUME NEW k \in Licences, NEW l \in Licences, OpenLicence(k), OpenLicence(l), licences[k].vessel = licences[l].vessel
      PROVE  k = l \/ licences[k].vessel = None
  <2>1. OpenRow(licences[k]) /\ OpenRow(licences[l])
    BY <1>2 DEF OpenLicence, OpenRow
  <2>2. k # l => Apart(licences[k], licences[l])
    BY DEF LicenceInv
  <2> QED
    BY <1>2, <2>1, <2>2 DEF Apart
<1> QED
  BY <1>1, <1>2 DEF LicenceTrailExplains, LeadsTo

-----------------------------------------------------------------------------
RegistryInv == VesselInv /\ RulesInv /\ LicenceInv

LEMMA RegistryInitInv == RegistryInit => RegistryInv
<1>1. RegistryInit => RulesInv
  BY DEF RegistryInit, RulesInv, Rows
<1> QED
  BY <1>1, VesselsInit, LicencesInit DEF RegistryInv

LEMMA RegistryStep ==
    ASSUME RegistryInv, [RegistryNext]_registryVars
    PROVE  RegistryInv'
<1>1. CASE UNCHANGED registryVars
  <2>1. UNCHANGED vesselVars /\ UNCHANGED <<rules, installing>> /\ UNCHANGED fisheryVars
    BY <1>1 DEF registryVars, cabotageVars
  <2> QED
    BY <2>1, VesselsUntouched, RulesUntouched, LicencesUntouched DEF RegistryInv
<1>2. ASSUME NEW o \in Officers, NEW v \in Vessels, VesselStep(v, o), UNCHANGED <<cabotageVars, fisheryVars>>
      PROVE  RegistryInv'
  <2>1. UNCHANGED <<rules, installing>> /\ UNCHANGED fisheryVars
    BY <1>2 DEF cabotageVars
  <2>2. VesselInv'
    BY <1>2, RegisterStep, TransferStep, TransitionStep DEF RegistryInv, VesselStep
  <2> QED
    BY <2>1, <2>2, RulesUntouched, LicencesUntouched DEF RegistryInv
<1>3. ASSUME NEW o \in Officers, CabotageStep(o), UNCHANGED <<vesselVars, fisheryVars>>
      PROVE  RegistryInv'
  <2>1. UNCHANGED vesselVars /\ UNCHANGED fisheryVars
    BY <1>3
  <2>2. RulesInv'
    <3>1. ASSUME NEW r \in Rules, RetireRules(r) PROVE RulesInv'
      BY <3>1, RetireStep DEF RegistryInv
    <3>2. ASSUME NEW r \in Rules, NEW terms \in Terms, UpsertCabotageRule(r, terms) PROVE RulesInv'
      BY <3>2, UpsertStep DEF RegistryInv
    <3>3. ASSUME UNCHANGED <<rules, installing>> PROVE RulesInv'
      BY <3>3, RulesUntouched DEF RegistryInv
    <3> QED
      BY <1>3, <3>1, <3>2, <3>3 DEF CabotageStep, ApplyPermit, DecidePermit, FlagViolation, ResolveViolation
  <2> QED
    BY <2>1, <2>2, VesselsUntouched, LicencesUntouched DEF RegistryInv
<1>4. ASSUME NEW o \in Officers, NEW l \in Licences, FisheryStep(l, o), UNCHANGED <<vesselVars, cabotageVars>>
      PROVE  RegistryInv'
  <2>1. UNCHANGED vesselVars /\ UNCHANGED <<rules, installing>>
    BY <1>4 DEF cabotageVars
  <2>2. LicenceInv'
    BY <1>4, ApplyStep, DecideStep, MoveStep DEF RegistryInv, FisheryStep
  <2> QED
    BY <2>1, <2>2, VesselsUntouched, RulesUntouched DEF RegistryInv
<1> QED
  BY <1>1, <1>2, <1>3, <1>4 DEF RegistryNext

LEMMA RegistryKeepsInv == RegistrySpec => []RegistryInv
BY RegistryInitInv, RegistryStep, PTL DEF RegistrySpec

\* However registrations, transitions and transfers interleave, the events of
\* a vessel account for its status, its owner and every entry of its chain,
\* whose hash is that of the row up to the part of the instant the column
\* dropped, and the maker of an application never took it past the survey
\* (Register, Transition, TransferOwnership).
THEOREM VesselTrailsExplain == RegistrySpec => []VesselTrailExplains
<1>1. RegistryInv => VesselTrailExplains
  BY TrailFromInv DEF RegistryInv
<1> QED
  BY <1>1, RegistryKeepsInv, PTL

\* On a clock that reads whole units of the column, as if the instants were
\* truncated before they are hashed, every ownership history verifies: the
\* lost part of the instant is all that OwnershipHistory can fail on
\* (appendOwnership, OwnershipHistory).
THEOREM WholeInstantsVerify ==
    ASSUME \A at \in Readings : Stored(at) = at
    PROVE  RegistrySpec => []OwnershipVerifies
<1>1. ASSUME RegistryInv PROVE OwnershipVerifies
  <2>1. ASSUME NEW v \in Rows(vessels), NEW i \in DOMAIN owners[v]
        PROVE  /\ owners[v][i].previous = IF i = 1 THEN genesisHash(v) ELSE owners[v][i - 1].hash
               /\ owners[v][i].hash = chainHash(owners[v][i].previous, owners[v][i].vessel, owners[v][i].seq,
                                                owners[v][i].owner, owners[v][i].at, owners[v][i].by)
    <3>1. v \in Vessels /\ vessels[v] # None
      BY <1>1 DEF RegistryInv, VesselInv, Rows
    <3>2. Chained(v, owners[v])
      BY <1>1, <3>1 DEF RegistryInv, VesselInv, VesselKept, Explained
    <3>3. owners[v][i].vessel = v /\ Committed(v, owners[v][i])
      BY <3>2 DEF Chained
    <3>4. owners[v][i].previous = IF i = 1 THEN genesisHash(v) ELSE owners[v][i - 1].hash
      BY <3>2 DEF Chained
    <3> QED
      BY <3>3, <3>4, Zenon DEF Committed
  <2> QED
    BY <2>1 DEF OwnershipVerifies, OwnershipHistory
<1> QED
  BY <1>1, RegistryKeepsInv, PTL

\* However two installations of a cabotage rule interleave, one rule is in
\* force once any was installed (UpsertCabotageRule and the partial index).
THEOREM OneRuleInForce == RegistrySpec => []OneRuleGoverns
<1>1. RegistryInv => OneRuleGoverns
  BY OneRuleFromInv DEF RegistryInv
<1> QED
  BY <1>1, RegistryKeepsInv, PTL

\* The audit trail of every fisheries licence leads to its status through a
\* decision of another officer than the applicant and ends with a rejection
\* or revocation; no vessel has two open licences (ApplyFisheriesPermit,
\* DecideFisheriesPermit, TransitionFisheriesPermit).
THEOREM LicenceTrailsExplain == RegistrySpec => []LicenceTrailExplains
<1>1. RegistryInv => LicenceTrailExplains
  BY LicenceTrailFromInv DEF RegistryInv
<1> QED
  BY <1>1, RegistryKeepsInv, PTL

-----------------------------------------------------------------------------
(* Seafarer certificates.                                                  *)


UsageRow == [outcome : {"NOT_FOUND", "VALID", "ACTIVE", "SUSPENDED", "EXPIRED", "REVOKED"}, at : Nat]

ToldTrue(row, told, t) ==
    /\ row # NoCert /\ row.status = "EXPIRED" => row.expires <= t
    /\ \A i \in DOMAIN told :
        /\ told[i].outcome = "VALID" => row # NoCert /\ told[i].at < row.expires
        /\ told[i].outcome = "EXPIRED" => row # NoCert /\ row.expires <= t
        /\ told[i].outcome = "REVOKED" => row # NoCert /\ row.status = "REVOKED"
        /\ \A j \in DOMAIN told : i < j =>
             /\ told[i].outcome = "EXPIRED" => told[j].outcome # "VALID"
             /\ told[i].outcome = "REVOKED" => told[j].outcome = "REVOKED"

CertInv ==
    /\ CertTypeOK
    /\ usage \in [Certificates -> Seq(UsageRow)]
    /\ \A c \in Certificates : ToldTrue(certs[c], usage[c], now)

LEMMA CertInitInv == CertInit => CertInv
BY CertificateAssumptions DEF CertInit, CertInv, CertTypeOK, ToldTrue

\* A row that keeps its expiry and leaves neither EXPIRED nor REVOKED, at a
\* later time, does not belie what was told.
LEMMA ToldLater ==
    ASSUME NEW row \in CertRow \union {NoCert}, NEW told \in Seq(UsageRow), NEW t \in Nat, ToldTrue(row, told, t),
           NEW next \in CertRow \union {NoCert}, NEW u \in Nat, t <= u,
           row # NoCert => next # NoCert /\ next.expires = row.expires
                         /\ (row.status = "REVOKED" => next.status = "REVOKED"),
           next # NoCert /\ next.status = "EXPIRED" => next.expires <= u
    PROVE  ToldTrue(next, told, u)
<1>1. row # NoCert => row.expires \in Nat
  BY CertificateAssumptions DEF CertRow
<1> QED
  BY <1>1 DEF ToldTrue

\* One more verification, by the clock and the row of this moment.
LEMMA ToldOnce ==
    ASSUME NEW row \in CertRow \union {NoCert}, NEW told \in Seq(UsageRow), NEW t \in Nat, ToldTrue(row, told, t),
           NEW e \in UsageRow, e.at = t,
           e.outcome = IF row = NoCert THEN "NOT_FOUND"
                       ELSE IF row.status = "ACTIVE" THEN IF t >= row.expires THEN "EXPIRED" ELSE "VALID"
                       ELSE row.status
    PROVE  ToldTrue(row, Append(told, e), t)
<1> DEFINE n == Len(told)
           next == Append(told, e)
<1>1. /\ n \in Nat /\ DOMAIN told = 1..n /\ DOMAIN next = 1..(n + 1) /\ next[n + 1] = e
      /\ \A i \in 1..n : next[i] = told[i]
  OBVIOUS
<1>2. row # NoCert => row.expires \in Nat /\ row.status \in {"ACTIVE", "SUSPENDED", "EXPIRED", "REVOKED"}
  BY CertificateAssumptions DEF CertRow
<1>3. /\ e.outcome = "VALID" => row # NoCert /\ t < row.expires
      /\ e.outcome = "EXPIRED" => row # NoCert /\ row.expires <= t
      /\ e.outcome = "REVOKED" => row # NoCert /\ row.status = "REVOKED"
  BY <1>2 DEF ToldTrue
<1>4. row # NoCert /\ row.status = "REVOKED" => e.outcome = "REVOKED"
  OBVIOUS
<1> HIDE DEF next, n
<1>5. ASSUME NEW i \in 1..(n + 1)
      PROVE  /\ next[i].outcome = "VALID" => row # NoCert /\ next[i].at < row.expires
             /\ next[i].outcome = "EXPIRED" => row # NoCert /\ row.expires <= t
             /\ next[i].outcome = "REVOKED" => row # NoCert /\ row.status = "REVOKED"
  <2>1. CASE i = n + 1
    BY <1>1, <1>3, <2>1
  <2>2. CASE i \in 1..n
    BY <1>1, <2>2 DEF ToldTrue
  <2> QED
    BY <1>1, <2>1, <2>2
<1>6. ASSUME NEW i \in 1..(n + 1), NEW j \in 1..(n + 1), i < j
      PROVE  /\ next[i].outcome = "EXPIRED" => next[j].outcome # "VALID"
             /\ next[i].outcome = "REVOKED" => next[j].outcome = "REVOKED"
  <2>1. i \in 1..n
    BY <1>1, <1>6
  <2>2. CASE j = n + 1
    <3>1. next[j] = e
      BY <1>1, <2>2
    <3>2. next[i].outcome = "EXPIRED" => e.outcome # "VALID"
      BY <1>2, <1>3, <1>5
    <3> QED
      BY <1>4, <1>5, <3>1, <3>2
  <2>3. CASE j \in 1..n
    <3>1. next[i] = told[i] /\ next[j] = told[j] /\ i \in DOMAIN told /\ j \in DOMAIN told
      BY <1>1, <2>1, <2>3
    <3> QED
      BY <1>6, <3>1 DEF ToldTrue
  <2> QED
    BY <1>1, <2>2, <2>3
<1> QED
  BY <1>1, <1>5, <1>6 DEF ToldTrue, next

\* Rows change, the verifications and the clock do not.
LEMMA RowsChange ==
    ASSUME CertInv, usage' = usage, now' = now, certs' \in [Certificates -> CertRow \union {NoCert}],
           holders' \subseteq Certificates, cursor' \in 0..Tenants,
           \A c \in Certificates : certs'[c] # NoCert => c \in holders',
           \A c \in Certificates :
             /\ certs[c] # NoCert => certs'[c] # NoCert /\ certs'[c].expires = certs[c].expires
                                   /\ (certs[c].status = "REVOKED" => certs'[c].status = "REVOKED")
             /\ certs'[c] # NoCert /\ certs'[c].status = "EXPIRED" => certs'[c].expires <= now
    PROVE  CertInv'
<1>1. CertTypeOK' /\ usage' \in [Certificates -> Seq(UsageRow)]
  BY DEF CertInv, CertTypeOK
<1>2. ASSUME NEW c \in Certificates PROVE ToldTrue(certs'[c], usage'[c], now')
  <2>1. /\ certs[c] \in CertRow \union {NoCert} /\ certs'[c] \in CertRow \union {NoCert}
        /\ usage[c] \in Seq(UsageRow) /\ now \in Nat /\ now <= now /\ ToldTrue(certs[c], usage[c], now)
    BY CertificateAssumptions DEF CertInv, CertTypeOK
  <2>2. ToldTrue(certs'[c], usage[c], now)
    BY <2>1, ToldLater
  <2> QED
    BY <2>2
<1> QED
  BY <1>1, <1>2 DEF CertInv

\* The status of one row is set.
LEMMA StatusSet ==
    ASSUME NEW row \in CertRow, NEW s \in {"ACTIVE", "SUSPENDED", "EXPIRED", "REVOKED"},
           NEW next, next = [row EXCEPT !.status = s]
    PROVE  next \in CertRow /\ next.status = s /\ next.expires = row.expires /\ next # NoCert
BY CertificateAssumptions DEF CertRow

LEMMA ExpiredInTime ==
    ASSUME CertInv, NEW c \in Certificates, certs[c] # NoCert, certs[c].status = "EXPIRED"
    PROVE  certs[c].expires <= now
BY DEF CertInv, ToldTrue

LEMMA CertStep == CertInv /\ [CertNext]_certVars => CertInv'
<1> SUFFICES ASSUME CertInv, [CertNext]_certVars PROVE CertInv'
  OBVIOUS
<1>t. /\ certs \in [Certificates -> CertRow \union {NoCert}] /\ holders \subseteq Certificates /\ cursor \in 0..Tenants
      /\ \A c \in Certificates : certs[c] # NoCert => c \in holders
      /\ Tenants \in Nat \ {0}
  BY CertificateAssumptions DEF CertInv, CertTypeOK
<1>s. ASSUME certs' = certs, usage' = usage, now' = now, holders \subseteq holders', holders' \subseteq Certificates,
             cursor' \in 0..Tenants
      PROVE  CertInv'
  BY <1>t, <1>s, RowsChange, ExpiredInTime
<1>1. ASSUME NEW c \in Certificates, RegisterSeafarer(c) PROVE CertInv'
  BY <1>t, <1>s, <1>1 DEF RegisterSeafarer
<1>2. ASSUME NEW c \in Certificates, NEW expires \in Expiries, IssueCertificate(c, expires) PROVE CertInv'
  <2>1. PICK row \in CertRow : row = [status |-> "ACTIVE", expires |-> expires]
    BY DEF CertRow
  <2>2. row.status = "ACTIVE" /\ row # NoCert
    BY <2>1, CertificateAssumptions
  <2>3. /\ c \in holders /\ certs[c] = NoCert /\ certs' = [certs EXCEPT ![c] = row]
        /\ UNCHANGED <<holders, usage, cursor, now>>
    BY <1>2, <2>1 DEF IssueCertificate
  <2>4. certs'[c] = row /\ certs' \in [Certificates -> CertRow \union {NoCert}]
        /\ \A d \in Certificates \ {c} : certs'[d] = certs[d]
    BY <1>t, <2>3
  <2> QED
    BY <1>t, <2>2, <2>3, <2>4, RowsChange, ExpiredInTime
<1>3. ASSUME NEW c \in Certificates, NEW target \in DOMAIN certificateTransitions, TransitionCertificate(c, target)
      PROVE  CertInv'
  <2>1. PICK row \in CertRow : row = certs[c] /\ row # NoCert
    BY <1>t, <1>3 DEF TransitionCertificate
  <2>2. PICK next : next = [row EXCEPT !.status = target]
    OBVIOUS
  <2>3. target \in {"ACTIVE", "SUSPENDED", "EXPIRED", "REVOKED"} /\ target # "EXPIRED" /\ row.status # "REVOKED"
    BY <1>3, <2>1 DEF TransitionCertificate, certificateTransitions
  <2>4. next \in CertRow /\ next.status = target /\ next.expires = row.expires /\ next # NoCert
    BY <2>2, <2>3, StatusSet
  <2>5. certs' = [certs EXCEPT ![c] = next] /\ UNCHANGED <<holders, usage, cursor, now>>
    BY <1>3, <2>1, <2>2 DEF TransitionCertificate
  <2>6. certs'[c] = next /\ certs' \in [Certificates -> CertRow \union {NoCert}]
        /\ \A d \in Certificates \ {c} : certs'[d] = certs[d]
    BY <1>t, <2>4, <2>5
  <2> QED
    BY <1>t, <2>1, <2>3, <2>4, <2>5, <2>6, RowsChange, ExpiredInTime
<1>4. ASSUME NEW c \in Certificates, VerifyCertificate(c) PROVE CertInv'
  <2>1. PICK told \in Seq(UsageRow) : told = usage[c]
    BY DEF CertInv
  <2>2. PICK row \in CertRow \union {NoCert} : row = certs[c]
    BY <1>t
  <2>3. now \in Nat /\ ToldTrue(row, told, now)
    BY <2>1, <2>2, CertificateAssumptions DEF CertInv, CertTypeOK
  <2>4. PICK o \in {"NOT_FOUND", "VALID", "ACTIVE", "SUSPENDED", "EXPIRED", "REVOKED"} :
          /\ o = Outcome(c)
          /\ o = IF row = NoCert THEN "NOT_FOUND"
                 ELSE IF row.status = "ACTIVE" THEN IF now >= row.expires THEN "EXPIRED" ELSE "VALID"
                 ELSE row.status
    BY <2>2 DEF Outcome, CertRow
  <2>a. PICK t \in Nat : t = now
    BY <2>3
  <2>b. PICK e : e = [outcome |-> o, at |-> t]
    OBVIOUS
  <2>5. e \in UsageRow /\ e.outcome = o /\ e.at = t
    BY <2>b DEF UsageRow
  <2>6. ToldTrue(row, Append(told, e), now)
    BY <2>3, <2>4, <2>5, <2>a, ToldOnce
  <2>7. usage' = [usage EXCEPT ![c] = Append(told, e)] /\ UNCHANGED <<holders, certs, cursor, now>>
    BY <1>4, <2>1, <2>4, <2>a, <2>b DEF VerifyCertificate
  <2>8. Append(told, e) \in Seq(UsageRow)
    BY <2>5
  <2>9. /\ usage' \in [Certificates -> Seq(UsageRow)] /\ usage'[c] = Append(told, e)
        /\ \A d \in Certificates \ {c} : usage'[d] = usage[d]
    BY <2>7, <2>8 DEF CertInv
  <2>10. \A d \in Certificates : ToldTrue(certs'[d], usage'[d], now')
    BY <2>2, <2>6, <2>7, <2>9 DEF CertInv
  <2>11. CertTypeOK'
    BY <2>7 DEF CertInv, CertTypeOK
  <2> QED
    BY <2>9, <2>10, <2>11 DEF CertInv
<1>5. CASE StartSweep
  BY <1>t, <1>s, <1>5 DEF StartSweep
<1>6. CASE SweepOnce
  <2>1. UNCHANGED <<holders, usage, now>> /\ cursor' \in 0..Tenants
    BY <1>t, <1>6 DEF SweepOnce, NextTenant
  <2>2. CASE certs' = certs
    BY <1>t, <1>s, <2>1, <2>2
  <2>3. CASE certs' # certs
    <3>1. certs' = [c \in Certificates |-> IF Tenant[c] = cursor /\ Lapsed(c) THEN [certs[c] EXCEPT !.status = "EXPIRED"]
                                           ELSE certs[c]]
      BY <1>6, <2>3 DEF SweepOnce, ExpireCertificates
    <3>2. ASSUME NEW c \in Certificates
          PROVE  /\ certs'[c] \in CertRow \union {NoCert}
                 /\ certs'[c] # NoCert => certs[c] # NoCert
                 /\ certs[c] # NoCert => certs'[c] # NoCert /\ certs'[c].expires = certs[c].expires
                                       /\ (certs[c].status = "REVOKED" => certs'[c].status = "REVOKED")
                 /\ certs'[c] # NoCert /\ certs'[c].status = "EXPIRED" => certs'[c].expires <= now
      <4>1. CASE Tenant[c] = cursor /\ Lapsed(c)
        <5>1. PICK row \in CertRow : row = certs[c] /\ row.status = "ACTIVE" /\ row.expires <= now
          BY <1>t, <4>1 DEF Lapsed
        <5>2. PICK next : next = [row EXCEPT !.status = "EXPIRED"]
          OBVIOUS
        <5>3. next \in CertRow /\ next.status = "EXPIRED" /\ next.expires = row.expires /\ next # NoCert
          BY <5>2, StatusSet
        <5>4. certs'[c] = next
          BY <3>1, <4>1, <5>1, <5>2
        <5>5. certs[c] # NoCert
          BY <4>1 DEF Lapsed
        <5> QED
          BY <5>1, <5>3, <5>4, <5>5
      <4>2. CASE ~(Tenant[c] = cursor /\ Lapsed(c))
        <5>1. certs'[c] = certs[c]
          BY <3>1, <4>2
        <5> QED
          BY <1>t, <5>1, ExpiredInTime
      <4> QED
        BY <4>1, <4>2
    <3>3. certs' \in [Certificates -> CertRow \union {NoCert}]
      BY <3>1, <3>2
    <3> QED
      BY <1>t, <2>1, <3>2, <3>3, RowsChange
  <2> QED
    BY <2>2, <2>3
<1>7. CASE Tick
  <2>1. now \in 0..MaxTime /\ MaxTime \in Nat /\ now' = now + 1 /\ now < MaxTime /\ UNCHANGED <<holders, certs, usage, cursor>>
    BY <1>7, CertificateAssumptions DEF Tick, CertInv, CertTypeOK
  <2>2. now' \in 0..MaxTime /\ now \in Nat /\ now' \in Nat /\ now <= now'
    BY <2>1
  <2>3. ASSUME NEW c \in Certificates PROVE ToldTrue(certs'[c], usage'[c], now')
    <3>1. /\ certs[c] \in CertRow \union {NoCert} /\ usage[c] \in Seq(UsageRow) /\ ToldTrue(certs[c], usage[c], now)
      BY <1>t DEF CertInv
    <3>2. certs[c] # NoCert => certs[c].expires \in Nat
      BY <1>t, CertificateAssumptions DEF CertRow
    <3>3. certs[c] # NoCert /\ certs[c].status = "EXPIRED" => certs[c].expires <= now'
      BY <2>2, <3>2, ExpiredInTime
    <3>4. ToldTrue(certs[c], usage[c], now')
      BY <2>2, <3>1, <3>3, ToldLater
    <3> QED
      BY <2>1, <3>4
  <2> QED
    BY <2>1, <2>2, <2>3 DEF CertInv, CertTypeOK
<1>8. CASE UNCHANGED certVars
  BY <1>t, <1>s, <1>8 DEF certVars
<1> QED
  BY <1>1, <1>2, <1>3, <1>4, <1>5, <1>6, <1>7, <1>8 DEF CertNext

\* Certificates, clock and cursor of the sweep keep their types.
THEOREM CertificatesTyped == CertSpec => []CertTypeOK
<1>1. CertInv => CertTypeOK
  BY DEF CertInv
<1> QED
  BY <1>1, CertInitInv, CertStep, PTL DEF CertSpec

\* What third parties were told stays true, however late the sweep is, however
\* often it fails and whatever officers do between two verifications: VALID
\* was before the expiry, never again VALID after EXPIRED, REVOKED for good
\* (VerifyCertificate, ExpireCertificates, TransitionCertificate).
THEOREM VerificationsHonest == CertSpec => []VerificationHonest
<1>1. CertInv => VerificationHonest
  BY DEF CertInv, ToldTrue, VerificationHonest
<1> QED
  BY <1>1, CertInitInv, CertStep, PTL DEF CertSpec
=============================================================================
