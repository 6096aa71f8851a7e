---------------------------- MODULE PortCallProofs ----------------------------
(***************************************************************************)
(* What the events of a port call say about the call, for any number of    *)
(* calls, documents, officers and messages and any lifetime of a           *)
(* reservation: OutboxReplays, FourEyesChain, ApprovalVerified and         *)
(* OneCallPerMessage.                                                      *)
(*                                                                         *)
(* A step writes the rows and the events of one call, so the invariant is  *)
(* a predicate CallKept on the rows and events of a single call, and each  *)
(* operation has a lemma on those alone.  The run properties name the last *)
(* event of a kind with a CHOOSE; the invariant says of some position that *)
(* it is the last (LastAt), which an appended event either takes over or   *)
(* leaves alone.                                                           *)
(***************************************************************************)
EXTENDS PortCall, FiniteSetTheorems, TLAPS

VersionTypes == {"created", "status_changed", "clearance_decided", "clearance_amended"}
VerdictTypes == {"clearance_decided", "clearance_amended"}
MoveTypes == {"status_changed", "clearance_amended"}
Statuses == {"DRAFT", "SUBMITTED", "ACCEPTED", "REJECTED"}

Event ==
    [type : {"created"}, version : Nat]
        \union [type : {"status_changed"}, status : Statuses, version : Nat]
        \union [type : {"document_declared", "document_superseded"}, doc : Docs]
        \union [type : {"document_reviewed"}, doc : Docs, verdict : {"VERIFIED", "REJECTED"}]
        \union [type : VerdictTypes, verdict : Decisions, by : Officers, version : Nat]

Amendment == [prior : Decisions, amended : Decisions, by : Officers, version : Nat]

At(s, T) == {i \in DOMAIN s : s[i].type \in T}
LastAt(s, T, i) == i \in At(s, T) /\ \A j \in At(s, T) : j <= i

-----------------------------------------------------------------------------
(* The rows and the events of one call.                                    *)

Blank(call, doc, dec, am, s) ==
    call = None =>
        /\ s = <<>> /\ dec = None /\ am = <<>>
        /\ \A d \in Docs : doc[d] = "NONE"

VersionKept(call, s) ==
    call # None =>
        /\ \E i \in DOMAIN s : LastAt(s, VersionTypes, i) /\ s[i].version = call.version
        /\ Cardinality(At(s, VersionTypes)) = call.version

Took(dec, x) == dec.verdict = x.verdict /\ dec.by = x.by /\ dec.version = x.version

VerdictKept(dec, s) ==
    /\ dec = None => At(s, VerdictTypes) = {}
    /\ dec # None => \E i \in DOMAIN s : LastAt(s, VerdictTypes, i) /\ Took(dec, s[i])

Said(x) == IF x.type = "status_changed" THEN x.status
           ELSE IF x.verdict = "REJECTED" THEN "REJECTED" ELSE "ACCEPTED"

StatusKept(call, s) ==
    call # None =>
        \/ At(s, MoveTypes) = {} /\ call.status = "DRAFT"
        \/ \E i \in DOMAIN s : LastAt(s, MoveTypes, i) /\ call.status = Said(s[i])

\* Link i of the chain that starts at the event x.
Link(am, x, i) ==
    /\ i = 1 => /\ am[i].prior = x.verdict /\ am[i].amended # x.verdict
                /\ am[i].by # x.by /\ am[i].version > x.version
    /\ i # 1 => /\ am[i].prior = am[i - 1].amended /\ am[i].amended # am[i - 1].amended
                /\ am[i].by # am[i - 1].by /\ am[i].version > am[i - 1].version

InForce(dec, am, x) ==
    /\ am = <<>> => Took(dec, x)
    /\ am # <<>> => /\ dec.verdict = am[Len(am)].amended /\ dec.by = am[Len(am)].by
                    /\ dec.version = am[Len(am)].version

ChainKept(call, dec, am, s) ==
    /\ dec = None => am = <<>>
    /\ dec # None =>
         /\ call # None /\ dec.version <= call.version
         /\ \E k \in DOMAIN s : /\ LastAt(s, {"clearance_decided"}, k)
                                /\ InForce(dec, am, s[k])
                                /\ \A i \in DOMAIN am : Link(am, s[k], i)

Reviewed(s, d, i) == s[i].type = "document_reviewed" /\ s[i].doc = d /\ s[i].verdict = "VERIFIED"

DocsKept(doc, s) ==
    \A d \in Docs :
        /\ doc[d] # "NONE" => \E i \in At(s, {"document_declared"}) : s[i].doc = d
        /\ \A i \in At(s, {"document_declared"}) : s[i].doc = d => doc[d] # "NONE"
        /\ doc[d] = "VERIFIED" => \E i \in DOMAIN s : Reviewed(s, d, i)

ApprovalsKept(s) ==
    \A i \in DOMAIN s : s[i].type = "clearance_decided" /\ s[i].verdict = "APPROVED" =>
        /\ \E j \in DOMAIN s : j < i /\ s[j].type = "document_declared"
        /\ \A j \in DOMAIN s : j < i /\ s[j].type = "document_declared" =>
             \E k \in DOMAIN s : k < i /\ Reviewed(s, s[j].doc, k)

RowsTyped(call, doc, dec, am, s) ==
    /\ call \in CallRow \union {None}
    /\ doc \in [Docs -> {"NONE", "DECLARED", "VERIFIED", "REJECTED"}]
    /\ dec \in DecisionRow \union {None}
    /\ am \in Seq(Amendment)
    /\ s \in Seq(Event)

CallKept(call, doc, dec, am, s) ==
    /\ RowsTyped(call, doc, dec, am, s)
    /\ Blank(call, doc, dec, am, s)
    /\ VersionKept(call, s)
    /\ VerdictKept(dec, s)
    /\ StatusKept(call, s)
    /\ ChainKept(call, dec, am, s)
    /\ DocsKept(doc, s)
    /\ ApprovalsKept(s)

KeysUnique == \A c, e \in Rows : calls[c].key = calls[e].key => c = e

PortInv ==
    /\ PortCallTypeOK
    /\ outbox \in [Calls -> Seq(Event)]
    /\ \A c \in Calls : CallKept(calls[c], docs[c], decision[c], amendments[c], outbox[c])
    /\ KeysUnique

-----------------------------------------------------------------------------
(* Appending an event.                                                     *)

LEMMA Appended ==
    ASSUME NEW s \in Seq(Event), NEW e \in Event
    PROVE  /\ Append(s, e) \in Seq(Event)
           /\ Len(s) \in Nat /\ DOMAIN s = 1..Len(s)
           /\ DOMAIN Append(s, e) = 1..(Len(s) + 1)
           /\ Append(s, e)[Len(s) + 1] = e
           /\ \A i \in DOMAIN s : Append(s, e)[i] = s[i] /\ i \in Int /\ i < Len(s) + 1
           /\ \A i \in DOMAIN Append(s, e) : i \in DOMAIN s \/ i = Len(s) + 1
BY DEF Event

LEMMA AtFinite ==
    ASSUME NEW s \in Seq(Event), NEW T
    PROVE  IsFiniteSet(At(s, T)) /\ At(s, T) \subseteq DOMAIN s /\ At(s, T) \subseteq Int
<1>1. DOMAIN s = 1..Len(s) /\ Len(s) \in Nat
  OBVIOUS
<1>2. IsFiniteSet(1..Len(s))
  BY <1>1, FS_Interval
<1>3. At(s, T) \subseteq 1..Len(s)
  BY <1>1 DEF At
<1> QED
  BY <1>1, <1>2, <1>3, FS_Subset

LEMMA AtOld ==
    ASSUME NEW s \in Seq(Event), NEW e \in Event, NEW T, e.type \notin T
    PROVE  /\ At(Append(s, e), T) = At(s, T)
           /\ \A i \in DOMAIN s : LastAt(s, T, i) => LastAt(Append(s, e), T, i)
<1> DEFINE t == Append(s, e)
<1>1. \A i : i \in At(t, T) <=> i \in At(s, T)
  BY Appended DEF At
<1>2. At(t, T) = At(s, T)
  BY <1>1
<1> QED
  BY <1>2 DEF LastAt

LEMMA AtNew ==
    ASSUME NEW s \in Seq(Event), NEW e \in Event, NEW T, e.type \in T
    PROVE  /\ At(Append(s, e), T) = At(s, T) \union {Len(s) + 1}
           /\ Len(s) + 1 \notin At(s, T)
           /\ LastAt(Append(s, e), T, Len(s) + 1)
           /\ Cardinality(At(Append(s, e), T)) = Cardinality(At(s, T)) + 1
           /\ Len(s) + 1 \in DOMAIN Append(s, e)
<1> DEFINE t == Append(s, e)
<1>1. \A i : i \in At(t, T) <=> i \in At(s, T) \/ i = Len(s) + 1
  BY Appended DEF At
<1>2. At(t, T) = At(s, T) \union {Len(s) + 1}
  BY <1>1
<1>3. Len(s) + 1 \notin At(s, T)
  BY Appended DEF At
<1>4. \A i \in At(t, T) : i <= Len(s) + 1
  BY Appended, <1>1, AtFinite DEF At
<1>5. Cardinality(At(t, T)) = Cardinality(At(s, T)) + 1
  BY <1>2, <1>3, AtFinite, FS_AddElement
<1> QED
  BY <1>1, <1>2, <1>3, <1>4, <1>5, Appended DEF LastAt

-----------------------------------------------------------------------------
(* An event of another kind leaves each part of the invariant as it is.    *)

LEMMA VersionOld ==
    ASSUME NEW s \in Seq(Event), NEW e \in Event, NEW call, VersionKept(call, s), e.type \notin VersionTypes
    PROVE  VersionKept(call, Append(s, e))
BY Appended, AtOld DEF VersionKept

LEMMA VerdictOld ==
    ASSUME NEW s \in Seq(Event), NEW e \in Event, NEW dec, VerdictKept(dec, s), e.type \notin VerdictTypes
    PROVE  VerdictKept(dec, Append(s, e))
BY Appended, AtOld DEF VerdictKept

LEMMA StatusOld ==
    ASSUME NEW s \in Seq(Event), NEW e \in Event, NEW call, NEW next,
           StatusKept(call, s), call # None, next.status = call.status, e.type \notin MoveTypes
    PROVE  StatusKept(next, Append(s, e))
BY Appended, AtOld DEF StatusKept

LEMMA ChainOld ==
    ASSUME NEW s \in Seq(Event), NEW e \in Event, NEW call, NEW dec, NEW am, NEW next,
           dec # None => next # None /\ dec.version <= next.version,
           ChainKept(call, dec, am, s), e.type # "clearance_decided"
    PROVE  ChainKept(next, dec, am, Append(s, e))
<1>1. e.type \notin {"clearance_decided"}
  OBVIOUS
<1>2. \A k \in DOMAIN s : LastAt(s, {"clearance_decided"}, k) => LastAt(Append(s, e), {"clearance_decided"}, k)
  BY <1>1, AtOld
<1>3. \A k \in DOMAIN s : Append(s, e)[k] = s[k] /\ k \in DOMAIN Append(s, e)
  BY Appended
<1> QED
  BY <1>2, <1>3 DEF ChainKept

LEMMA DocsOld ==
    ASSUME NEW s \in Seq(Event), NEW e \in Event, NEW doc, DocsKept(doc, s), e.type # "document_declared"
    PROVE  DocsKept(doc, Append(s, e))
<1>1. e.type \notin {"document_declared"}
  OBVIOUS
<1>2. At(Append(s, e), {"document_declared"}) = At(s, {"document_declared"})
  BY <1>1, AtOld
<1>3. \A i \in At(s, {"document_declared"}) : Append(s, e)[i] = s[i]
  BY Appended DEF At
<1>4. \A d : \A i \in DOMAIN s : Reviewed(s, d, i) => Reviewed(Append(s, e), d, i) /\ i \in DOMAIN Append(s, e)
  BY Appended DEF Reviewed
<1> QED
  BY <1>2, <1>3, <1>4 DEF DocsKept

LEMMA ApprovalsOld ==
    ASSUME NEW s \in Seq(Event), NEW e \in Event, ApprovalsKept(s), e.type # "clearance_decided"
    PROVE  ApprovalsKept(Append(s, e))
<1> DEFINE t == Append(s, e)
<1>1. SUFFICES ASSUME NEW i \in DOMAIN t, t[i].type = "clearance_decided", t[i].verdict = "APPROVED"
               PROVE  /\ \E j \in DOMAIN t : j < i /\ t[j].type = "document_declared"
                      /\ \A j \in DOMAIN t : j < i /\ t[j].type = "document_declared" =>
                           \E k \in DOMAIN t : k < i /\ Reviewed(t, t[j].doc, k)
  BY DEF ApprovalsKept
<1>2. i \in DOMAIN s /\ t[i] = s[i]
  BY <1>1, Appended
<1>3. \A j \in DOMAIN s : j \in DOMAIN t /\ t[j] = s[j]
  BY Appended
<1>4. \A j \in DOMAIN t : j < i => j \in DOMAIN s
  BY <1>2, Appended
<1>5. \A d, k : k \in DOMAIN s /\ Reviewed(s, d, k) => Reviewed(t, d, k)
  BY <1>3 DEF Reviewed
<1> HIDE DEF t
<1> QED
  BY <1>1, <1>2, <1>3, <1>4, <1>5 DEF ApprovalsKept

-----------------------------------------------------------------------------
(* An event of its kind renews it.                                         *)

LEMMA VersionNew ==
    ASSUME NEW s \in Seq(Event), NEW e \in Event, NEW call \in CallRow, NEW next \in CallRow, VersionKept(call, s),
           call # None, e.type \in VersionTypes, next.version = call.version + 1, e.version = next.version
    PROVE  VersionKept(next, Append(s, e))
BY Appended, AtNew DEF VersionKept

LEMMA VerdictNew ==
    ASSUME NEW s \in Seq(Event), NEW e \in Event, NEW dec, dec # None, e.type \in VerdictTypes, Took(dec, e)
    PROVE  VerdictKept(dec, Append(s, e))
BY Appended, AtNew DEF VerdictKept

LEMMA StatusNew ==
    ASSUME NEW s \in Seq(Event), NEW e \in Event, NEW next, e.type \in MoveTypes, next.status = Said(e)
    PROVE  StatusKept(next, Append(s, e))
BY Appended, AtNew DEF StatusKept

-----------------------------------------------------------------------------
(* The operations, on the rows and events of the call they write.          *)

LEMMA CreateKeeps ==
    ASSUME NEW doc, NEW dec, NEW am, NEW s, CallKept(None, doc, dec, am, s),
           NEW next \in CallRow, next.version = 1, next.status = "DRAFT",
           NEW e \in Event, e.type = "created", e.version = 1
    PROVE  CallKept(next, doc, dec, am, Append(s, e))
<1> DEFINE t == Append(s, e)
<1>1. s = <<>> /\ dec = None /\ am = <<>> /\ \A d \in Docs : doc[d] = "NONE"
  BY DEF CallKept, Blank
<1>2. s \in Seq(Event)
  BY DEF CallKept, RowsTyped
<1>3. \A T : At(s, T) = {}
  BY <1>1 DEF At
<1>4. next # None
  BY PortCallAssumptions
<1>5. RowsTyped(next, doc, dec, am, t)
  BY <1>2, Appended DEF CallKept, RowsTyped
<1>6. VersionKept(next, t)
  <2>1. e.type \in VersionTypes
    BY DEF VersionTypes
  <2>2. Cardinality(At(s, VersionTypes)) = 0
    BY <1>3, FS_EmptySet
  <2> QED
    BY <1>2, <2>1, <2>2, Appended, AtNew DEF VersionKept
<1>7. VerdictKept(dec, t)
  <2>1. e.type \notin VerdictTypes
    BY DEF VerdictTypes
  <2> QED
    BY <1>2, <2>1, VerdictOld DEF CallKept
<1>8. StatusKept(next, t)
  <2>1. e.type \notin MoveTypes
    BY DEF MoveTypes
  <2> QED
    BY <1>2, <1>3, <2>1, AtOld DEF StatusKept
<1>9. ChainKept(next, dec, am, t)
  BY <1>1 DEF ChainKept
<1>10. DocsKept(doc, t)
  BY <1>2, DocsOld DEF CallKept
<1>11. ApprovalsKept(t)
  BY <1>2, ApprovalsOld DEF CallKept
<1> QED
  BY <1>4, <1>5, <1>6, <1>7, <1>8, <1>9, <1>10, <1>11 DEF CallKept, Blank

LEMMA TransitionKeeps ==
    ASSUME NEW call \in CallRow, NEW doc, NEW dec, NEW am, NEW s, CallKept(call, doc, dec, am, s),
           NEW next \in CallRow, next.version = call.version + 1,
           NEW e \in Event, e.type = "status_changed", e.version = next.version, e.status = next.status
    PROVE  CallKept(next, doc, dec, am, Append(s, e))
<1> DEFINE t == Append(s, e)
<1>1. s \in Seq(Event) /\ RowsTyped(next, doc, dec, am, t)
  BY Appended DEF CallKept, RowsTyped
<1>2. next # None /\ call # None
  BY PortCallAssumptions
<1>3. e.type \in VersionTypes /\ e.type \in MoveTypes /\ e.type \notin VerdictTypes
  BY DEF VersionTypes, MoveTypes, VerdictTypes
<1>4. VersionKept(next, t)
  BY <1>1, <1>2, <1>3, VersionNew DEF CallKept
<1>5. VerdictKept(dec, t)
  BY <1>1, <1>3, VerdictOld DEF CallKept
<1>6. StatusKept(next, t)
  BY <1>1, <1>3, StatusNew DEF Said
<1>7. dec # None => dec.version <= next.version
  <2>1. dec # None => dec.version <= call.version /\ dec.version \in Nat
    BY DEF CallKept, ChainKept, RowsTyped, DecisionRow
  <2> QED
    BY <2>1 DEF CallRow
<1>8. ChainKept(next, dec, am, t)
  BY <1>1, <1>2, <1>7, ChainOld DEF CallKept
<1>9. DocsKept(doc, t) /\ ApprovalsKept(t)
  BY <1>1, DocsOld, ApprovalsOld DEF CallKept
<1> QED
  BY <1>1, <1>2, <1>4, <1>5, <1>6, <1>8, <1>9 DEF CallKept, Blank

\* What an event about documents leaves alone.
LEMMA DocumentEventKeeps ==
    ASSUME NEW call, NEW doc, NEW dec, NEW am, NEW s, CallKept(call, doc, dec, am, s),
           \E d \in Docs : doc[d] # "NONE" \/ call # None,
           NEW e \in Event, e.type \in {"document_declared", "document_reviewed", "document_superseded"},
           NEW docs2 \in [Docs -> {"NONE", "DECLARED", "VERIFIED", "REJECTED"}], DocsKept(docs2, Append(s, e))
    PROVE  CallKept(call, docs2, dec, am, Append(s, e))
<1> DEFINE t == Append(s, e)
<1>1. s \in Seq(Event) /\ RowsTyped(call, docs2, dec, am, t)
  BY Appended DEF CallKept, RowsTyped
<1>2. call # None
  BY DEF CallKept, Blank
<1>3. e.type \notin VersionTypes /\ e.type \notin MoveTypes /\ e.type \notin VerdictTypes
  BY DEF VersionTypes, MoveTypes, VerdictTypes
<1>4. VersionKept(call, t) /\ VerdictKept(dec, t)
  BY <1>1, <1>3, VersionOld, VerdictOld DEF CallKept
<1>5. StatusKept(call, t)
  BY <1>1, <1>2, <1>3, StatusOld DEF CallKept
<1>6. ChainKept(call, dec, am, t)
  <2>1. dec # None => call # None /\ dec.version <= call.version
    BY DEF CallKept, ChainKept
  <2> QED
    BY <1>1, <2>1, ChainOld DEF CallKept
<1>7. ApprovalsKept(t)
  BY <1>1, ApprovalsOld DEF CallKept
<1> QED
  BY <1>1, <1>2, <1>4, <1>5, <1>6, <1>7 DEF CallKept, Blank

LEMMA DeclareKeeps ==
    ASSUME NEW call \in CallRow, NEW doc, NEW dec, NEW am, NEW s, CallKept(call, doc, dec, am, s),
           NEW d \in Docs, NEW e \in Event, e.type = "document_declared", e.doc = d
    PROVE  CallKept(call, [doc EXCEPT ![d] = "DECLARED"], dec, am, Append(s, e))
<1> DEFINE t == Append(s, e)
           docs2 == [doc EXCEPT ![d] = "DECLARED"]
           D == {"document_declared"}
<1>1. s \in Seq(Event) /\ doc \in [Docs -> {"NONE", "DECLARED", "VERIFIED", "REJECTED"}] /\ DocsKept(doc, s)
  BY DEF CallKept, RowsTyped
<1>2. docs2 \in [Docs -> {"NONE", "DECLARED", "VERIFIED", "REJECTED"}]
  BY <1>1
<1>3. At(t, D) = At(s, D) \union {Len(s) + 1}
  <2>1. e.type \in D
    OBVIOUS
  <2> QED
    BY <1>1, <2>1, AtNew
<1>4. t[Len(s) + 1] = e /\ \A i \in At(s, D) : t[i] = s[i]
  BY <1>1, Appended DEF At
<1>5. \A x : \A i \in DOMAIN s : Reviewed(s, x, i) => Reviewed(t, x, i) /\ i \in DOMAIN t
  BY <1>1, Appended DEF Reviewed
<1>6. ASSUME NEW x \in Docs
      PROVE  /\ docs2[x] # "NONE" => \E i \in At(t, D) : t[i].doc = x
             /\ \A i \in At(t, D) : t[i].doc = x => docs2[x] # "NONE"
             /\ docs2[x] = "VERIFIED" => \E i \in DOMAIN t : Reviewed(t, x, i)
  <2>1. CASE x = d
    <3>1. docs2[x] = "DECLARED"
      BY <1>1, <2>1
    <3> HIDE DEF t, docs2
    <3> QED
      BY <1>3, <1>4, <2>1, <3>1
  <2>2. CASE x # d
    <3>1. docs2[x] = doc[x]
      BY <1>1, <2>2
    <3>2. /\ doc[x] # "NONE" => \E i \in At(s, D) : s[i].doc = x
          /\ \A i \in At(s, D) : s[i].doc = x => doc[x] # "NONE"
          /\ doc[x] = "VERIFIED" => \E i \in DOMAIN s : Reviewed(s, x, i)
      BY <1>1 DEF DocsKept
    <3> HIDE DEF t, docs2, D
    <3> QED
      BY <1>3, <1>4, <1>5, <2>2, <3>1, <3>2
  <2> QED
    BY <2>1, <2>2
<1>7. DocsKept(docs2, t)
  BY <1>6 DEF DocsKept
<1>8. call # None
  BY PortCallAssumptions
<1> QED
  BY <1>2, <1>7, <1>8, DocumentEventKeeps

LEMMA ReviewKeeps ==
    ASSUME NEW call, NEW doc, NEW dec, NEW am, NEW s, CallKept(call, doc, dec, am, s),
           NEW d \in Docs, doc[d] = "DECLARED", NEW v \in {"VERIFIED", "REJECTED"},
           NEW e \in Event, e.type = "document_reviewed", e.doc = d, e.verdict = v
    PROVE  CallKept(call, [doc EXCEPT ![d] = v], dec, am, Append(s, e))
<1> DEFINE t == Append(s, e)
           docs2 == [doc EXCEPT ![d] = v]
           D == {"document_declared"}
<1>1. s \in Seq(Event) /\ doc \in [Docs -> {"NONE", "DECLARED", "VERIFIED", "REJECTED"}] /\ DocsKept(doc, s)
  BY DEF CallKept, RowsTyped
<1>2. docs2 \in [Docs -> {"NONE", "DECLARED", "VERIFIED", "REJECTED"}]
  BY <1>1
<1>3. DocsKept(doc, t)
  BY <1>1, DocsOld
<1>4. v = "VERIFIED" => Reviewed(t, d, Len(s) + 1) /\ Len(s) + 1 \in DOMAIN t
  BY <1>1, Appended DEF Reviewed
<1>5. \A x \in Docs : (docs2[x] # "NONE" <=> doc[x] # "NONE") /\ (x # d => docs2[x] = doc[x]) /\ docs2[d] = v
  BY <1>1
<1>6. DocsKept(docs2, t)
  <2> HIDE DEF t, docs2
  <2> QED
    BY <1>3, <1>4, <1>5 DEF DocsKept
<1>7. doc[d] # "NONE"
  OBVIOUS
<1> QED
  BY <1>2, <1>6, <1>7, DocumentEventKeeps

LEMMA SupersedeKeeps ==
    ASSUME NEW call, NEW doc, NEW dec, NEW am, NEW s, CallKept(call, doc, dec, am, s),
           NEW d \in Docs, doc[d] = "VERIFIED", NEW e \in Event, e.type = "document_superseded"
    PROVE  CallKept(call, doc, dec, am, Append(s, e))
<1>1. s \in Seq(Event) /\ doc \in [Docs -> {"NONE", "DECLARED", "VERIFIED", "REJECTED"}] /\ DocsKept(doc, s)
  BY DEF CallKept, RowsTyped
<1>2. DocsKept(doc, Append(s, e))
  BY <1>1, DocsOld
<1>3. doc[d] # "NONE"
  OBVIOUS
<1> QED
  BY <1>1, <1>2, <1>3, DocumentEventKeeps

LEMMA DecideKeeps ==
    ASSUME NEW call \in CallRow, NEW doc, NEW am, NEW s, CallKept(call, doc, None, am, s),
           NEW next \in CallRow, next.version = call.version + 1, next.status = call.status,
           NEW dec \in DecisionRow, dec.version = next.version,
           NEW e \in Event, e.type = "clearance_decided", Took(dec, e), e.version = next.version,
           e.verdict = "APPROVED" =>
              /\ \E d \in Docs : doc[d] # "NONE"
              /\ \A d \in Docs : doc[d] # "NONE" => doc[d] = "VERIFIED"
    PROVE  CallKept(next, doc, dec, am, Append(s, e))
<1> DEFINE t == Append(s, e)
<1>1. s \in Seq(Event) /\ RowsTyped(next, doc, dec, am, t)
  BY Appended DEF CallKept, RowsTyped
<1>2. next # None /\ call # None /\ dec # None /\ am = <<>>
  BY PortCallAssumptions DEF CallKept, ChainKept
<1>3. e.type \in VersionTypes /\ e.type \notin MoveTypes /\ e.type \in VerdictTypes
  BY DEF VersionTypes, MoveTypes, VerdictTypes
<1>4. VersionKept(next, t)
  BY <1>1, <1>2, <1>3, VersionNew DEF CallKept
<1>5. VerdictKept(dec, t)
  BY <1>1, <1>2, <1>3, VerdictNew
<1>6. StatusKept(next, t)
  BY <1>1, <1>2, <1>3, StatusOld DEF CallKept
<1>7. ChainKept(next, dec, am, t)
  <2>1. e.type \in {"clearance_decided"}
    OBVIOUS
  <2>2. LastAt(t, {"clearance_decided"}, Len(s) + 1) /\ Len(s) + 1 \in DOMAIN t
    BY <1>1, <2>1, AtNew
  <2>3. InForce(dec, am, t[Len(s) + 1])
    BY <1>1, <1>2, Appended DEF InForce
  <2>4. DOMAIN am = {}
    BY <1>2
  <2>5. dec.version <= next.version
    BY DEF CallRow
  <2> HIDE DEF t
  <2> QED
    BY <1>2, <2>2, <2>3, <2>4, <2>5 DEF ChainKept
<1>8. DocsKept(doc, t)
  BY <1>1, DocsOld DEF CallKept
<1>9. ApprovalsKept(t)
  <2>1. SUFFICES ASSUME NEW i \in DOMAIN t, t[i].type = "clearance_decided", t[i].verdict = "APPROVED"
                 PROVE  /\ \E j \in DOMAIN t : j < i /\ t[j].type = "document_declared"
                        /\ \A j \in DOMAIN t : j < i /\ t[j].type = "document_declared" =>
                             \E k \in DOMAIN t : k < i /\ Reviewed(t, t[j].doc, k)
    BY DEF ApprovalsKept
  <2>2. i \in DOMAIN s \/ (i = Len(s) + 1 /\ t[i] = e)
    BY <1>1, Appended
  <2>3. \A j \in DOMAIN s : j \in DOMAIN t /\ t[j] = s[j] /\ j < Len(s) + 1
    BY <1>1, Appended
  <2>4. \A j \in DOMAIN t : j < i => j \in DOMAIN s
    BY <1>1, Appended
  <2>5. \A d, k : k \in DOMAIN s /\ Reviewed(s, d, k) => Reviewed(t, d, k)
    BY <2>3 DEF Reviewed
  <2>6. CASE i \in DOMAIN s
    <3>1. ApprovalsKept(s)
      BY DEF CallKept
    <3> HIDE DEF t
    <3> QED
      BY <2>1, <2>3, <2>4, <2>5, <2>6, <3>1 DEF ApprovalsKept
  <2>7. CASE i = Len(s) + 1 /\ t[i] = e
    <3>1. DocsKept(doc, s)
      BY DEF CallKept
    <3>2. PICK d \in Docs : doc[d] # "NONE"
      BY <2>1, <2>7
    <3>3. PICK j \in At(s, {"document_declared"}) : s[j].doc = d
      BY <3>1, <3>2 DEF DocsKept
    <3>4. j \in DOMAIN s /\ s[j].type = "document_declared"
      BY <3>3 DEF At
    <3>5. ASSUME NEW l \in DOMAIN t, l < i, t[l].type = "document_declared"
          PROVE  \E k \in DOMAIN t : k < i /\ Reviewed(t, t[l].doc, k)
      <4>1. l \in At(s, {"document_declared"}) /\ s[l] = t[l]
        BY <2>3, <2>4, <3>5 DEF At
      <4>2. s[l] \in Event /\ s[l].type = "document_declared"
        BY <1>1, <4>1 DEF At
      <4>3. s[l].doc \in Docs
        BY <4>2 DEF Event, VerdictTypes
      <4>4. doc[s[l].doc] = "VERIFIED"
        BY <2>1, <2>7, <3>1, <4>1, <4>3 DEF DocsKept
      <4>5. PICK k \in DOMAIN s : Reviewed(s, s[l].doc, k)
        BY <3>1, <4>3, <4>4 DEF DocsKept
      <4> HIDE DEF t
      <4> QED
        BY <2>3, <2>5, <2>7, <4>1, <4>5
    <3> HIDE DEF t
    <3> QED
      BY <2>3, <2>7, <3>4, <3>5
  <2> QED
    BY <2>2, <2>6, <2>7
<1> QED
  BY <1>1, <1>2, <1>4, <1>5, <1>6, <1>7, <1>8, <1>9 DEF CallKept, Blank

LEMMA AmendKeeps ==
    ASSUME NEW call \in CallRow, NEW doc, NEW prior \in DecisionRow, NEW am, NEW s,
           CallKept(call, doc, prior, am, s),
           NEW next \in CallRow, next.version = call.version + 1,
           NEW dec \in DecisionRow, dec.version = next.version,
           NEW a \in Amendment, a.prior = prior.verdict, a.amended = dec.verdict,
           a.by = dec.by, a.version = dec.version,
           prior.verdict # dec.verdict, prior.by # dec.by,
           NEW e \in Event, e.type = "clearance_amended", Took(dec, e), e.version = next.version,
           next.status = IF dec.verdict = "REJECTED" THEN "REJECTED" ELSE "ACCEPTED"
    PROVE  CallKept(next, doc, dec, Append(am, a), Append(s, e))
<1> DEFINE t == Append(s, e)
           bm == Append(am, a)
<1>1. s \in Seq(Event) /\ am \in Seq(Amendment) /\ RowsTyped(next, doc, dec, bm, t)
  BY Appended DEF CallKept, RowsTyped
<1>2. next # None /\ call # None /\ dec # None /\ prior # None
  BY PortCallAssumptions
<1>3. e.type \in VersionTypes /\ e.type \in MoveTypes /\ e.type \in VerdictTypes
  BY DEF VersionTypes, MoveTypes, VerdictTypes
<1>4. VersionKept(next, t)
  BY <1>1, <1>2, <1>3, VersionNew DEF CallKept
<1>5. VerdictKept(dec, t)
  BY <1>1, <1>2, <1>3, VerdictNew
<1>6. StatusKept(next, t)
  BY <1>1, <1>3, StatusNew DEF Said, Took
<1>7. ChainKept(next, dec, bm, t)
  <2>1. PICK k \in DOMAIN s : /\ LastAt(s, {"clearance_decided"}, k)
                              /\ InForce(prior, am, s[k])
                              /\ \A i \in DOMAIN am : Link(am, s[k], i)
    BY <1>2 DEF CallKept, ChainKept
  <2>2. e.type \notin {"clearance_decided"}
    OBVIOUS
  <2>3. LastAt(t, {"clearance_decided"}, k)
    BY <1>1, <2>1, <2>2, AtOld
  <2>4. k \in DOMAIN t /\ t[k] = s[k]
    BY <1>1, Appended
  <2>5. /\ Len(am) \in Nat /\ DOMAIN am = 1..Len(am) /\ DOMAIN bm = 1..(Len(am) + 1)
        /\ Len(bm) = Len(am) + 1 /\ bm[Len(am) + 1] = a
        /\ \A i \in DOMAIN am : bm[i] = am[i]
        /\ bm # <<>> /\ (am = <<>> <=> Len(am) = 0)
    BY <1>1
  <2>6. InForce(dec, bm, t[k])
    <3> HIDE DEF t, bm
    <3> QED
      BY <2>5 DEF InForce
  <2>7. prior.version <= call.version /\ prior.version \in Nat /\ call.version \in Nat
    BY <1>2 DEF CallKept, ChainKept, DecisionRow, CallRow
  <2>8. dec.version > prior.version
    BY <2>7
  <2>9. ASSUME NEW i \in DOMAIN bm
        PROVE  Link(bm, t[k], i)
    <3>1. CASE i = Len(am) + 1
      <4>1. CASE am = <<>>
        <5>1. i = 1 /\ bm[i] = a /\ Took(prior, s[k])
          BY <2>1, <2>5, <3>1, <4>1 DEF InForce
        <5> HIDE DEF t, bm
        <5> QED
          BY <2>4, <2>8, <5>1 DEF Link, Took
      <4>2. CASE am # <<>>
        <5>1. i # 1 /\ bm[i] = a /\ bm[i - 1] = am[Len(am)]
          <6>1. Len(am) \in DOMAIN am /\ i - 1 = Len(am) /\ i # 1
            BY <2>5, <3>1, <4>2
          <6> HIDE DEF bm
          <6> QED
            BY <2>5, <3>1, <6>1
        <5>2. /\ prior.verdict = am[Len(am)].amended /\ prior.by = am[Len(am)].by
              /\ prior.version = am[Len(am)].version
          BY <2>1, <4>2 DEF InForce
        <5> HIDE DEF t, bm
        <5> QED
          BY <2>8, <5>1, <5>2 DEF Link
      <4> QED
        BY <4>1, <4>2
    <3>2. CASE i # Len(am) + 1
      <4>1. i \in DOMAIN am /\ bm[i] = am[i] /\ (i # 1 => bm[i - 1] = am[i - 1])
        BY <2>5, <3>2
      <4>2. Link(am, s[k], i)
        BY <2>1, <4>1
      <4> HIDE DEF t, bm
      <4> QED
        BY <2>4, <4>1, <4>2 DEF Link
    <3> QED
      BY <3>1, <3>2
  <2>10. dec.version <= next.version
    BY DEF CallRow
  <2> HIDE DEF t, bm
  <2> QED
    BY <1>2, <2>3, <2>4, <2>6, <2>9, <2>10 DEF ChainKept
<1>8. DocsKept(doc, t) /\ ApprovalsKept(t)
  BY <1>1, DocsOld, ApprovalsOld DEF CallKept
<1> QED
  BY <1>1, <1>2, <1>4, <1>5, <1>6, <1>7, <1>8 DEF CallKept, Blank

-----------------------------------------------------------------------------
(* The steps of the specification.                                         *)

\* f with x at c; kept folded, so that the lemmas below match by name.
Put(f, c, x) == [f EXCEPT ![c] = x]

Moved(row, status) == [row EXCEPT !.status = status, !.version = row.version + 1]
Stepped(row) == [row EXCEPT !.version = row.version + 1]

LEMMA RowMoved ==
    ASSUME NEW row \in CallRow, NEW status \in Statuses
    PROVE  /\ row.version + 1 \in Nat
           /\ Moved(row, status) \in CallRow /\ Moved(row, status).status = status
           /\ Moved(row, status).version = row.version + 1 /\ Moved(row, status).key = row.key
<1>1. row.version + 1 \in Nat
  BY DEF CallRow
<1> QED
  BY <1>1 DEF CallRow, Moved, Statuses

LEMMA RowStepped ==
    ASSUME NEW row \in CallRow
    PROVE  /\ row.version + 1 \in Nat
           /\ Stepped(row) \in CallRow /\ Stepped(row).status = row.status
           /\ Stepped(row).version = row.version + 1 /\ Stepped(row).key = row.key
BY DEF CallRow, Stepped

\* A step that writes the rows and events of call c only, and no key.
LEMMA OneCallWritten ==
    ASSUME PortInv, NEW c \in Calls, NEW call, NEW doc, NEW dec, NEW am, NEW t,
           CallKept(call, doc, dec, am, t),
           calls' = Put(calls, c, call), docs' = Put(docs, c, doc),
           decision' = Put(decision, c, dec), amendments' = Put(amendments, c, am),
           outbox' = Put(outbox, c, t),
           call # None,
           \A e \in Rows : e # c => calls[e].key # call.key,
           profile' \in {"UNKNOWN", "ACTIVE", "INACTIVE"}, handling' \subseteq Messages \X Calls, now' \in 0..MaxTime
    PROVE  PortInv'
<1>1. /\ calls \in [Calls -> CallRow \union {None}]
      /\ docs \in [Calls -> [Docs -> {"NONE", "DECLARED", "VERIFIED", "REJECTED"}]]
      /\ decision \in [Calls -> DecisionRow \union {None}]
      /\ amendments \in [Calls -> Seq(Amendment)]
      /\ outbox \in [Calls -> Seq(Event)]
  BY DEF PortInv, PortCallTypeOK, Amendment
<1>2. /\ call \in CallRow \union {None} /\ doc \in [Docs -> {"NONE", "DECLARED", "VERIFIED", "REJECTED"}]
      /\ dec \in DecisionRow \union {None} /\ am \in Seq(Amendment) /\ t \in Seq(Event)
  BY DEF CallKept, RowsTyped
<1>3. PortCallTypeOK'
  <2>1. calls' \in [Calls -> CallRow \union {None}]
    BY <1>1, <1>2 DEF Put
  <2>2. docs' \in [Calls -> [Docs -> {"NONE", "DECLARED", "VERIFIED", "REJECTED"}]]
    BY <1>1, <1>2 DEF Put
  <2>3. decision' \in [Calls -> DecisionRow \union {None}]
    BY <1>1, <1>2 DEF Put
  <2>4. amendments' \in [Calls -> Seq(Amendment)]
    BY <1>1, <1>2 DEF Put
  <2> QED
    BY <2>1, <2>2, <2>3, <2>4 DEF PortCallTypeOK, Amendment
<1>4. outbox' \in [Calls -> Seq(Event)]
  BY <1>1, <1>2 DEF Put
<1>5. ASSUME NEW e \in Calls
      PROVE  CallKept(calls'[e], docs'[e], decision'[e], amendments'[e], outbox'[e])
  <2>1. CASE e = c
    <3>1. calls'[e] = call /\ docs'[e] = doc /\ decision'[e] = dec /\ amendments'[e] = am /\ outbox'[e] = t
      BY <1>1, <2>1 DEF Put
    <3> QED
      BY <3>1
  <2>2. CASE e # c
    <3>1. /\ calls'[e] = calls[e] /\ docs'[e] = docs[e] /\ decision'[e] = decision[e]
          /\ amendments'[e] = amendments[e] /\ outbox'[e] = outbox[e]
      BY <1>1, <2>2 DEF Put
    <3>2. CallKept(calls[e], docs[e], decision[e], amendments[e], outbox[e])
      BY DEF PortInv
    <3> QED
      BY <3>1, <3>2
  <2> QED
    BY <2>1, <2>2
<1>6. KeysUnique'
  <2>1. SUFFICES ASSUME NEW x \in Calls, NEW y \in Calls, calls'[x] # None, calls'[y] # None,
                        calls'[x].key = calls'[y].key
                 PROVE  x = y
    BY DEF KeysUnique, Rows
  <2>2. \A z \in Calls : calls'[z] = IF z = c THEN call ELSE calls[z]
    BY <1>1 DEF Put
  <2>3. \A z, w \in Calls : calls[z] # None /\ calls[w] # None /\ calls[z].key = calls[w].key => z = w
    BY DEF PortInv, KeysUnique, Rows
  <2>4. \A z \in Calls : calls[z] # None /\ z # c => calls[z].key # call.key
    BY DEF Rows
  <2> QED
    BY <2>1, <2>2, <2>3, <2>4
<1> QED
  BY <1>3, <1>4, <1>5, <1>6 DEF PortInv

\* What the invariant says of the call an operation is about.
LEMMA OfCall ==
    ASSUME PortInv, NEW c \in Calls
    PROVE  /\ CallKept(calls[c], docs[c], decision[c], amendments[c], outbox[c])
           /\ calls = Put(calls, c, calls[c]) /\ docs = Put(docs, c, docs[c])
           /\ decision = Put(decision, c, decision[c])
           /\ amendments = Put(amendments, c, amendments[c])
           /\ c \in Rows => /\ calls[c] \in CallRow
                            /\ \A e \in Rows : e # c => calls[e].key # calls[c].key
           /\ decision[c] # None => decision[c] \in DecisionRow
           /\ docs[c] \in [Docs -> {"NONE", "DECLARED", "VERIFIED", "REJECTED"}]
<1>1. CallKept(calls[c], docs[c], decision[c], amendments[c], outbox[c])
  BY DEF PortInv
<1>2. calls = Put(calls, c, calls[c])
  BY DEF PortInv, PortCallTypeOK, Put
<1>3. docs = Put(docs, c, docs[c])
  BY DEF PortInv, PortCallTypeOK, Put
<1>4. decision = Put(decision, c, decision[c])
  BY DEF PortInv, PortCallTypeOK, Put
<1>5. amendments = Put(amendments, c, amendments[c])
  BY DEF PortInv, PortCallTypeOK, Put
<1>6. c \in Rows => calls[c] \in CallRow
  BY DEF PortInv, PortCallTypeOK, Rows
<1>7. c \in Rows => \A e \in Rows : e # c => calls[e].key # calls[c].key
  BY DEF PortInv, KeysUnique
<1>8. decision[c] # None => decision[c] \in DecisionRow
  BY DEF PortInv, PortCallTypeOK
<1>9. docs[c] \in [Docs -> {"NONE", "DECLARED", "VERIFIED", "REJECTED"}]
  BY DEF PortInv, PortCallTypeOK
<1> QED
  BY <1>1, <1>2, <1>3, <1>4, <1>5, <1>6, <1>7, <1>8, <1>9

LEMMA CreateStep ==
    ASSUME PortInv, NEW c \in Calls, NEW k \in Keys \union Messages, Create(k, c),
           handling' \subseteq Messages \X Calls, now' \in 0..MaxTime
    PROVE  PortInv'
<1> DEFINE next == [key |-> k, status |-> "DRAFT", version |-> 1]
           e == [type |-> "created", version |-> 1]
<1>1. next \in CallRow /\ e \in Event
  BY DEF CallRow, Event
<1>2. next.version = 1 /\ next.status = "DRAFT" /\ next.key = k /\ e.type = "created" /\ e.version = 1
  OBVIOUS
<1>3. /\ calls' = Put(calls, c, next) /\ outbox' = Put(outbox, c, Append(outbox[c], e))
      /\ calls[c] = None
      /\ UNCHANGED <<profile, docs, superseded, decision, amendments>>
  BY DEF Put, Create, Emit
<1>4. CallKept(None, docs[c], decision[c], amendments[c], outbox[c])
  BY <1>3, OfCall
<1>5. \A x \in Rows : x # c => calls[x].key # next.key
  BY <1>2 DEF Create, KeyUnused
<1>6. next # None
  BY <1>1, PortCallAssumptions
<1>7. profile' \in {"UNKNOWN", "ACTIVE", "INACTIVE"}
  BY <1>3 DEF PortInv, PortCallTypeOK
<1> HIDE DEF next, e
<1>8. CallKept(next, docs[c], decision[c], amendments[c], Append(outbox[c], e))
  BY <1>1, <1>2, <1>4, CreateKeeps
<1> QED
  BY <1>3, <1>5, <1>6, <1>7, <1>8, OneCallWritten, OfCall

LEMMA TransitionStep ==
    ASSUME PortInv, NEW c \in Calls, NEW next \in {"SUBMITTED", "ACCEPTED", "REJECTED"},
           Transition(c, calls[c].version, next), UNCHANGED <<handling, now>>
    PROVE  PortInv'
<1>1. calls[c] \in CallRow /\ c \in Rows
  BY OfCall DEF Transition
<1>2. PICK row \in CallRow :
        /\ row = Moved(calls[c], next)
        /\ row.status = next /\ row.version = calls[c].version + 1 /\ row.key = calls[c].key
  BY <1>1, RowMoved DEF Statuses
<1>3. PICK n \in Nat : n = calls[c].version + 1
  BY <1>1, RowStepped
<1>4. PICK e \in Event : e = [type |-> "status_changed", status |-> next, version |-> n]
  BY DEF Event, Statuses
<1>5. e.type = "status_changed" /\ e.version = row.version /\ e.status = row.status
  BY <1>2, <1>3, <1>4
<1>6. calls' = Put(calls, c, row)
  BY <1>2 DEF Put, Moved, Transition, PortInv, PortCallTypeOK
<1>7. outbox' = Put(outbox, c, Append(outbox[c], e)) /\ UNCHANGED <<profile, docs, superseded, decision, amendments>>
  BY <1>3, <1>4 DEF Put, Transition, Emit
<1>8. CallKept(row, docs[c], decision[c], amendments[c], Append(outbox[c], e))
  BY <1>1, <1>2, <1>5, OfCall, TransitionKeeps
<1>9. row # None /\ \A x \in Rows : x # c => calls[x].key # row.key
  BY <1>1, <1>2, OfCall, PortCallAssumptions
<1>10. profile' \in {"UNKNOWN", "ACTIVE", "INACTIVE"} /\ handling' \subseteq Messages \X Calls /\ now' \in 0..MaxTime
  BY <1>7 DEF PortInv, PortCallTypeOK
<1> QED
  BY <1>6, <1>7, <1>8, <1>9, <1>10, OneCallWritten, OfCall

\* A document step: the documents and events of a call that exists.
LEMMA DocumentStep ==
    ASSUME PortInv, NEW c \in Calls, NEW doc, NEW t,
           CallKept(calls[c], doc, decision[c], amendments[c], t),
           \E d \in Docs : docs[c][d] # "NONE" \/ calls[c] # None,
           docs' = Put(docs, c, doc), outbox' = Put(outbox, c, t),
           UNCHANGED <<profile, calls, decision, amendments, handling, now>>
    PROVE  PortInv'
<1>1. calls[c] # None
  BY OfCall DEF CallKept, Blank
<1>2. \A x \in Rows : x # c => calls[x].key # calls[c].key
  BY <1>1, OfCall DEF Rows
<1>3. profile' \in {"UNKNOWN", "ACTIVE", "INACTIVE"} /\ handling' \subseteq Messages \X Calls /\ now' \in 0..MaxTime
  BY DEF PortInv, PortCallTypeOK
<1> QED
  BY <1>1, <1>2, <1>3, OneCallWritten, OfCall

LEMMA DeclareStep ==
    ASSUME PortInv, NEW c \in Calls, NEW d \in Docs, declareDocumentTx(c, d), UNCHANGED <<handling, now>>
    PROVE  PortInv'
<1>1. calls[c] \in CallRow /\ calls[c] # None
  BY OfCall DEF declareDocumentTx, Rows
<1>2. PICK e \in Event : e = [type |-> "document_declared", doc |-> d]
  BY DEF Event
<1>3. e.type = "document_declared" /\ e.doc = d
  BY <1>2
<1>4. docs' = Put(docs, c, [docs[c] EXCEPT ![d] = "DECLARED"])
  BY DEF Put, declareDocumentTx, PortInv, PortCallTypeOK
<1>5. outbox' = Put(outbox, c, Append(outbox[c], e)) /\ UNCHANGED <<profile, calls, superseded, decision, amendments>>
  BY <1>2 DEF Put, declareDocumentTx, Emit
<1>6. CallKept(calls[c], [docs[c] EXCEPT ![d] = "DECLARED"], decision[c], amendments[c], Append(outbox[c], e))
  BY <1>1, <1>3, OfCall, DeclareKeeps
<1> QED
  BY <1>1, <1>4, <1>5, <1>6, DocumentStep

LEMMA ReviewStep ==
    ASSUME PortInv, NEW c \in Calls, NEW d \in Docs, NEW v \in {"VERIFIED", "REJECTED"},
           reviewDocumentTx(c, d, v), UNCHANGED <<handling, now>>
    PROVE  PortInv'
<1>1. docs[c][d] = "DECLARED"
  BY DEF reviewDocumentTx
<1>2. PICK e \in Event : e = [type |-> "document_reviewed", doc |-> d, verdict |-> v]
  BY DEF Event
<1>3. e.type = "document_reviewed" /\ e.doc = d /\ e.verdict = v
  BY <1>2
<1>4. docs' = Put(docs, c, [docs[c] EXCEPT ![d] = v])
  BY DEF Put, reviewDocumentTx, PortInv, PortCallTypeOK
<1>5. outbox' = Put(outbox, c, Append(outbox[c], e)) /\ UNCHANGED <<profile, calls, superseded, decision, amendments>>
  BY <1>2 DEF Put, reviewDocumentTx, Emit
<1>6. CallKept(calls[c], [docs[c] EXCEPT ![d] = v], decision[c], amendments[c], Append(outbox[c], e))
  BY <1>1, <1>3, OfCall, ReviewKeeps
<1>7. docs[c][d] # "NONE"
  BY <1>1
<1> QED
  BY <1>4, <1>5, <1>6, <1>7, DocumentStep

LEMMA SupersedeStep ==
    ASSUME PortInv, NEW c \in Calls, NEW d \in Docs, NEW r \in Docs,
           SupersedeDocument(c, d, r), UNCHANGED <<handling, now>>
    PROVE  PortInv'
<1>1. docs[c][d] = "VERIFIED"
  BY DEF SupersedeDocument
<1>2. PICK e \in Event : e = [type |-> "document_superseded", doc |-> d]
  BY DEF Event
<1>3. e.type = "document_superseded"
  BY <1>2
<1>4. docs' = Put(docs, c, docs[c])
  BY OfCall DEF SupersedeDocument
<1>5. outbox' = Put(outbox, c, Append(outbox[c], e)) /\ UNCHANGED <<profile, calls, decision, amendments>>
  BY <1>2 DEF Put, SupersedeDocument, Emit
<1>6. CallKept(calls[c], docs[c], decision[c], amendments[c], Append(outbox[c], e))
  BY <1>1, <1>3, OfCall, SupersedeKeeps
<1>7. docs[c][d] # "NONE"
  BY <1>1
<1> QED
  BY <1>4, <1>5, <1>6, <1>7, DocumentStep

LEMMA DecideStep ==
    ASSUME PortInv, NEW c \in Calls, NEW v \in Decisions, NEW o \in Officers,
           decideClearanceTx(c, calls[c].version, v, o), UNCHANGED <<handling, now>>
    PROVE  PortInv'
<1>1. calls[c] \in CallRow /\ c \in Rows /\ decision[c] = None
  BY OfCall DEF decideClearanceTx
<1>2. PICK row \in CallRow :
        /\ row = Stepped(calls[c])
        /\ row.status = calls[c].status /\ row.version = calls[c].version + 1 /\ row.key = calls[c].key
  BY <1>1, RowStepped
<1>3. PICK n \in Nat : n = calls[c].version + 1 /\ row.version = n
  BY <1>1, <1>2, RowStepped
<1>4. PICK e \in Event : e = [type |-> "clearance_decided", verdict |-> v, by |-> o, version |-> n]
  BY DEF Event, VerdictTypes
<1>5. PICK dec \in DecisionRow : dec = [verdict |-> v, by |-> o, version |-> n]
  BY DEF DecisionRow
<1>6. e.type = "clearance_decided" /\ e.version = row.version /\ Took(dec, e) /\ dec.version = row.version /\ e.verdict = v
  BY <1>3, <1>4, <1>5 DEF Took
<1>7. calls' = Put(calls, c, row)
  BY <1>2 DEF Put, Stepped, decideClearanceTx, PortInv, PortCallTypeOK
<1>8. decision' = Put(decision, c, dec)
  BY <1>3, <1>5 DEF Put, decideClearanceTx
<1>9. outbox' = Put(outbox, c, Append(outbox[c], e)) /\ UNCHANGED <<profile, docs, superseded, amendments>>
  BY <1>3, <1>4 DEF Put, decideClearanceTx, Emit
<1>10. v = "APPROVED" => /\ \E d \in Docs : docs[c][d] # "NONE"
                         /\ \A d \in Docs : docs[c][d] # "NONE" => docs[c][d] = "VERIFIED"
  BY DEF decideClearanceTx, DocumentsSettled, Declared
<1>11. CallKept(calls[c], docs[c], None, amendments[c], outbox[c])
  BY <1>1, OfCall
<1>12. CallKept(row, docs[c], dec, amendments[c], Append(outbox[c], e))
  BY <1>1, <1>2, <1>6, <1>10, <1>11, DecideKeeps
<1>13. row # None /\ \A x \in Rows : x # c => calls[x].key # row.key
  BY <1>1, <1>2, OfCall, PortCallAssumptions
<1>14. profile' \in {"UNKNOWN", "ACTIVE", "INACTIVE"} /\ handling' \subseteq Messages \X Calls /\ now' \in 0..MaxTime
  BY <1>9 DEF PortInv, PortCallTypeOK
<1> QED
  BY <1>7, <1>8, <1>9, <1>12, <1>13, <1>14, OneCallWritten, OfCall

LEMMA AmendStep ==
    ASSUME PortInv, NEW c \in Calls, NEW v \in Decisions, NEW o \in Officers,
           amendClearanceTx(c, calls[c].version, v, o), UNCHANGED <<handling, now>>
    PROVE  PortInv'
<1>1. calls[c] \in CallRow /\ c \in Rows /\ decision[c] \in DecisionRow
  BY OfCall DEF amendClearanceTx
<1>2. PICK row \in CallRow :
        /\ row = Moved(calls[c], AlignedStatus(c, v))
        /\ row.status = AlignedStatus(c, v) /\ row.version = calls[c].version + 1 /\ row.key = calls[c].key
  BY <1>1, RowMoved DEF Statuses, AlignedStatus
<1>3. PICK n \in Nat : n = calls[c].version + 1 /\ row.version = n
  BY <1>1, <1>2, RowStepped
<1>4. PICK e \in Event : e = [type |-> "clearance_amended", verdict |-> v, by |-> o, version |-> n]
  BY DEF Event, VerdictTypes
<1>5. PICK dec \in DecisionRow : dec = [verdict |-> v, by |-> o, version |-> n]
  BY DEF DecisionRow
<1>6. PICK a \in Amendment : a = [prior |-> decision[c].verdict, amended |-> v, by |-> o, version |-> n]
  BY <1>1 DEF DecisionRow, Amendment
<1>7. /\ e.type = "clearance_amended" /\ e.version = row.version /\ Took(dec, e) /\ dec.version = row.version
      /\ dec.verdict = v /\ dec.by = o
      /\ a.prior = decision[c].verdict /\ a.amended = dec.verdict /\ a.by = dec.by /\ a.version = dec.version
  BY <1>3, <1>4, <1>5, <1>6 DEF Took
<1>8. calls' = Put(calls, c, row)
  BY <1>2 DEF Put, Moved, amendClearanceTx, PortInv, PortCallTypeOK
<1>9. decision' = Put(decision, c, dec)
  BY <1>3, <1>5 DEF Put, amendClearanceTx
<1>10. amendments' = Put(amendments, c, Append(amendments[c], a))
  BY <1>3, <1>6 DEF Put, amendClearanceTx
<1>11. outbox' = Put(outbox, c, Append(outbox[c], e)) /\ UNCHANGED <<profile, docs, superseded>>
  BY <1>3, <1>4 DEF Put, amendClearanceTx, Emit
<1>12. decision[c].verdict # dec.verdict /\ decision[c].by # dec.by
  BY <1>7 DEF amendClearanceTx, MayAmend
<1>13. row.status = IF dec.verdict = "REJECTED" THEN "REJECTED" ELSE "ACCEPTED"
  BY <1>2, <1>7 DEF AlignedStatus
<1>14. CallKept(row, docs[c], dec, Append(amendments[c], a), Append(outbox[c], e))
  BY <1>1, <1>2, <1>7, <1>12, <1>13, OfCall, AmendKeeps
<1>15. row # None /\ \A x \in Rows : x # c => calls[x].key # row.key
  BY <1>1, <1>2, OfCall, PortCallAssumptions
<1>16. profile' \in {"UNKNOWN", "ACTIVE", "INACTIVE"} /\ handling' \subseteq Messages \X Calls /\ now' \in 0..MaxTime
  BY <1>11 DEF PortInv, PortCallTypeOK
<1> QED
  BY <1>8, <1>9, <1>10, <1>11, <1>14, <1>15, <1>16, OneCallWritten, OfCall

\* A step that leaves the rows and the events alone.
LEMMA RowsUntouched ==
    ASSUME PortInv, UNCHANGED <<calls, docs, decision, amendments, outbox>>,
           profile' \in {"UNKNOWN", "ACTIVE", "INACTIVE"}, handling' \subseteq Messages \X Calls, now' \in 0..MaxTime
    PROVE  PortInv'
BY DEF PortInv, PortCallTypeOK, KeysUnique, Rows

LEMMA PortInvInit == PortCallInit => PortInv
<1>1. SUFFICES ASSUME PortCallInit PROVE PortInv
  OBVIOUS
<1>2. PortCallTypeOK /\ outbox \in [Calls -> Seq(Event)] /\ KeysUnique
  BY <1>1, PortCallAssumptions DEF PortCallInit, PortCallTypeOK, KeysUnique, Rows
<1>3. ASSUME NEW c \in Calls
      PROVE  CallKept(calls[c], docs[c], decision[c], amendments[c], outbox[c])
  <2>1. /\ calls[c] = None /\ docs[c] = [d \in Docs |-> "NONE"] /\ decision[c] = None
        /\ amendments[c] = <<>> /\ outbox[c] = <<>>
    BY <1>1 DEF PortCallInit
  <2>2. \A T : At(outbox[c], T) = {}
    BY <2>1 DEF At
  <2>3. RowsTyped(calls[c], docs[c], decision[c], amendments[c], outbox[c])
    BY <2>1 DEF RowsTyped
  <2>4. Blank(calls[c], docs[c], decision[c], amendments[c], outbox[c])
    BY <2>1 DEF Blank
  <2>5. DocsKept(docs[c], outbox[c])
    BY <2>1, <2>2 DEF DocsKept
  <2>6. ApprovalsKept(outbox[c])
    BY <2>1 DEF ApprovalsKept
  <2> QED
    BY <2>1, <2>2, <2>3, <2>4, <2>5, <2>6 DEF CallKept, VersionKept, VerdictKept, StatusKept, ChainKept
<1> QED
  BY <1>2, <1>3 DEF PortInv

LEMMA PortInvNext == PortInv /\ [PortCallNext]_portVars => PortInv'
<1>1. SUFFICES ASSUME PortInv, [PortCallNext]_portVars PROVE PortInv'
  OBVIOUS
<1>2. /\ profile \in {"UNKNOWN", "ACTIVE", "INACTIVE"} /\ handling \subseteq Messages \X Calls /\ now \in 0..MaxTime
      /\ MaxTime \in Nat
  BY <1>1, PortCallAssumptions DEF PortInv, PortCallTypeOK
<1>3. ASSUME NEW active \in BOOLEAN, RegisterAgencyProfile(active), UNCHANGED <<reserved, handling, now>>
      PROVE  PortInv'
  BY <1>1, <1>2, <1>3, RowsUntouched DEF RegisterAgencyProfile
<1>4. ASSUME NEW c \in Calls, Operation(c), UNCHANGED <<reserved, handling, now>>
      PROVE  PortInv'
  <2>1. ASSUME NEW k \in Keys, Create(k, c) PROVE PortInv'
    BY <1>1, <1>2, <1>4, <2>1, CreateStep
  <2>2. ASSUME NEW next \in {"SUBMITTED", "ACCEPTED", "REJECTED"}, Transition(c, calls[c].version, next) PROVE PortInv'
    BY <1>1, <1>4, <2>2, TransitionStep
  <2>3. ASSUME NEW v \in Decisions, NEW o \in Officers, decideClearanceTx(c, calls[c].version, v, o) PROVE PortInv'
    BY <1>1, <1>4, <2>3, DecideStep
  <2>4. ASSUME NEW v \in Decisions, NEW o \in Officers, amendClearanceTx(c, calls[c].version, v, o) PROVE PortInv'
    BY <1>1, <1>4, <2>4, AmendStep
  <2>5. ASSUME NEW d \in Docs, declareDocumentTx(c, d) PROVE PortInv'
    BY <1>1, <1>4, <2>5, DeclareStep
  <2>6. ASSUME NEW d \in Docs, NEW v \in {"VERIFIED", "REJECTED"}, reviewDocumentTx(c, d, v) PROVE PortInv'
    BY <1>1, <1>4, <2>6, ReviewStep
  <2>7. ASSUME NEW d \in Docs, NEW r \in Docs, SupersedeDocument(c, d, r) PROVE PortInv'
    BY <1>1, <1>4, <2>7, SupersedeStep
  <2> QED
    BY <1>4, <2>1, <2>2, <2>3, <2>4, <2>5, <2>6, <2>7 DEF Operation
<1>5. ASSUME NEW m \in Messages, NEW c \in Calls, NewIngress(m, c)
      PROVE  PortInv'
  <2>1. handling' = handling \union {<<m, c>>} /\ UNCHANGED <<callVars, now>>
    BY <1>5 DEF NewIngress
  <2>2. handling' \subseteq Messages \X Calls
    BY <1>2, <2>1
  <2> QED
    BY <1>1, <1>2, <2>1, <2>2, RowsUntouched DEF callVars
<1>6. ASSUME NEW m \in Messages, NEW c \in Calls, nswPortCall(m, c)
      PROVE  PortInv'
  <2>1. handling' \subseteq Messages \X Calls /\ now' = now
    BY <1>2, <1>6 DEF nswPortCall
  <2>2. ASSUME Create(m, c) PROVE PortInv'
    BY <1>1, <1>2, <2>1, <2>2, CreateStep
  <2>3. ASSUME UNCHANGED callVars PROVE PortInv'
    BY <1>1, <1>2, <2>1, <2>3, RowsUntouched DEF callVars
  <2> QED
    BY <1>6, <2>2, <2>3 DEF nswPortCall
<1>7. ASSUME Tick PROVE PortInv'
  BY <1>1, <1>2, <1>7, RowsUntouched DEF Tick, callVars
<1>8. ASSUME UNCHANGED portVars PROVE PortInv'
  BY <1>1, <1>2, <1>8, RowsUntouched DEF portVars
<1> QED
  BY <1>1, <1>3, <1>4, <1>5, <1>6, <1>7, <1>8 DEF PortCallNext

-----------------------------------------------------------------------------
(* The run properties.                                                     *)

LEMMA LastIs ==
    ASSUME NEW s \in Seq(Event), NEW T, NEW i, LastAt(s, T, i)
    PROVE  Last(At(s, T)) = i /\ At(s, T) # {}
<1>1. i \in At(s, T) /\ At(s, T) \subseteq Int /\ \A j \in At(s, T) : j <= i
  BY AtFinite DEF LastAt
<1>2. \A k \in At(s, T) : (\A j \in At(s, T) : j <= k) => k = i
  BY <1>1
<1> QED
  BY <1>1, <1>2 DEF Last

LEMMA PositionsAt ==
    ASSUME NEW c \in Calls
    PROVE  /\ Versioned(c) = At(outbox[c], VersionTypes)
           /\ Positions(c, "clearance_decided") \union Positions(c, "clearance_amended") = At(outbox[c], VerdictTypes)
           /\ Positions(c, "status_changed") \union Positions(c, "clearance_amended") = At(outbox[c], MoveTypes)
           /\ Positions(c, "clearance_decided") = At(outbox[c], {"clearance_decided"})
<1>1. Versioned(c) = At(outbox[c], VersionTypes)
  BY DEF Versioned, At, VersionTypes
<1>2. Positions(c, "clearance_decided") \union Positions(c, "clearance_amended") = At(outbox[c], VerdictTypes)
  BY DEF Positions, At, VerdictTypes
<1>3. Positions(c, "status_changed") \union Positions(c, "clearance_amended") = At(outbox[c], MoveTypes)
  BY DEF Positions, At, MoveTypes
<1>4. Positions(c, "clearance_decided") = At(outbox[c], {"clearance_decided"})
  BY DEF Positions, At
<1> QED
  BY <1>1, <1>2, <1>3, <1>4

LEMMA DecisionIs ==
    ASSUME NEW dec \in DecisionRow
    PROVE  dec = [verdict |-> dec.verdict, by |-> dec.by, version |-> dec.version]
BY DEF DecisionRow

LEMMA ReplaysFromInv == PortInv => OutboxReplays
<1>1. SUFFICES ASSUME PortInv, NEW c \in Rows
               PROVE  LET event(i) == outbox[c][i]
                          verdicts == Positions(c, "clearance_decided") \union Positions(c, "clearance_amended")
                          moves == Positions(c, "status_changed") \union Positions(c, "clearance_amended")
                      IN /\ calls[c].version = event(Last(Versioned(c))).version
                         /\ calls[c].version = Cardinality(Versioned(c))
                         /\ IF verdicts = {} THEN decision[c] = None
                              ELSE decision[c] = [verdict |-> event(Last(verdicts)).verdict, by |-> event(Last(verdicts)).by,
                                                   version |-> event(Last(verdicts)).version]
                         /\ calls[c].status =
                              IF moves = {} THEN "DRAFT"
                              ELSE IF event(Last(moves)).type = "status_changed" THEN event(Last(moves)).status
                              ELSE IF event(Last(moves)).verdict = "REJECTED" THEN "REJECTED" ELSE "ACCEPTED"
  BY DEF OutboxReplays
<1>2. c \in Calls /\ calls[c] # None
  BY DEF Rows
<1>3. CallKept(calls[c], docs[c], decision[c], amendments[c], outbox[c])
  BY <1>1, <1>2, OfCall
<1>4. PICK s \in Seq(Event) : s = outbox[c]
  BY <1>3 DEF CallKept, RowsTyped
<1>5. calls[c].version = s[Last(At(s, VersionTypes))].version /\ calls[c].version = Cardinality(At(s, VersionTypes))
  BY <1>2, <1>3, <1>4, LastIs DEF CallKept, VersionKept
<1>6. IF At(s, VerdictTypes) = {} THEN decision[c] = None
      ELSE decision[c] = [verdict |-> s[Last(At(s, VerdictTypes))].verdict, by |-> s[Last(At(s, VerdictTypes))].by,
                           version |-> s[Last(At(s, VerdictTypes))].version]
  <2>1. CASE decision[c] = None
    BY <1>3, <1>4, <2>1 DEF CallKept, VerdictKept
  <2>2. CASE decision[c] # None
    <3>1. PICK i \in DOMAIN s : LastAt(s, VerdictTypes, i) /\ Took(decision[c], s[i])
      BY <1>3, <1>4, <2>2 DEF CallKept, VerdictKept
    <3>2. Last(At(s, VerdictTypes)) = i /\ At(s, VerdictTypes) # {}
      BY <3>1, LastIs
    <3>3. decision[c] \in DecisionRow
      BY <1>1, <1>2, <2>2, OfCall
    <3>4. decision[c] = [verdict |-> s[i].verdict, by |-> s[i].by, version |-> s[i].version]
      BY <3>1, <3>3, DecisionIs DEF Took
    <3> QED
      BY <3>2, <3>4
  <2> QED
    BY <2>1, <2>2
<1>7. calls[c].status = IF At(s, MoveTypes) = {} THEN "DRAFT" ELSE Said(s[Last(At(s, MoveTypes))])
  BY <1>2, <1>3, <1>4, LastIs DEF CallKept, StatusKept
<1> QED
  BY <1>2, <1>4, <1>5, <1>6, <1>7, PositionsAt DEF Said

LEMMA FourEyesFromInv == PortInv => FourEyesChain
<1>1. SUFFICES ASSUME PortInv, NEW c \in Calls, NEW i \in DOMAIN amendments[c]
               PROVE  LET a == amendments[c][i]
                          first == outbox[c][Last(Positions(c, "clearance_decided"))]
                          before == IF i = 1 THEN [amended |-> first.verdict, by |-> first.by, version |-> first.version]
                                    ELSE amendments[c][i - 1]
                      IN /\ a.prior = before.amended /\ a.amended # before.amended
                         /\ a.by # before.by /\ a.version > before.version
                         /\ i = Len(amendments[c]) =>
                              decision[c] = [verdict |-> a.amended, by |-> a.by, version |-> a.version]
  BY DEF FourEyesChain
<1>2. CallKept(calls[c], docs[c], decision[c], amendments[c], outbox[c])
  BY <1>1, OfCall
<1>3. PICK s \in Seq(Event), am \in Seq(Amendment) : s = outbox[c] /\ am = amendments[c]
  BY <1>2 DEF CallKept, RowsTyped
<1>4. am # <<>> /\ i \in DOMAIN am
  BY <1>1, <1>3
<1>5. decision[c] # None
  BY <1>2, <1>3, <1>4 DEF CallKept, ChainKept
<1>6. PICK k \in DOMAIN s : /\ LastAt(s, {"clearance_decided"}, k) /\ InForce(decision[c], am, s[k])
                            /\ Link(am, s[k], i)
  BY <1>2, <1>3, <1>4, <1>5 DEF CallKept, ChainKept
<1>7. Last(Positions(c, "clearance_decided")) = k
  BY <1>3, <1>6, LastIs, PositionsAt
<1>8. i = Len(am) => decision[c] = [verdict |-> am[i].amended, by |-> am[i].by, version |-> am[i].version]
  BY <1>1, <1>4, <1>5, <1>6, OfCall, DecisionIs DEF InForce
<1>9. CASE i = 1
  <2>1. /\ am[i].prior = s[k].verdict /\ am[i].amended # s[k].verdict
        /\ am[i].by # s[k].by /\ am[i].version > s[k].version
    BY <1>6, <1>9 DEF Link
  <2> QED
    BY <1>3, <1>7, <1>8, <1>9, <2>1
<1>10. CASE i # 1
  <2>1. /\ am[i].prior = am[i - 1].amended /\ am[i].amended # am[i - 1].amended
        /\ am[i].by # am[i - 1].by /\ am[i].version > am[i - 1].version
    BY <1>6, <1>10 DEF Link
  <2> QED
    BY <1>3, <1>8, <1>10, <2>1
<1> QED
  BY <1>9, <1>10

LEMMA VerifiedFromInv == PortInv => ApprovalVerified
<1>1. SUFFICES ASSUME PortInv, NEW c \in Calls, NEW i \in Positions(c, "clearance_decided"),
                      outbox[c][i].verdict = "APPROVED"
               PROVE  LET earlier == {j \in Positions(c, "document_declared") : j < i} IN
                      /\ earlier # {}
                      /\ \A j \in earlier : \E k \in Positions(c, "document_reviewed") :
                           k < i /\ outbox[c][k].doc = outbox[c][j].doc /\ outbox[c][k].verdict = "VERIFIED"
  BY DEF ApprovalVerified
<1>2. ApprovalsKept(outbox[c])
  BY <1>1, OfCall DEF CallKept
<1>3. i \in DOMAIN outbox[c] /\ outbox[c][i].type = "clearance_decided"
  BY <1>1 DEF Positions
<1>4. /\ \E j \in DOMAIN outbox[c] : j < i /\ outbox[c][j].type = "document_declared"
      /\ \A j \in DOMAIN outbox[c] : j < i /\ outbox[c][j].type = "document_declared" =>
           \E k \in DOMAIN outbox[c] : k < i /\ Reviewed(outbox[c], outbox[c][j].doc, k)
  BY <1>1, <1>2, <1>3 DEF ApprovalsKept
<1> QED
  BY <1>4 DEF Positions, Reviewed

LEMMA OneCallFromInv == PortInv => OneCallPerMessage
<1>1. SUFFICES ASSUME PortInv, NEW m \in Messages
               PROVE  Cardinality({c \in Rows : calls[c].key = m}) <= 1
  BY DEF OneCallPerMessage
<1> DEFINE S == {c \in Rows : calls[c].key = m}
<1>2. \A x, y \in S : x = y
  BY <1>1 DEF PortInv, KeysUnique
<1>3. CASE S = {}
  BY <1>3, FS_EmptySet
<1>4. CASE S # {}
  <2>1. PICK x : S = {x}
    BY <1>2, <1>4
  <2> QED
    BY <2>1, FS_Singleton
<1> QED
  BY <1>3, <1>4

\* The rows of port calls, their documents, decisions and amendments keep
\* their types.
THEOREM PortCallTyped == PortCallSpec => []PortCallTypeOK
<1>1. PortInv => PortCallTypeOK
  BY DEF PortInv
<1> QED
  BY <1>1, PortInvInit, PortInvNext, PTL DEF PortCallSpec

\* The events of any call replay to its version, its decision and its status,
\* and its version counts the events that moved it (Transition,
\* decideClearanceTx, amendClearanceTx).
THEOREM EventsReplayCall == PortCallSpec => []OutboxReplays
BY PortInvInit, PortInvNext, ReplaysFromInv, PTL DEF PortCallSpec

\* However long the chain of amendments, each link starts at the verdict before
\* it, reverses it, is another officer's, and is later; the last one is the
\* decision in force (amendClearanceTx).
THEOREM AmendedInTurn == PortCallSpec => []FourEyesChain
BY PortInvInit, PortInvNext, FourEyesFromInv, PTL DEF PortCallSpec

\* An approval is only decided on documents all verified by then
\* (decideClearanceTx).
THEOREM ApprovedAfterReview == PortCallSpec => []ApprovalVerified
BY PortInvInit, PortInvNext, VerifiedFromInv, PTL DEF PortCallSpec

\* However often and whenever an authority message is delivered, it creates at
\* most one call: the reservation may lapse, the idempotency key does not
\* (NewIngress, nswPortCall, Create).
THEOREM MessageCreatesOnce == PortCallSpec => []OneCallPerMessage
BY PortInvInit, PortInvNext, OneCallFromInv, PTL DEF PortCallSpec
=============================================================================
