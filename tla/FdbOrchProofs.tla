--------------------------- MODULE FdbOrchProofs ---------------------------
(***************************************************************************)
(* Proofs about FdbOrch, for any number of MACs, ports and notifications:  *)
(* what it derives from its cache says what the cache says; cache and ASIC *)
(* agree when the notifications are handled; a static MAC survives.        *)
(***************************************************************************)
EXTENDS FdbOrch, FiniteSetTheorems, WellFoundedInduction, SequenceTheorems, TLAPS

-----------------------------------------------------------------------------
(* Finite sets and folds                                                   *)

\* A set of numbers that has 0 and every successor has all: the initial
\* segments of the natural numbers are well-founded.
LEMMA Induct ==
    ASSUME NEW S \in SUBSET Nat, 0 \in S, \A n \in S : n + 1 \in S
    PROVE  \A n \in Nat : n \in S
<1> SUFFICES ASSUME NEW n \in Nat, n \notin S PROVE FALSE
  OBVIOUS
<1> PICK R : R = StrictSubsetOrdering(Nat)
  OBVIOUS
<1> PICK W : W = {0 .. k : k \in Nat \ S}
  OBVIOUS
<1>1. IsWellFoundedOn(R, FiniteSubsetsOf(Nat))
  BY FS_StrictSubsetOrderingWellFounded
<1>2. W \subseteq FiniteSubsetsOf(Nat)
  <2> SUFFICES ASSUME NEW k \in Nat PROVE 0 .. k \in FiniteSubsetsOf(Nat)
    OBVIOUS
  <2>1. IsFiniteSet(0 .. k)
    BY FS_Interval, 0 \in Int, k \in Int
  <2> QED
    BY <2>1 DEF FiniteSubsetsOf
<1>3. W # {}
  OBVIOUS
<1>4. PICK x \in W : \A y \in W : ~(<<y, x>> \in R)
  BY <1>1, <1>2, <1>3, WFMin
<1>5. PICK k \in Nat \ S : x = 0 .. k
  OBVIOUS
<1>6. k # 0 /\ k - 1 \in Nat /\ k - 1 \notin S
  OBVIOUS
<1>7. 0 .. (k - 1) \in W
  BY <1>6
<1>8. <<0 .. (k - 1), x>> \in R
  BY <1>5, <1>6 DEF StrictSubsetOrdering
<1> QED
  BY <1>4, <1>7, <1>8

\* A set of numbers that is not empty has a least one, the one Min chooses.
LEMMA MinExists ==
    ASSUME NEW I \in SUBSET Nat, I # {}
    PROVE  Min(I) \in I
<1>1. \E x \in I : \A y \in I : x =< y
  <2> SUFFICES ASSUME \A x \in I : \E y \in I : y < x PROVE FALSE
    OBVIOUS
  <2> PICK S : S = {n \in Nat : \A k \in 0 .. n : k \notin I}
    OBVIOUS
  <2>1. 0 \in S
    OBVIOUS
  <2>2. ASSUME NEW n \in S PROVE n + 1 \in S
    OBVIOUS
  <2>3. \A n \in Nat : n \in S
    BY <2>1, <2>2, Induct
  <2>4. PICK x \in I : TRUE
    OBVIOUS
  <2>5. x \in Nat /\ x \in S /\ x \in 0 .. x
    BY <2>3
  <2> QED
    BY <2>5
<1> QED
  BY <1>1 DEF Min

\* A set of numbers up to n that is not empty has a greatest one.
LEMMA MaxExists ==
    ASSUME NEW n \in Nat, NEW I \in SUBSET (1 .. n), I # {}
    PROVE  Max(I) \in I
<1>1. \E x \in I : \A y \in I : x >= y
  <2> SUFFICES ASSUME \A x \in I : \E y \in I : y > x PROVE FALSE
    OBVIOUS
  <2> PICK S : S = {i \in Nat : \A k \in I : k <= n - i}
    OBVIOUS
  <2>1. 0 \in S
    OBVIOUS
  <2>2. ASSUME NEW i \in S PROVE i + 1 \in S
    OBVIOUS
  <2>3. \A i \in Nat : i \in S
    BY <2>1, <2>2, Induct
  <2>4. PICK x \in I : TRUE
    OBVIOUS
  <2>5. n + 1 \in S
    BY <2>3, n + 1 \in Nat
  <2> QED
    BY <2>4, <2>5
<1> QED
  BY <1>1 DEF Max

\* Induction over the subsets of a finite set.
LEMMA FiniteInduct ==
    ASSUME NEW F, IsFiniteSet(F), NEW S \in SUBSET (SUBSET F),
           \A M \in SUBSET F : (\A N \in SUBSET M : N # M => N \in S) => M \in S
    PROVE  F \in S
<1> PICK K : K = {n \in Nat : \A M \in SUBSET F : Cardinality(M) < n => M \in S}
  OBVIOUS
<1>0. \A M \in SUBSET F : IsFiniteSet(M) /\ Cardinality(M) \in Nat
  BY FS_Subset, FS_CardinalityType
<1>1. 0 \in K
  BY <1>0
<1>2. ASSUME NEW n \in K PROVE n + 1 \in K
  <2> SUFFICES ASSUME NEW M \in SUBSET F, Cardinality(M) < n + 1 PROVE M \in S
    OBVIOUS
  <2>1. ASSUME NEW N \in SUBSET M, N # M PROVE N \in S
    <3>1. N \in SUBSET F /\ Cardinality(N) <= Cardinality(M) /\ Cardinality(N) # Cardinality(M)
      BY <1>0, <2>1, FS_Subset
    <3>2. Cardinality(N) < n
      BY <1>0, <3>1
    <3> QED
      BY <3>1, <3>2
  <2> QED
    BY <2>1
<1>3. \A n \in Nat : n \in K
  BY <1>1, <1>2, Induct
<1>4. Cardinality(F) \in Nat /\ F \in SUBSET F
  BY <1>0
<1>5. Cardinality(F) + 1 \in K /\ Cardinality(F) < Cardinality(F) + 1
  BY <1>3, <1>4
<1> QED
  BY <1>4, <1>5

\* What is folded over the entries that a flush removes.
FlushRest(M) == M \ {CHOOSE x \in M : TRUE}
FlushValue(h, s, M) ==
    IF M = {} THEN s ELSE clearFdbEntry(h[FlushRest(M)], CHOOSE x \in M : TRUE)
FlushIs(h, s, F) == h = [M \in SUBSET F |-> FlushValue(h, s, M)]

LEMMA FlushFold ==
    ASSUME NEW s, NEW F, IsFiniteSet(F)
    PROVE  \E h : FlushIs(h, s, F)
<1> DEFINE P(n, g) == \A M \in SUBSET F : Cardinality(M) <= n => g[M] = FlushValue(g, s, M)
<1> PICK K : K = {n \in Nat : \E g : P(n, g)}
  OBVIOUS
<1>0. \A M \in SUBSET F : IsFiniteSet(M) /\ Cardinality(M) \in Nat
  BY FS_Subset, FS_CardinalityType
<1>1. \A M \in SUBSET F : M # {} =>
         FlushRest(M) \in SUBSET F /\ Cardinality(FlushRest(M)) = Cardinality(M) - 1
  BY <1>0, FS_RemoveElement DEF FlushRest
<1>2. 0 \in K
  <2>1. \A M \in SUBSET F : Cardinality(M) <= 0 => M = {}
    BY <1>0, FS_EmptySet
  <2>2. P(0, [M \in SUBSET F |-> s])
    BY <2>1 DEF FlushValue
  <2> QED
    BY <2>2
<1>3. ASSUME NEW n \in K PROVE n + 1 \in K
  <2>1. PICK g : P(n, g)
    OBVIOUS
  <2>2. PICK h : h = [M \in SUBSET F |-> IF Cardinality(M) <= n THEN g[M] ELSE FlushValue(g, s, M)]
    OBVIOUS
  <2>3. ASSUME NEW M \in SUBSET F, Cardinality(M) <= n + 1
        PROVE  h[M] = FlushValue(h, s, M)
    <3>1. h[M] = FlushValue(g, s, M)
      BY <2>1, <2>2
    <3>2. M # {} => h[FlushRest(M)] = g[FlushRest(M)]
      BY <1>0, <1>1, <2>2, <2>3
    <3> QED
      BY <3>1, <3>2 DEF FlushValue
  <2>4. P(n + 1, h)
    BY <2>3
  <2> QED
    BY <2>4
<1>40. \A n \in Nat : n \in K
  <2> HIDE DEF P
  <2> QED
    BY <1>2, <1>3, Induct
<1>4. PICK g : P(Cardinality(F), g)
  BY <1>0, <1>40
<1>5. PICK h : h = [M \in SUBSET F |-> g[M]]
  OBVIOUS
<1>6. ASSUME NEW M \in SUBSET F PROVE g[M] = FlushValue(h, s, M)
  <2>1. Cardinality(M) <= Cardinality(F)
    BY FS_Subset
  <2>2. g[M] = FlushValue(g, s, M)
    BY <1>4, <2>1
  <2>3. M # {} => h[FlushRest(M)] = g[FlushRest(M)]
    BY <1>1, <1>5
  <2> QED
    BY <2>2, <2>3 DEF FlushValue
<1> QED
  BY <1>5, <1>6 DEF FlushIs

\* What is folded over the saved entries of a port.
AddNext(a, x) == AddOneSaved(a, x, addFdbEntry(Races(a, x.mac), x.mac, x.data, TRUE))
SavedRest(M) == M \ {Max(M)}
SavedValue(h, s, q, M) == IF M = {} THEN s ELSE AddNext(h[SavedRest(M)], q[Max(M)])
SavedIs(h, s, q, F) == h = [M \in SUBSET F |-> SavedValue(h, s, q, M)]

LEMMA SavedFold ==
    ASSUME NEW s, NEW n0 \in Nat, NEW F, F = 1 .. n0, NEW q
    PROVE  \E h : SavedIs(h, s, q, F)
<1> DEFINE P(n, g) == \A M \in SUBSET F : Cardinality(M) <= n => g[M] = SavedValue(g, s, q, M)
<1> PICK K : K = {n \in Nat : \E g : P(n, g)}
  OBVIOUS
<1>00. IsFiniteSet(F)
  BY FS_Interval, 1 \in Int, n0 \in Int
<1>0. \A M \in SUBSET F : IsFiniteSet(M) /\ Cardinality(M) \in Nat
  BY <1>00, FS_Subset, FS_CardinalityType
<1>1. \A M \in SUBSET F : M # {} =>
         SavedRest(M) \in SUBSET F /\ Cardinality(SavedRest(M)) = Cardinality(M) - 1
  <2> SUFFICES ASSUME NEW M \in SUBSET F, M # {}
               PROVE  SavedRest(M) \in SUBSET F /\ Cardinality(SavedRest(M)) = Cardinality(M) - 1
    OBVIOUS
  <2>1. Max(M) \in M
    BY MaxExists
  <2> QED
    BY <1>0, <2>1, FS_RemoveElement DEF SavedRest
<1>2. 0 \in K
  <2>1. \A M \in SUBSET F : Cardinality(M) <= 0 => M = {}
    BY <1>0, FS_EmptySet
  <2>2. P(0, [M \in SUBSET F |-> s])
    BY <2>1 DEF SavedValue
  <2> QED
    BY <2>2
<1>3. ASSUME NEW n \in K PROVE n + 1 \in K
  <2>1. PICK g : P(n, g)
    OBVIOUS
  <2>2. PICK h : h = [M \in SUBSET F |-> IF Cardinality(M) <= n THEN g[M] ELSE SavedValue(g, s, q, M)]
    OBVIOUS
  <2>3. ASSUME NEW M \in SUBSET F, Cardinality(M) <= n + 1
        PROVE  h[M] = SavedValue(h, s, q, M)
    <3>1. h[M] = SavedValue(g, s, q, M)
      BY <2>1, <2>2
    <3>2. M # {} => h[SavedRest(M)] = g[SavedRest(M)]
      BY <1>0, <1>1, <2>2, <2>3
    <3> QED
      BY <3>1, <3>2 DEF SavedValue
  <2>4. P(n + 1, h)
    BY <2>3
  <2> QED
    BY <2>4
<1>40. \A n \in Nat : n \in K
  <2> HIDE DEF P
  <2> QED
    BY <1>2, <1>3, Induct
<1>4. PICK g : P(Cardinality(F), g)
  BY <1>0, <1>40
<1>5. PICK h : h = [M \in SUBSET F |-> g[M]]
  OBVIOUS
<1>6. ASSUME NEW M \in SUBSET F PROVE g[M] = SavedValue(h, s, q, M)
  <2>1. Cardinality(M) <= Cardinality(F)
    BY <1>00, FS_Subset
  <2>2. g[M] = SavedValue(g, s, q, M)
    BY <1>4, <2>1
  <2>3. M # {} => h[SavedRest(M)] = g[SavedRest(M)]
    BY <1>1, <1>5
  <2> QED
    BY <2>2, <2>3 DEF SavedValue
<1> QED
  BY <1>5, <1>6 DEF SavedIs

-----------------------------------------------------------------------------
(* The state as a record, and what is true of it                           *)

BridgePorts == Port \X Nat
SaiTypes == {"dynamic", "static"}
Entry == [bp : BridgePorts, type : Types, origin : Origins, sai : SaiTypes,
          flush : BOOLEAN, dest : Dests]
AsicEntry == [origin : {"asic"}, bp : BridgePorts, sai : SaiTypes, allow : BOOLEAN]
Notifications ==
    [type : {"FLUSHED"}, mac : {AnyMac}, bp : BridgePorts \cup {NoBp}]
    \cup [type : {"AGED"}, mac : Mac, bp : BridgePorts]
    \cup [type : {"LEARNED", "MOVE"}, mac : Mac, bp : Phy \X Nat]
SavedData(p) == [port : {p}, type : Types, origin : Origins, dest : Dests]
Saved(p) == [mac : Mac, data : SavedData(p)]
SavedVxlan == [mac : Mac, data : [port : {Tunnel}, type : Types, origin : {"vxlan"}, dest : Dests]]

State ==
    [ent : [Mac -> Entry \cup {NoEntry}], saved : [Port -> Seq(UNION {Saved(p) : p \in Port})],
     bp : [Port -> BridgePorts \cup {NoBp}], members : SUBSET Port,
     vlan : Int, tunnel : Int, crm : Int,
     state : [Mac -> Port \cup {NoPort}], mclag : [Mac -> Port \cup {NoPort}],
     asic : [Mac -> AsicEntry \cup {NoEntry}], events : Seq(Notifications),
     excused : [Excuses -> SUBSET (Mac \cup (Mac \X Nat))]]

Ents(s) == {x \in Mac : s.ent[x] # NoEntry}
AtTunnel(s) == {x \in Mac : s.ent[x] # NoEntry /\ s.ent[x].bp[1] = Tunnel}
Torn(s) == {y[1] : y \in s.excused["torn"]}
NotStale(s) == s.excused["stale"] = {}

PortsOk(s) ==
    /\ \A p \in Port : s.bp[p] = NoBp \/ s.bp[p][1] = p
    /\ \A p \in s.members : s.bp[p] # NoBp
SavedOk(s) ==
    /\ \A p \in Port : s.saved[p] \in Seq(Saved(p))
    /\ NotStale(s) => s.saved[Tunnel] \in Seq(SavedVxlan)
\* The occurrences of a numbered excuse have numbers less than their number.
NumberedOk(N) ==
    IsFiniteSet(N) /\ N \subseteq Mac \X Nat /\ \A y \in N : y[2] < Cardinality(N)
TunnelsOk(s) ==
    NotStale(s) => \A x \in AtTunnel(s) : s.ent[x].bp = s.bp[Tunnel] /\ s.ent[x].origin = "vxlan"
Fine(s) ==
    /\ s \in State /\ PortsOk(s) /\ SavedOk(s) /\ TunnelsOk(s)
    /\ NumberedOk(s.excused["strays"]) /\ NumberedOk(s.excused["torn"])

\* By how much the counters of the VLAN, the tunnel and CRM are off, and whether
\* the rows of a MAC are right: an operation leaves this to its later calls.
VlanOff(s) == s.vlan - Cardinality(Ents(s)) + Cardinality(s.excused["strays"])
TunnelOff(s) == s.tunnel - Cardinality(AtTunnel(s))
CrmOff(s) == s.crm - Cardinality(Ents(s)) - Cardinality(s.excused["torn"])
RowOk(s, x) ==
    x \in Torn(s) \/ s.state[x] = IF Local(s.ent[x].origin) THEN s.ent[x].bp[1] ELSE NoPort
PeerRowOk(s, x) ==
    x \in s.excused["late"] \/ s.mclag[x] = NoPort \/ s.ent[x].origin = "mclag"

Good(s) ==
    /\ Fine(s)
    /\ VlanOff(s) = 0 /\ CrmOff(s) = 0 /\ (NotStale(s) => TunnelOff(s) = 0)
    /\ \A x \in Mac : RowOk(s, x) /\ PeerRowOk(s, x)

\* The inductive invariant.
Inv == Good(Now) /\ up \subseteq Phy

-----------------------------------------------------------------------------
(* What each part of an operation does to the books                        *)

In(x, S) == IF x \in S THEN 1 ELSE 0

LEMMA CardChange ==
    ASSUME NEW A, IsFiniteSet(A), NEW B, NEW x, A \ {x} = B \ {x}
    PROVE  /\ IsFiniteSet(B) /\ Cardinality(A) \in Nat /\ Cardinality(B) \in Nat
           /\ Cardinality(B) = Cardinality(A) - In(x, A) + In(x, B)
<1> PICK C : C = A \ {x}
  OBVIOUS
<1>1. IsFiniteSet(C) /\ x \notin C
  BY FS_RemoveElement
<1>2. (A = C \/ (x \in A /\ A = C \cup {x})) /\ (B = C \/ (x \in B /\ B = C \cup {x}))
  OBVIOUS
<1>3. IsFiniteSet(C \cup {x}) /\ Cardinality(C \cup {x}) = Cardinality(C) + 1
  BY <1>1, FS_AddElement
<1>4. Cardinality(C) \in Nat
  BY <1>1, FS_CardinalityType
<1>5. IsFiniteSet(B)
  BY <1>1, <1>2, <1>3
<1>6. /\ (x \in A => Cardinality(A) = Cardinality(C) + 1) /\ (x \notin A => Cardinality(A) = Cardinality(C))
      /\ (x \in B => Cardinality(B) = Cardinality(C) + 1) /\ (x \notin B => Cardinality(B) = Cardinality(C))
  BY <1>1, <1>2, <1>3
<1> QED
  BY <1>4, <1>5, <1>6 DEF In

\* The number of entries, and of those at the tunnel.
LEMMA Counted ==
    ASSUME NEW s
    PROVE  /\ IsFiniteSet(Ents(s)) /\ IsFiniteSet(AtTunnel(s))
           /\ Cardinality(Ents(s)) \in Nat /\ Cardinality(AtTunnel(s)) \in Nat
<1>1. Ents(s) \subseteq Mac /\ AtTunnel(s) \subseteq Mac
  BY DEF Ents, AtTunnel
<1>2. IsFiniteSet(Ents(s)) /\ IsFiniteSet(AtTunnel(s))
  BY <1>1, FS_Subset, PortsAssumption
<1> QED
  BY <1>2, FS_CardinalityType

LEMMA OffTypes ==
    ASSUME NEW s, Fine(s)
    PROVE  VlanOff(s) \in Int /\ TunnelOff(s) \in Int /\ CrmOff(s) \in Int
<1>1. s.vlan \in Int /\ s.tunnel \in Int /\ s.crm \in Int
  BY DEF Fine, State
<1>2. Cardinality(s.excused["strays"]) \in Nat /\ Cardinality(s.excused["torn"]) \in Nat
  BY FS_CardinalityType DEF Fine, NumberedOk
<1> QED
  BY <1>1, <1>2, Counted DEF VlanOff, TunnelOff, CrmOff

\* Steps that touch nothing the books are about.
LikeEntry(e, f) == (e = NoEntry <=> f = NoEntry) /\ e.bp = f.bp /\ e.origin = f.origin
SameBooks(s, t) ==
    /\ \A x \in Mac : LikeEntry(s.ent[x], t.ent[x])
    /\ t.saved = s.saved /\ t.bp = s.bp /\ t.members = s.members /\ t.vlan = s.vlan
    /\ t.tunnel = s.tunnel /\ t.crm = s.crm /\ t.state = s.state /\ t.mclag = s.mclag
    /\ \A x \in {"strays", "torn", "late", "stale"} : t.excused[x] = s.excused[x]

\* What one state says of the books of a later one.
Steady(s, t) ==
    /\ VlanOff(t) = VlanOff(s) /\ TunnelOff(t) = TunnelOff(s) /\ CrmOff(t) = CrmOff(s)
    /\ NotStale(t) = NotStale(s)
    /\ \A x \in Mac : (RowOk(s, x) => RowOk(t, x)) /\ (PeerRowOk(s, x) => PeerRowOk(t, x))

LEMMA Quiet ==
    ASSUME NEW s, NEW t \in State, Fine(s), SameBooks(s, t)
    PROVE  Fine(t) /\ Steady(s, t)
<1>1. Ents(t) = Ents(s) /\ AtTunnel(t) = AtTunnel(s)
  BY DEF SameBooks, LikeEntry, Ents, AtTunnel
<1>2. t.excused["strays"] = s.excused["strays"] /\ t.excused["torn"] = s.excused["torn"]
      /\ t.excused["late"] = s.excused["late"] /\ t.excused["stale"] = s.excused["stale"]
  BY DEF SameBooks
<1>3. NotStale(t) = NotStale(s) /\ Torn(t) = Torn(s)
  BY <1>2 DEF NotStale, Torn
<1>4. PortsOk(t) /\ SavedOk(t)
  BY <1>3 DEF Fine, SameBooks, PortsOk, SavedOk
<1>5. TunnelsOk(t)
  <2> SUFFICES ASSUME NotStale(t), NEW x \in AtTunnel(t)
               PROVE  t.ent[x].bp = t.bp[Tunnel] /\ t.ent[x].origin = "vxlan"
    BY DEF TunnelsOk
  <2>1. x \in Mac /\ x \in AtTunnel(s) /\ NotStale(s)
    BY <1>1, <1>3 DEF AtTunnel
  <2>2. s.ent[x].bp = s.bp[Tunnel] /\ s.ent[x].origin = "vxlan"
    BY <2>1 DEF Fine, TunnelsOk
  <2> QED
    BY <2>1, <2>2 DEF SameBooks, LikeEntry
<1>6. VlanOff(t) = VlanOff(s) /\ TunnelOff(t) = TunnelOff(s) /\ CrmOff(t) = CrmOff(s)
  BY <1>1, <1>2 DEF VlanOff, TunnelOff, CrmOff, SameBooks
<1>7. ASSUME NEW x \in Mac
      PROVE  (RowOk(s, x) => RowOk(t, x)) /\ (PeerRowOk(s, x) => PeerRowOk(t, x))
  <2>1. t.state[x] = s.state[x] /\ t.mclag[x] = s.mclag[x]
        /\ t.ent[x].bp = s.ent[x].bp /\ t.ent[x].origin = s.ent[x].origin
    BY DEF SameBooks, LikeEntry
  <2> QED
    BY <1>2, <1>3, <2>1 DEF RowOk, PeerRowOk
<1> QED
  BY <1>2, <1>3, <1>4, <1>5, <1>6, <1>7 DEF Fine, Steady

Calm(s, t) == t \in State /\ SameBooks(s, t)
Silent(s, t) == Calm(s, t) /\ t.ent = s.ent

LEMMA CalmTransitive ==
    ASSUME NEW s, NEW t, NEW u, Calm(s, t), Calm(t, u)
    PROVE  Calm(s, u)
<1>1. \A x \in Mac : LikeEntry(s.ent[x], u.ent[x])
  BY DEF Calm, SameBooks, LikeEntry
<1> QED
  BY <1>1 DEF Calm, SameBooks

LEMMA SilentTransitive ==
    ASSUME NEW s, NEW t, NEW u, Silent(s, t), Silent(t, u)
    PROVE  Silent(s, u)
BY CalmTransitive DEF Silent

LEMMA SilentSelf ==
    ASSUME NEW s \in State
    PROVE  Silent(s, s)
BY DEF Silent, Calm, SameBooks, LikeEntry

LEMMA SetAttributesSilent ==
    ASSUME NEW s \in State, NEW m \in Mac, NEW b \in BridgePorts, NEW sai \in SaiTypes,
           NEW allow \in BOOLEAN
    PROVE  Silent(s, SetAttributes(s, m, b, sai, allow))
<1>1. CASE s.asic[m] = NoEntry
  BY <1>1, SilentSelf DEF SetAttributes
<1>2. CASE s.asic[m] # NoEntry
  <2>1. PICK e : e = [s.asic[m] EXCEPT !.bp = b, !.sai = sai, !.allow = allow]
    OBVIOUS
  <2>2. s.asic[m] \in AsicEntry
    BY <1>2 DEF State
  <2>3. e \in AsicEntry
    BY <2>1, <2>2 DEF AsicEntry
  <2>4. PICK a : a = [s.asic EXCEPT ![m] = e]
    OBVIOUS
  <2>5. a \in [Mac -> AsicEntry \cup {NoEntry}]
    BY <2>3, <2>4 DEF State
  <2>6. PICK t : t = SetAttributes(s, m, b, sai, allow)
    OBVIOUS
  <2>7. t = [s EXCEPT !.asic = a]
    BY <1>2, <2>1, <2>4, <2>6 DEF SetAttributes, State
  <2>8. t \in State
    BY <2>5, <2>7 DEF State
  <2> QED
    BY <2>6, <2>7, <2>8 DEF Silent, Calm, SameBooks, LikeEntry, State
<1> QED
  BY <1>1, <1>2

LEMMA CreateSilent ==
    ASSUME NEW s \in State, NEW m \in Mac, NEW b \in BridgePorts, NEW sai \in SaiTypes,
           NEW allow \in BOOLEAN
    PROVE  Silent(s, Create(s, m, b, sai, allow))
<1>1. CASE s.asic[m] # NoEntry \/ b \notin Range(s.bp)
  BY <1>1, SilentSelf DEF Create
<1>2. CASE ~(s.asic[m] # NoEntry \/ b \notin Range(s.bp))
  <2>1. PICK e : e = [origin |-> "asic", bp |-> b, sai |-> sai, allow |-> allow]
    OBVIOUS
  <2>3. e \in AsicEntry
    BY <2>1 DEF AsicEntry
  <2>4. PICK a : a = [s.asic EXCEPT ![m] = e]
    OBVIOUS
  <2>5. a \in [Mac -> AsicEntry \cup {NoEntry}]
    BY <2>3, <2>4 DEF State
  <2>6. PICK t : t = Create(s, m, b, sai, allow)
    OBVIOUS
  <2>7. t = [s EXCEPT !.asic = a]
    BY <1>2, <2>1, <2>4, <2>6 DEF Create, State
  <2>8. t \in State
    BY <2>5, <2>7 DEF State
  <2> QED
    BY <2>6, <2>7, <2>8 DEF Silent, Calm, SameBooks, LikeEntry, State
<1> QED
  BY <1>1, <1>2

LEMMA RemoveEntrySilent ==
    ASSUME NEW s \in State, NEW m \in Mac
    PROVE  Silent(s, RemoveEntry(s, m))
<1>4. PICK a : a = [s.asic EXCEPT ![m] = NoEntry]
  OBVIOUS
<1>5. a \in [Mac -> AsicEntry \cup {NoEntry}]
  BY <1>4 DEF State
<1>6. PICK t : t = RemoveEntry(s, m)
  OBVIOUS
<1>7. t = [s EXCEPT !.asic = a]
  BY <1>4, <1>6 DEF RemoveEntry, State
<1>8. t \in State
  BY <1>5, <1>7 DEF State
<1> QED
  BY <1>6, <1>7, <1>8 DEF Silent, Calm, SameBooks, LikeEntry, State

LEMMA ExcuseType ==
    ASSUME NEW s \in State, NEW x \in Excuses, NEW M \in SUBSET (Mac \cup (Mac \X Nat))
    PROVE  /\ Excuse(s, x, M) \in State
           /\ Excuse(s, x, M) = [s EXCEPT !.excused = [s.excused EXCEPT ![x] = s.excused[x] \cup M]]
<1>4. PICK a : a = [s.excused EXCEPT ![x] = s.excused[x] \cup M]
  OBVIOUS
<1>5. a \in [Excuses -> SUBSET (Mac \cup (Mac \X Nat))]
  BY <1>4 DEF State
<1>6. PICK t : t = Excuse(s, x, M)
  OBVIOUS
<1>7. t = [s EXCEPT !.excused = a]
  BY <1>4, <1>6 DEF Excuse, State
<1>8. t \in State
  BY <1>5, <1>7 DEF State
<1> QED
  BY <1>4, <1>6, <1>7, <1>8

LEMMA ExcuseSilent ==
    ASSUME NEW s \in State, NEW x \in {"ghosts", "raced", "reordered", "dropped", "superseded", "movable", "retyped"},
           NEW M \in SUBSET Mac
    PROVE  Silent(s, Excuse(s, x, M))
<1>1. x \in Excuses /\ M \in SUBSET (Mac \cup (Mac \X Nat)) /\ x \notin {"strays", "torn", "late", "stale"}
      /\ {"strays", "torn", "late", "stale"} \subseteq Excuses
  BY DEF Excuses, Numbered
<1>2. PICK t : t = Excuse(s, x, M)
  OBVIOUS
<1>3. t \in State /\ t = [s EXCEPT !.excused = [s.excused EXCEPT ![x] = s.excused[x] \cup M]]
  BY <1>1, <1>2, ExcuseType
<1>4. DOMAIN s.excused = Excuses
  BY DEF State
<1>5. \A y \in {"strays", "torn", "late", "stale"} : t.excused[y] = s.excused[y]
  BY <1>1, <1>3, <1>4 DEF State
<1> QED
  BY ZenonT(60), <1>2, <1>3, <1>5 DEF Silent, Calm, SameBooks, LikeEntry, State

LEMMA RacesSilent ==
    ASSUME NEW s \in State, NEW m \in Mac
    PROVE  Silent(s, Races(s, m))
<1>1. {m} \in SUBSET Mac
  OBVIOUS
<1>2. Silent(s, Excuse(s, "raced", {m}))
  BY <1>1, ExcuseSilent
<1> QED
  BY <1>2, SilentSelf DEF Races

LEMMA CrossesSilent ==
    ASSUME NEW s \in State
    PROVE  Silent(s, Crosses(s))
<1>1. PICK M : M = OnTheWay(s) \cap Mac
  OBVIOUS
<1>2. M \in SUBSET Mac
  BY <1>1
<1>3. Silent(s, Excuse(s, "raced", M))
  BY <1>2, ExcuseSilent
<1> QED
  BY <1>1, <1>3 DEF Crosses

\* A sequence without one of its elements.
LEMMA RemoveAtType ==
    ASSUME NEW S, NEW q \in Seq(S), NEW i \in 1 .. Len(q)
    PROVE  RemoveAt(q, i) \in Seq(S)
<1>1. SubSeq(q, 1, i - 1) \in Seq(S)
  BY SubSeqProperties
<1>2. SubSeq(q, i + 1, Len(q)) \in Seq(S)
  BY SubSeqProperties
<1> QED
  BY <1>1, <1>2 DEF RemoveAt

LEMMA RemoveFirstType ==
    ASSUME NEW S, NEW q \in Seq(S), NEW e
    PROVE  RemoveFirst(q, e) \in Seq(S)
<1>1. CASE \E i \in 1 .. Len(q) : q[i] = e
  <2>1. PICK I : I = {i \in 1 .. Len(q) : q[i] = e}
    OBVIOUS
  <2>2. I \in SUBSET Nat /\ I # {}
    BY <1>1, <2>1
  <2>3. PICK i : i = Min(I)
    OBVIOUS
  <2>4. i \in 1 .. Len(q)
    BY <2>1, <2>2, <2>3, MinExists
  <2>5. RemoveFirst(q, e) = RemoveAt(q, i)
    BY <1>1, <2>1, <2>2, <2>3 DEF RemoveFirst, SelectInSeq
  <2> QED
    BY <2>4, <2>5, RemoveAtType
<1>2. CASE ~\E i \in 1 .. Len(q) : q[i] = e
  BY <1>2 DEF RemoveFirst
<1> QED
  BY <1>1, <1>2

LEMMA NotifySilent ==
    ASSUME NEW s \in State, NEW e \in Notifications
    PROVE  Silent(s, Notify(s, e))
<1>1. s.events \in Seq(Notifications)
  BY DEF State
<1>2. PICK q : q = RemoveFirst(s.events, e)
  OBVIOUS
<1>3. q \in Seq(Notifications)
  BY <1>1, <1>2, RemoveFirstType
<1>4. PICK r : r = Append(q, e)
  OBVIOUS
<1>5. r \in Seq(Notifications)
  BY <1>3, <1>4
<1>6. PICK t : t = Notify(s, e)
  OBVIOUS
<1>7. t = [s EXCEPT !.events = r]
  BY <1>2, <1>4, <1>6 DEF Notify, State
<1>8. t \in State
  BY <1>5, <1>7 DEF State
<1> QED
  BY <1>6, <1>7, <1>8 DEF Silent, Calm, SameBooks, LikeEntry, State

LEMMA flush_fdb_entriesSilent ==
    ASSUME NEW s \in State, NEW b \in BridgePorts \cup {NoBp}
    PROVE  Silent(s, flush_fdb_entries(s, b))
<1> PICK c : c = Crosses(s)
  OBVIOUS
<1>0. Silent(s, c) /\ c \in State
  BY CrossesSilent DEF Silent, Calm
<1>1. PICK a : a = [m \in Mac |-> IF At(c.asic[m], b) /\ c.asic[m].sai = "dynamic"
                                  THEN NoEntry ELSE c.asic[m]]
  OBVIOUS
<1>2. a \in [Mac -> AsicEntry \cup {NoEntry}]
  BY <1>0, <1>1 DEF State
<1>3. PICK t : t = [c EXCEPT !.asic = a]
  OBVIOUS
<1>4. t \in State
  BY <1>0, <1>2, <1>3 DEF State
<1>5. Silent(c, t)
  BY <1>0, <1>3, <1>4 DEF Silent, Calm, SameBooks, LikeEntry, State
<1>6. PICK e : e = Event("FLUSHED", AnyMac, b)
  OBVIOUS
<1>7. e \in Notifications
  BY <1>6 DEF Event, Notifications
<1>8. Silent(t, Notify(t, e))
  BY <1>4, <1>7, NotifySilent
<1>9. flush_fdb_entries(s, b) = Notify(t, e)
  BY <1>1, <1>3, <1>6 DEF flush_fdb_entries
<1> QED
  BY <1>0, <1>5, <1>8, <1>9, SilentTransitive

LEMMA MarkedCalm ==
    ASSUME NEW s \in State, NEW b
    PROVE  Calm(s, Marked(s, b))
<1>1. PICK a : a = [m \in Mac |-> IF At(s.ent[m], b) THEN [s.ent[m] EXCEPT !.flush = TRUE] ELSE s.ent[m]]
  OBVIOUS
<1>2. ASSUME NEW m \in Mac PROVE a[m] \in Entry \cup {NoEntry} /\ LikeEntry(s.ent[m], a[m])
  <2>1. CASE At(s.ent[m], b)
    <3>1. s.ent[m] \in Entry /\ s.ent[m] # NoEntry
      BY <2>1 DEF State, At
    <3>2. PICK e : e = [s.ent[m] EXCEPT !.flush = TRUE]
      OBVIOUS
    <3>3. e \in Entry /\ e.bp = s.ent[m].bp /\ e.origin = s.ent[m].origin
      BY <3>1, <3>2 DEF Entry
    <3>4. e # NoEntry
      BY <3>3 DEF Entry, NoEntry, Origins
    <3>5. a[m] = e
      BY <1>1, <2>1, <3>2
    <3> QED
      BY <3>1, <3>3, <3>4, <3>5 DEF LikeEntry
  <2>2. CASE ~At(s.ent[m], b)
    BY <1>1, <2>2 DEF LikeEntry, State
  <2> QED
    BY <2>1, <2>2
<1>3. a \in [Mac -> Entry \cup {NoEntry}]
  BY <1>1, <1>2
<1>4. PICK t : t = Marked(s, b)
  OBVIOUS
<1>5. t = [s EXCEPT !.ent = a]
  BY <1>1, <1>4 DEF Marked, State
<1>6. t \in State
  BY <1>3, <1>5 DEF State
<1>7. t.ent = a
  BY <1>5 DEF State
<1>8. \A x \in Mac : LikeEntry(s.ent[x], t.ent[x])
  BY <1>2, <1>7
<1> QED
  BY <1>4, <1>5, <1>6, <1>8 DEF Calm, SameBooks, State

LEMMA flushFDBEntriesCalm ==
    ASSUME NEW s \in State, NEW b \in BridgePorts \cup {NoBp}
    PROVE  Calm(s, flushFDBEntries(s, b))
<1>1. PICK t : t = flush_fdb_entries(s, b)
  OBVIOUS
<1>2. Calm(s, t)
  BY <1>1, flush_fdb_entriesSilent DEF Silent
<1>3. PICK u : u = Marked(t, b)
  OBVIOUS
<1>4. Calm(t, u)
  BY <1>2, <1>3, MarkedCalm DEF Calm
<1>5. PICK M : M = {m \in Flushed(s, t) : ~At(s.ent[m], b)}
  OBVIOUS
<1>6. M \in SUBSET Mac
  BY <1>5 DEF Flushed
<1>7. Calm(u, Excuse(u, "ghosts", M))
  BY <1>4, <1>6, ExcuseSilent DEF Calm, Silent
<1>8. flushFDBEntries(s, b) = Excuse(u, "ghosts", M)
  BY <1>1, <1>3, <1>5 DEF flushFDBEntries
<1> QED
  BY <1>2, <1>4, <1>7, <1>8, CalmTransitive

LEMMA flushFdbByVlanCalm ==
    ASSUME NEW s \in State
    PROVE  Calm(s, flushFdbByVlan(s))
<1>1. PICK t : t = flush_fdb_entries(s, NoBp)
  OBVIOUS
<1>2. Calm(s, t)
  BY <1>1, flush_fdb_entriesSilent DEF Silent
<1>5. PICK M : M = {m \in Flushed(s, t) : s.ent[m] = NoEntry \/ ~s.ent[m].flush}
  OBVIOUS
<1>6. M \in SUBSET Mac
  BY <1>5 DEF Flushed
<1>7. Calm(t, Excuse(t, "ghosts", M))
  BY <1>2, <1>6, ExcuseSilent DEF Calm, Silent
<1>8. flushFdbByVlan(s) = Excuse(t, "ghosts", M)
  BY <1>1, <1>5 DEF flushFdbByVlan
<1> QED
  BY <1>2, <1>7, <1>8, CalmTransitive

\* A step that keeps the books, the members and the bridge ports but for p's.
Keeps(s, t, p) ==
    /\ Fine(t) /\ Steady(s, t)
    /\ \A x \in Mac : LikeEntry(s.ent[x], t.ent[x])
    /\ t.members = s.members
    /\ \A q \in Port : q # p => t.bp[q] = s.bp[q]

LEMMA CalmKeeps ==
    ASSUME NEW s, NEW t, NEW p, Fine(s), Calm(s, t)
    PROVE  Keeps(s, t, p)
<1>1. Fine(t) /\ Steady(s, t)
  BY Quiet DEF Calm
<1> QED
  BY <1>1 DEF Keeps, Calm, SameBooks

LEMMA BridgePortGone ==
    ASSUME NEW s, Fine(s), NEW p \in Port, p \notin s.members, p = Tunnel /\ NotStale(s) => AtTunnel(s) = {},
           NEW t, t = [s EXCEPT !.bp[p] = NoBp]
    PROVE  Keeps(s, t, p)
<1>1. PICK f : f = [s.bp EXCEPT ![p] = NoBp]
  OBVIOUS
<1>2. s \in State
  BY DEF Fine
<1>3. f \in [Port -> BridgePorts \cup {NoBp}]
  BY <1>1, <1>2 DEF State
<1>4. t = [s EXCEPT !.bp = f]
  BY <1>1, <1>2 DEF State
<1>5. t \in State
  BY <1>2, <1>3, <1>4 DEF State
<1>6. /\ t.ent = s.ent /\ t.saved = s.saved /\ t.members = s.members /\ t.vlan = s.vlan
      /\ t.tunnel = s.tunnel /\ t.crm = s.crm /\ t.state = s.state /\ t.mclag = s.mclag
      /\ t.excused = s.excused /\ t.bp = f
  BY <1>2, <1>4 DEF State
<1>7. Ents(t) = Ents(s) /\ AtTunnel(t) = AtTunnel(s) /\ Torn(t) = Torn(s) /\ NotStale(t) = NotStale(s)
  BY <1>6 DEF Ents, AtTunnel, Torn, NotStale
<1>8. \A q \in Port : q # p => t.bp[q] = s.bp[q]
  BY <1>1, <1>2, <1>6 DEF State
<1>9. t.bp[p] = NoBp
  BY <1>1, <1>2, <1>6 DEF State
<1>10. PortsOk(t)
  BY <1>2, <1>6, <1>8, <1>9 DEF Fine, PortsOk, State
<1>11. TunnelsOk(t)
  <2> SUFFICES ASSUME NotStale(t), NEW x \in AtTunnel(t)
               PROVE  t.ent[x].bp = t.bp[Tunnel] /\ t.ent[x].origin = "vxlan"
    BY DEF TunnelsOk
  <2>1. p # Tunnel
    BY <1>7
  <2> QED
    BY <2>1, <1>6, <1>7, <1>8 DEF Fine, TunnelsOk, Port
<1>12. SavedOk(t)
  BY <1>6, <1>7 DEF Fine, SavedOk
<1>13. Fine(t)
  BY <1>5, <1>6, <1>10, <1>11, <1>12 DEF Fine
<1>14. Steady(s, t)
  BY <1>6, <1>7 DEF Steady, VlanOff, TunnelOff, CrmOff, RowOk, PeerRowOk
<1> QED
  BY <1>6, <1>8, <1>13, <1>14 DEF Keeps, LikeEntry

LEMMA SteadyTransitive ==
    ASSUME NEW s, NEW t, NEW u, Steady(s, t), Steady(t, u)
    PROVE  Steady(s, u)
BY DEF Steady

LEMMA removeBridgePortKeeps ==
    ASSUME NEW s, Fine(s), NEW p \in Port, p \notin s.members, p = Tunnel /\ NotStale(s) => AtTunnel(s) = {}
    PROVE  Keeps(s, removeBridgePort(s, p), p)
<1>0. s \in State /\ s.bp[p] \in BridgePorts \cup {NoBp}
  BY DEF Fine, State
<1>1. PICK t : t = flushFDBEntries(s, s.bp[p])
  OBVIOUS
<1>2. Calm(s, t)
  BY <1>0, <1>1, flushFDBEntriesCalm
<1>3. Keeps(s, t, p)
  BY <1>2, CalmKeeps
<1>4. CASE s.bp[p] = NoBp
  BY <1>0, <1>4, SilentSelf, CalmKeeps DEF Silent, removeBridgePort
<1>5. CASE s.bp[p] # NoBp /\ \E m \in Mac : t.asic[m].bp = s.bp[p]
  BY <1>1, <1>3, <1>5 DEF removeBridgePort
<1>6. CASE s.bp[p] # NoBp /\ ~\E m \in Mac : t.asic[m].bp = s.bp[p]
  <2>1. PICK u : u = [t EXCEPT !.bp[p] = NoBp]
    OBVIOUS
  <2>2. removeBridgePort(s, p) = u
    BY <1>1, <1>6, <2>1 DEF removeBridgePort
  <2>3. AtTunnel(t) = AtTunnel(s) /\ NotStale(t) = NotStale(s)
    BY <1>3 DEF Keeps, Steady, LikeEntry, AtTunnel
  <2>4. Fine(t) /\ p \notin t.members /\ (p = Tunnel /\ NotStale(t) => AtTunnel(t) = {})
    BY <1>3, <2>3 DEF Keeps
  <2>5. Keeps(t, u, p)
    BY <2>1, <2>4, BridgePortGone
  <2>6. Steady(s, u)
    BY <1>3, <2>5, SteadyTransitive DEF Keeps
  <2>7. Keeps(s, u, p)
    BY <1>3, <2>5, <2>6 DEF Keeps, LikeEntry
  <2> QED
    BY <2>2, <2>7
<1> QED
  BY <1>4, <1>5, <1>6

\* After notifyTunnelOrch the tunnel may be without a bridge port, unless it is
\* a member of the VLAN.
Notified(s, t) == Keeps(s, t, Tunnel) /\ (Tunnel \in s.members => t.bp = s.bp)

LEMMA notifyTunnelOrchKeeps ==
    ASSUME NEW s, Fine(s), NotStale(s) => TunnelOff(s) = 0, NEW p
    PROVE  Notified(s, notifyTunnelOrch(s, p))
<1>1. CASE p = Tunnel /\ s.tunnel = 0 /\ Tunnel \notin s.members
  <2>1. NotStale(s) => Cardinality(AtTunnel(s)) = 0
    BY <1>1, Counted DEF TunnelOff
  <2>2. NotStale(s) => AtTunnel(s) = {}
    BY <2>1, Counted, FS_EmptySet
  <2>3. Tunnel \in Port
    BY DEF Port
  <2>4. Keeps(s, removeBridgePort(s, Tunnel), Tunnel)
    BY <1>1, <2>2, <2>3, removeBridgePortKeeps
  <2> QED
    BY <1>1, <2>4 DEF notifyTunnelOrch, Notified
<1>2. CASE ~(p = Tunnel /\ s.tunnel = 0 /\ Tunnel \notin s.members)
  <2>1. Keeps(s, s, Tunnel)
    BY SilentSelf, CalmKeeps DEF Fine, Silent
  <2> QED
    BY <1>2, <2>1 DEF notifyTunnelOrch, Notified
<1> QED
  BY <1>1, <1>2

\* How far a step moves the counters from what they should be.
Ledger(s, t, v, u, k) ==
    /\ Fine(t) /\ NotStale(t) = NotStale(s)
    /\ VlanOff(t) = VlanOff(s) + v /\ TunnelOff(t) = TunnelOff(s) + u /\ CrmOff(t) = CrmOff(s) + k
    /\ \A x \in Mac : (RowOk(s, x) => RowOk(t, x)) /\ (PeerRowOk(s, x) => PeerRowOk(t, x))
SameEnts(s, t) == t.ent = s.ent /\ t.bp = s.bp /\ t.members = s.members

LEMMA CountVlanLedger ==
    ASSUME NEW s, Fine(s), NEW d \in Int
    PROVE  Ledger(s, CountVlan(s, d), d, 0, 0) /\ SameEnts(s, CountVlan(s, d))
<1>1. PICK t : t = CountVlan(s, d)
  OBVIOUS
<1>2. s \in State
  BY DEF Fine
<1>3. PICK n : n = s.vlan + d
  OBVIOUS
<1>4. n \in Int
  BY <1>2, <1>3 DEF State
<1>5. t = [s EXCEPT !.vlan = n]
  BY <1>1, <1>3 DEF CountVlan
<1>6. t \in State
  BY <1>2, <1>4, <1>5 DEF State
<1>7. /\ t.ent = s.ent /\ t.saved = s.saved /\ t.members = s.members /\ t.vlan = n /\ t.bp = s.bp
      /\ t.tunnel = s.tunnel /\ t.crm = s.crm /\ t.state = s.state /\ t.mclag = s.mclag
      /\ t.excused = s.excused
  BY <1>2, <1>5 DEF State
<1>8. Ents(t) = Ents(s) /\ AtTunnel(t) = AtTunnel(s) /\ Torn(t) = Torn(s) /\ NotStale(t) = NotStale(s)
  BY <1>7 DEF Ents, AtTunnel, Torn, NotStale
<1>9. Fine(t)
  BY <1>6, <1>7, <1>8 DEF Fine, PortsOk, SavedOk, TunnelsOk
<1>10. CrmOff(t) = CrmOff(s) /\ TunnelOff(t) = TunnelOff(s)
  BY <1>7, <1>8 DEF CrmOff, TunnelOff
<1>11. VlanOff(t) = VlanOff(s) + d
  <2>1. Cardinality(Ents(s)) \in Nat /\ Cardinality(s.excused["strays"]) \in Nat /\ s.vlan \in Int
    BY <1>2, Counted, FS_CardinalityType DEF Fine, NumberedOk, State
  <2> QED
    BY <1>3, <1>7, <1>8, <2>1 DEF VlanOff
<1>12. \A x \in Mac : (RowOk(s, x) => RowOk(t, x)) /\ (PeerRowOk(s, x) => PeerRowOk(t, x))
  BY <1>7, <1>8 DEF RowOk, PeerRowOk
<1>13. Ledger(s, t, d, 0, 0)
  BY <1>8, <1>9, <1>10, <1>11, <1>12, OffTypes DEF Ledger
<1> QED
  BY <1>1, <1>7, <1>13 DEF SameEnts

LEMMA LedgerSelf ==
    ASSUME NEW s, Fine(s)
    PROVE  Ledger(s, s, 0, 0, 0) /\ SameEnts(s, s)
BY OffTypes DEF Ledger, SameEnts

\* What a bridge port counts for the tunnel.
AtTunnelBp(b) == IF b[1] = Tunnel THEN 1 ELSE 0

LEMMA CountTunnelLedger ==
    ASSUME NEW s, Fine(s), NEW b, NEW d \in Int
    PROVE  Ledger(s, CountAt(s, b, d), 0, AtTunnelBp(b) * d, 0) /\ SameEnts(s, CountAt(s, b, d))
<1>1. PICK t : t = CountAt(s, b, d)
  OBVIOUS
<1>2. CASE b[1] # Tunnel
  <2>1. AtTunnelBp(b) * d = 0
    BY <1>2 DEF AtTunnelBp
  <2>2. CountAt(s, b, d) = s
    BY <1>2 DEF CountAt
  <2> QED
    BY <2>1, <2>2, LedgerSelf
<1>3. CASE b[1] = Tunnel
  <2>2. s \in State
    BY DEF Fine
  <2>3. PICK n : n = s.tunnel + d
    OBVIOUS
  <2>4. n \in Int
    BY <2>2, <2>3 DEF State
  <2>5. t = [s EXCEPT !.tunnel = n]
    BY <1>1, <1>3, <2>3 DEF CountAt
  <2>6. t \in State
    BY <2>2, <2>4, <2>5 DEF State
  <2>7. /\ t.ent = s.ent /\ t.saved = s.saved /\ t.members = s.members /\ t.vlan = s.vlan /\ t.bp = s.bp
        /\ t.tunnel = n /\ t.crm = s.crm /\ t.state = s.state /\ t.mclag = s.mclag
        /\ t.excused = s.excused
    BY <2>2, <2>5 DEF State
  <2>8. Ents(t) = Ents(s) /\ AtTunnel(t) = AtTunnel(s) /\ Torn(t) = Torn(s) /\ NotStale(t) = NotStale(s)
    BY <2>7 DEF Ents, AtTunnel, Torn, NotStale
  <2>9. Fine(t)
    BY <2>6, <2>7, <2>8 DEF Fine, PortsOk, SavedOk, TunnelsOk
  <2>10. CrmOff(t) = CrmOff(s) /\ VlanOff(t) = VlanOff(s)
    BY <2>7, <2>8 DEF CrmOff, VlanOff
  <2>11. TunnelOff(t) = TunnelOff(s) + d
    <3>1. Cardinality(AtTunnel(s)) \in Nat /\ s.tunnel \in Int
      BY <2>2, Counted DEF State
    <3> QED
      BY <2>3, <2>7, <2>8, <3>1 DEF TunnelOff
  <2>12. \A x \in Mac : (RowOk(s, x) => RowOk(t, x)) /\ (PeerRowOk(s, x) => PeerRowOk(t, x))
    BY <2>7, <2>8 DEF RowOk, PeerRowOk
  <2>13. AtTunnelBp(b) * d = d
    BY <1>3 DEF AtTunnelBp
  <2>14. Ledger(s, t, 0, d, 0)
    BY <2>8, <2>9, <2>10, <2>11, <2>12, OffTypes DEF Ledger
  <2> QED
    BY <1>1, <2>7, <2>13, <2>14 DEF SameEnts
<1> QED
  BY <1>2, <1>3

\* One more occurrence of a numbered excuse.
LEMMA OneMore ==
    ASSUME NEW N, NumberedOk(N), NEW m \in Mac
    PROVE  LET M == N \cup {<<m, Cardinality(N)>>}
           IN  NumberedOk(M) /\ Cardinality(M) = Cardinality(N) + 1 /\ Cardinality(N) \in Nat
<1>1. Cardinality(N) \in Nat
  BY FS_CardinalityType DEF NumberedOk
<1>2. PICK y : y = <<m, Cardinality(N)>>
  OBVIOUS
<1>3. y \notin N
  <2> SUFFICES ASSUME y \in N PROVE FALSE
    OBVIOUS
  <2>1. y[2] < Cardinality(N) /\ y[2] = Cardinality(N)
    BY <1>2 DEF NumberedOk
  <2> QED
    BY <1>1, <2>1
<1>4. PICK M : M = N \cup {y}
  OBVIOUS
<1>5. IsFiniteSet(M) /\ Cardinality(M) = Cardinality(N) + 1
  BY <1>3, <1>4, FS_AddElement DEF NumberedOk
<1>6. M \subseteq Mac \X Nat
  BY <1>1, <1>2, <1>4 DEF NumberedOk
<1>7. ASSUME NEW z \in M PROVE z[2] < Cardinality(M)
  <2>1. CASE z = y
    BY <1>1, <1>2, <1>5, <2>1
  <2>2. CASE z \in N
    <3>1. z[2] < Cardinality(N) /\ z[2] \in Nat
      BY <2>2 DEF NumberedOk
    <3> QED
      BY <1>1, <1>5, <3>1
  <2> QED
    BY <1>4, <2>1, <2>2
<1>8. NumberedOk(M)
  BY <1>5, <1>6, <1>7 DEF NumberedOk
<1> QED
  BY <1>1, <1>2, <1>4, <1>5, <1>8

LEMMA CountType ==
    ASSUME NEW s, Fine(s), NEW x \in Numbered, NEW m \in Mac
    PROVE  LET t == Count(s, x, m)
               N == s.excused[x] \cup {<<m, Cardinality(s.excused[x])>>}
           IN  /\ t \in State /\ t = [s EXCEPT !.excused = [s.excused EXCEPT ![x] = N]]
               /\ NumberedOk(N) /\ Cardinality(N) = Cardinality(s.excused[x]) + 1
               /\ Cardinality(s.excused[x]) \in Nat
<1>1. NumberedOk(s.excused[x]) /\ s \in State /\ x \in Excuses
  BY DEF Fine, Numbered, Excuses
<1>2. PICK c : c = Cardinality(s.excused[x])
  OBVIOUS
<1>3. c \in Nat
  BY <1>1, <1>2, FS_CardinalityType DEF NumberedOk
<1>4. PICK M : M = {<<m, c>>}
  OBVIOUS
<1>5. M \in SUBSET (Mac \cup (Mac \X Nat))
  BY <1>3, <1>4
<1>6. Excuse(s, x, M) \in State
      /\ Excuse(s, x, M) = [s EXCEPT !.excused = [s.excused EXCEPT ![x] = s.excused[x] \cup M]]
  BY <1>1, <1>5, ExcuseType
<1>7. Count(s, x, m) = Excuse(s, x, M)
  BY <1>2, <1>4 DEF Count
<1>8. PICK N : N = s.excused[x] \cup {<<m, Cardinality(s.excused[x])>>}
  OBVIOUS
<1>9. NumberedOk(N) /\ Cardinality(N) = Cardinality(s.excused[x]) + 1
  BY <1>1, <1>8, OneMore
<1> QED
  BY <1>2, <1>3, <1>4, <1>6, <1>7, <1>8, <1>9

\* What a step that only adds excuses does not change.
OnlyExcuses(s, t) ==
    /\ t \in State /\ SameEnts(s, t)
    /\ t.saved = s.saved /\ t.vlan = s.vlan /\ t.tunnel = s.tunnel /\ t.crm = s.crm
    /\ t.state = s.state /\ t.mclag = s.mclag

LEMMA CountStraysLedger ==
    ASSUME NEW s, Fine(s), NEW m \in Mac
    PROVE  Ledger(s, Count(s, "strays", m), 1, 0, 0) /\ SameEnts(s, Count(s, "strays", m))
<1>1. PICK t : t = Count(s, "strays", m)
  OBVIOUS
<1>2. PICK N : N = s.excused["strays"] \cup {<<m, Cardinality(s.excused["strays"])>>}
  OBVIOUS
<1>3. t \in State /\ t = [s EXCEPT !.excused = [s.excused EXCEPT !["strays"] = N]]
      /\ NumberedOk(N) /\ Cardinality(N) = Cardinality(s.excused["strays"]) + 1
      /\ Cardinality(s.excused["strays"]) \in Nat
  BY <1>1, <1>2, CountType DEF Numbered
<1>4. s \in State /\ {"strays", "torn", "late", "stale"} \subseteq Excuses
  BY DEF Fine, Excuses, Numbered
<1>5. OnlyExcuses(s, t)
  BY <1>3, <1>4 DEF OnlyExcuses, SameEnts, State
<1>6. t.excused["strays"] = N /\ t.excused["torn"] = s.excused["torn"]
      /\ t.excused["late"] = s.excused["late"] /\ t.excused["stale"] = s.excused["stale"]
  BY <1>3, <1>4 DEF State
<1>8. Ents(t) = Ents(s) /\ AtTunnel(t) = AtTunnel(s) /\ Torn(t) = Torn(s) /\ NotStale(t) = NotStale(s)
  BY <1>5, <1>6 DEF OnlyExcuses, SameEnts, Ents, AtTunnel, Torn, NotStale
<1>9. Fine(t)
  BY <1>3, <1>5, <1>6, <1>8 DEF Fine, OnlyExcuses, SameEnts, PortsOk, SavedOk, TunnelsOk
<1>10. CrmOff(t) = CrmOff(s) /\ TunnelOff(t) = TunnelOff(s)
  BY <1>5, <1>6, <1>8 DEF CrmOff, TunnelOff, OnlyExcuses
<1>11. VlanOff(t) = VlanOff(s) + 1
  <2>1. Cardinality(Ents(s)) \in Nat /\ s.vlan \in Int
    BY <1>4, Counted DEF State
  <2> QED
    BY <1>3, <1>5, <1>6, <1>8, <2>1 DEF VlanOff, OnlyExcuses
<1>12. \A x \in Mac : (RowOk(s, x) => RowOk(t, x)) /\ (PeerRowOk(s, x) => PeerRowOk(t, x))
  BY <1>5, <1>6, <1>8 DEF RowOk, PeerRowOk, OnlyExcuses, SameEnts
<1>13. Ledger(s, t, 1, 0, 0)
  BY <1>8, <1>9, <1>10, <1>11, <1>12, OffTypes DEF Ledger
<1> QED
  BY <1>1, <1>5, <1>13 DEF OnlyExcuses

LEMMA CountTornLedger ==
    ASSUME NEW s, Fine(s), NEW m \in Mac
    PROVE  /\ Ledger(s, Count(s, "torn", m), 0, 0, -1) /\ SameEnts(s, Count(s, "torn", m))
           /\ RowOk(Count(s, "torn", m), m)
<1>1. PICK t : t = Count(s, "torn", m)
  OBVIOUS
<1>2. PICK N : N = s.excused["torn"] \cup {<<m, Cardinality(s.excused["torn"])>>}
  OBVIOUS
<1>3. t \in State /\ t = [s EXCEPT !.excused = [s.excused EXCEPT !["torn"] = N]]
      /\ NumberedOk(N) /\ Cardinality(N) = Cardinality(s.excused["torn"]) + 1
      /\ Cardinality(s.excused["torn"]) \in Nat
  BY <1>1, <1>2, CountType DEF Numbered
<1>4. s \in State /\ {"strays", "torn", "late", "stale"} \subseteq Excuses
  BY DEF Fine, Excuses, Numbered
<1>5. OnlyExcuses(s, t)
  BY <1>3, <1>4 DEF OnlyExcuses, SameEnts, State
<1>6. t.excused["torn"] = N /\ t.excused["strays"] = s.excused["strays"]
      /\ t.excused["late"] = s.excused["late"] /\ t.excused["stale"] = s.excused["stale"]
  BY <1>3, <1>4 DEF State
<1>7. Torn(s) \subseteq Torn(t) /\ m \in Torn(t)
  <2>1. PICK y : y = <<m, Cardinality(s.excused["torn"])>>
    OBVIOUS
  <2>2. y \in t.excused["torn"] /\ y[1] = m
    BY <1>2, <1>6, <2>1
  <2> QED
    BY <1>2, <1>6, <2>2 DEF Torn
<1>8. Ents(t) = Ents(s) /\ AtTunnel(t) = AtTunnel(s) /\ NotStale(t) = NotStale(s)
  BY <1>5, <1>6 DEF OnlyExcuses, SameEnts, Ents, AtTunnel, NotStale
<1>9. Fine(t)
  BY <1>3, <1>5, <1>6, <1>8 DEF Fine, OnlyExcuses, SameEnts, PortsOk, SavedOk, TunnelsOk
<1>10. VlanOff(t) = VlanOff(s) /\ TunnelOff(t) = TunnelOff(s)
  BY <1>5, <1>6, <1>8 DEF VlanOff, TunnelOff, OnlyExcuses
<1>11. CrmOff(t) = CrmOff(s) + -1
  <2>1. Cardinality(Ents(s)) \in Nat /\ s.crm \in Int
    BY <1>4, Counted DEF State
  <2> QED
    BY <1>3, <1>5, <1>6, <1>8, <2>1 DEF CrmOff, OnlyExcuses
<1>12. \A x \in Mac : (RowOk(s, x) => RowOk(t, x)) /\ (PeerRowOk(s, x) => PeerRowOk(t, x))
  BY <1>5, <1>6, <1>7 DEF RowOk, PeerRowOk, OnlyExcuses, SameEnts
<1>13. Ledger(s, t, 0, 0, -1)
  BY <1>8, <1>9, <1>10, <1>11, <1>12, OffTypes DEF Ledger
<1> QED
  BY <1>1, <1>5, <1>7, <1>13 DEF OnlyExcuses, RowOk

LEMMA ExcuseLateLedger ==
    ASSUME NEW s, Fine(s), NEW m \in Mac
    PROVE  /\ Ledger(s, Excuse(s, "late", {m}), 0, 0, 0) /\ SameEnts(s, Excuse(s, "late", {m}))
           /\ PeerRowOk(Excuse(s, "late", {m}), m)
<1>1. PICK M : M = {m}
  OBVIOUS
<1>2. PICK t : t = Excuse(s, "late", M)
  OBVIOUS
<1>4. s \in State /\ {"strays", "torn", "late", "stale"} \subseteq Excuses /\ M \in SUBSET (Mac \cup (Mac \X Nat))
  BY <1>1 DEF Fine, Excuses, Numbered
<1>3. t \in State /\ t = [s EXCEPT !.excused = [s.excused EXCEPT !["late"] = s.excused["late"] \cup M]]
  BY <1>2, <1>4, ExcuseType
<1>5. OnlyExcuses(s, t)
  BY <1>3, <1>4 DEF OnlyExcuses, SameEnts, State
<1>6. t.excused["torn"] = s.excused["torn"] /\ t.excused["strays"] = s.excused["strays"]
      /\ t.excused["late"] = s.excused["late"] \cup M /\ t.excused["stale"] = s.excused["stale"]
  BY <1>3, <1>4 DEF State
<1>8. Ents(t) = Ents(s) /\ AtTunnel(t) = AtTunnel(s) /\ NotStale(t) = NotStale(s) /\ Torn(t) = Torn(s)
  BY <1>5, <1>6 DEF OnlyExcuses, SameEnts, Ents, AtTunnel, NotStale, Torn
<1>9. Fine(t)
  BY <1>3, <1>5, <1>6, <1>8 DEF Fine, OnlyExcuses, SameEnts, PortsOk, SavedOk, TunnelsOk
<1>10. VlanOff(t) = VlanOff(s) /\ TunnelOff(t) = TunnelOff(s) /\ CrmOff(t) = CrmOff(s)
  BY <1>5, <1>6, <1>8 DEF VlanOff, TunnelOff, CrmOff, OnlyExcuses
<1>12. \A x \in Mac : (RowOk(s, x) => RowOk(t, x)) /\ (PeerRowOk(s, x) => PeerRowOk(t, x))
  BY <1>5, <1>6, <1>8 DEF RowOk, PeerRowOk, OnlyExcuses, SameEnts
<1>13. Ledger(s, t, 0, 0, 0)
  BY <1>8, <1>9, <1>10, <1>12, OffTypes DEF Ledger
<1>14. PeerRowOk(t, m)
  BY <1>1, <1>6 DEF PeerRowOk
<1> QED
  BY <1>1, <1>2, <1>5, <1>13, <1>14 DEF OnlyExcuses

\* With a stale MAC the counter of the tunnel is no longer looked at.
LEMMA ExcuseStaleFine ==
    ASSUME NEW s, Fine(s), NEW m \in Mac
    PROVE  LET t == Excuse(s, "stale", {m})
           IN  /\ Fine(t) /\ SameEnts(s, t) /\ ~NotStale(t)
               /\ VlanOff(t) = VlanOff(s) /\ CrmOff(t) = CrmOff(s)
               /\ \A x \in Mac : (RowOk(s, x) => RowOk(t, x)) /\ (PeerRowOk(s, x) => PeerRowOk(t, x))
<1>1. PICK M : M = {m}
  OBVIOUS
<1>2. PICK t : t = Excuse(s, "stale", M)
  OBVIOUS
<1>4. s \in State /\ {"strays", "torn", "late", "stale"} \subseteq Excuses /\ M \in SUBSET (Mac \cup (Mac \X Nat))
  BY <1>1 DEF Fine, Excuses, Numbered
<1>3. t \in State /\ t = [s EXCEPT !.excused = [s.excused EXCEPT !["stale"] = s.excused["stale"] \cup M]]
  BY <1>2, <1>4, ExcuseType
<1>5. OnlyExcuses(s, t)
  BY <1>3, <1>4 DEF OnlyExcuses, SameEnts, State
<1>6. t.excused["torn"] = s.excused["torn"] /\ t.excused["strays"] = s.excused["strays"]
      /\ t.excused["late"] = s.excused["late"] /\ t.excused["stale"] = s.excused["stale"] \cup M
  BY <1>3, <1>4 DEF State
<1>7. ~NotStale(t)
  BY <1>1, <1>6 DEF NotStale
<1>8. Ents(t) = Ents(s) /\ Torn(t) = Torn(s)
  BY <1>5, <1>6 DEF OnlyExcuses, SameEnts, Ents, Torn
<1>9. Fine(t)
  BY <1>3, <1>5, <1>6, <1>7 DEF Fine, OnlyExcuses, SameEnts, PortsOk, SavedOk, TunnelsOk
<1>10. VlanOff(t) = VlanOff(s) /\ CrmOff(t) = CrmOff(s)
  BY <1>5, <1>6, <1>8 DEF VlanOff, CrmOff, OnlyExcuses
<1>12. \A x \in Mac : (RowOk(s, x) => RowOk(t, x)) /\ (PeerRowOk(s, x) => PeerRowOk(t, x))
  BY <1>5, <1>6, <1>8 DEF RowOk, PeerRowOk, OnlyExcuses, SameEnts
<1> QED
  BY <1>1, <1>2, <1>5, <1>7, <1>9, <1>10, <1>12 DEF OnlyExcuses

\* The entry of m becomes e, and its rows and the CRM counter may change.
Rewrites(s, t, m, e) ==
    /\ t \in State /\ t.ent = [s.ent EXCEPT ![m] = e]
    /\ t.bp = s.bp /\ t.members = s.members /\ t.saved = s.saved /\ t.excused = s.excused
    /\ t.vlan = s.vlan /\ t.tunnel = s.tunnel
    /\ \A x \in Mac : x # m => t.state[x] = s.state[x] /\ t.mclag[x] = s.mclag[x]
Has(e) == IF e = NoEntry THEN 0 ELSE 1
Rewritten(s, t, m, e) ==
    /\ Fine(t) /\ NotStale(t) = NotStale(s)
    /\ VlanOff(t) = VlanOff(s) + Has(s.ent[m]) - Has(e)
    /\ TunnelOff(t) = TunnelOff(s) + AtTunnelBp(s.ent[m].bp) - AtTunnelBp(e.bp)
    /\ CrmOff(t) = CrmOff(s) + (t.crm - s.crm) + Has(s.ent[m]) - Has(e)
    /\ \A x \in Mac : x # m => (RowOk(s, x) => RowOk(t, x)) /\ (PeerRowOk(s, x) => PeerRowOk(t, x))
    /\ t.ent[m] = e /\ Torn(t) = Torn(s)

\* An entry may point at the tunnel if it points at the VTEP that is there.
MayPoint(s, e) ==
    NotStale(s) /\ e # NoEntry /\ e.bp[1] = Tunnel => e.bp = s.bp[Tunnel] /\ e.origin = "vxlan"

LEMMA NoEntryFacts ==
    /\ NoEntry.bp = NoBp /\ NoEntry.origin = "none" /\ NoBp[1] # Tunnel /\ AtTunnelBp(NoBp) = 0
    /\ NoEntry \notin Entry /\ NoEntry \notin AsicEntry /\ NoBp \notin BridgePorts
<1>1. "none" \notin Port /\ Tunnel \in Port
  BY PortsAssumption DEF NoPort, Port
<1>2. NoEntry.bp = NoBp /\ NoEntry.origin = "none" /\ NoBp[1] # Tunnel
  BY <1>1 DEF NoEntry, NoBp
<1>3. NoEntry \notin Entry /\ NoEntry \notin AsicEntry
  BY <1>2 DEF Entry, AsicEntry, Origins
<1>4. NoBp \notin BridgePorts
  BY <1>1 DEF NoBp, BridgePorts
<1> QED
  BY <1>2, <1>3, <1>4 DEF AtTunnelBp

LEMMA RewriteBooks ==
    ASSUME NEW s, Fine(s), NEW t, NEW m \in Mac, NEW e \in Entry \cup {NoEntry},
           Rewrites(s, t, m, e), MayPoint(s, e)
    PROVE  Rewritten(s, t, m, e)
<1>1. s \in State /\ t \in State /\ DOMAIN s.ent = Mac
  BY DEF Fine, State, Rewrites
<1>2. t.ent[m] = e /\ \A x \in Mac : x # m => t.ent[x] = s.ent[x]
  BY <1>1 DEF Rewrites
<1>3. NotStale(t) = NotStale(s) /\ Torn(t) = Torn(s)
  BY DEF Rewrites, NotStale, Torn
<1>4. PICK A : A = Ents(s)
  OBVIOUS
<1>5. PICK B : B = Ents(t)
  OBVIOUS
<1>6. A \ {m} = B \ {m} /\ IsFiniteSet(A)
  BY <1>2, <1>4, <1>5, Counted DEF Ents
<1>7. Cardinality(A) \in Nat /\ Cardinality(B) \in Nat
      /\ Cardinality(B) = Cardinality(A) - In(m, A) + In(m, B)
  BY <1>6, CardChange
<1>8. In(m, A) = Has(s.ent[m]) /\ In(m, B) = Has(e)
  BY <1>2, <1>4, <1>5 DEF In, Has, Ents
<1>9. PICK C : C = AtTunnel(s)
  OBVIOUS
<1>10. PICK D : D = AtTunnel(t)
  OBVIOUS
<1>11. C \ {m} = D \ {m} /\ IsFiniteSet(C)
  BY <1>2, <1>9, <1>10, Counted DEF AtTunnel
<1>12. Cardinality(C) \in Nat /\ Cardinality(D) \in Nat
       /\ Cardinality(D) = Cardinality(C) - In(m, C) + In(m, D)
  BY <1>11, CardChange
<1>13. In(m, C) = AtTunnelBp(s.ent[m].bp) /\ In(m, D) = AtTunnelBp(e.bp)
  BY <1>2, <1>9, <1>10, NoEntryFacts DEF In, AtTunnelBp, AtTunnel
<1>14. s.vlan \in Int /\ s.tunnel \in Int /\ s.crm \in Int /\ t.crm \in Int
       /\ Cardinality(s.excused["strays"]) \in Nat /\ Cardinality(s.excused["torn"]) \in Nat
  BY <1>1, FS_CardinalityType DEF Fine, NumberedOk, State
<1>15. t.vlan = s.vlan /\ t.tunnel = s.tunnel /\ t.excused = s.excused
  BY DEF Rewrites
<1>16. Has(s.ent[m]) \in Int /\ Has(e) \in Int /\ AtTunnelBp(s.ent[m].bp) \in Int /\ AtTunnelBp(e.bp) \in Int
  BY DEF Has, AtTunnelBp
<1>17. VlanOff(t) = VlanOff(s) + Has(s.ent[m]) - Has(e)
  BY <1>4, <1>5, <1>7, <1>8, <1>14, <1>15, <1>16 DEF VlanOff
<1>18. TunnelOff(t) = TunnelOff(s) + AtTunnelBp(s.ent[m].bp) - AtTunnelBp(e.bp)
  BY <1>9, <1>10, <1>12, <1>13, <1>14, <1>15, <1>16 DEF TunnelOff
<1>19. CrmOff(t) = CrmOff(s) + (t.crm - s.crm) + Has(s.ent[m]) - Has(e)
  BY <1>4, <1>5, <1>7, <1>8, <1>14, <1>15, <1>16 DEF CrmOff
<1>20. ASSUME NEW x \in Mac, x # m
       PROVE  (RowOk(s, x) => RowOk(t, x)) /\ (PeerRowOk(s, x) => PeerRowOk(t, x))
  <2>1. t.ent[x] = s.ent[x] /\ t.state[x] = s.state[x] /\ t.mclag[x] = s.mclag[x]
    BY <1>2, <1>20 DEF Rewrites
  <2> QED
    BY <1>3, <1>15, <2>1 DEF RowOk, PeerRowOk
<1>21. PortsOk(t) /\ SavedOk(t)
  BY <1>3 DEF Fine, PortsOk, SavedOk, Rewrites
<1>22. TunnelsOk(t)
  <2> SUFFICES ASSUME NotStale(t), NEW x \in AtTunnel(t)
               PROVE  t.ent[x].bp = t.bp[Tunnel] /\ t.ent[x].origin = "vxlan"
    BY DEF TunnelsOk
  <2>1. t.bp = s.bp /\ NotStale(s) /\ x \in Mac
    BY <1>3 DEF Rewrites, AtTunnel
  <2>2. CASE x = m
    BY <1>2, <2>1, <2>2 DEF MayPoint, AtTunnel
  <2>3. CASE x # m
    <3>1. x \in AtTunnel(s) /\ t.ent[x] = s.ent[x]
      BY <1>2, <2>1, <2>3 DEF AtTunnel
    <3> QED
      BY <2>1, <3>1 DEF Fine, TunnelsOk
  <2> QED
    BY <2>2, <2>3
<1>23. Fine(t)
  BY <1>1, <1>15, <1>21, <1>22 DEF Fine
<1> QED
  BY <1>2, <1>3, <1>17, <1>18, <1>19, <1>20, <1>23 DEF Rewritten

LEMMA StoreLearntLedger ==
    ASSUME NEW s, Fine(s), NEW m \in Mac, NEW b \in Phy \X Nat
    PROVE  LET t == StoreLearnt(s, m, b)
           IN  /\ Ledger(s, t, Has(s.ent[m]) - 1, AtTunnelBp(s.ent[m].bp), 0)
               /\ t.bp = s.bp /\ t.members = s.members
<1> PICK t : t = StoreLearnt(s, m, b)
  OBVIOUS
<1> PICK old : old = s.ent[m]
  OBVIOUS
<1>1. s \in State /\ old \in Entry \cup {NoEntry} /\ b \in BridgePorts /\ b[1] \in Phy /\ b[1] # Tunnel
      /\ b[1] \in Port
  BY PortsAssumption DEF Fine, State, BridgePorts, Port
<1>2. CASE old.bp = b /\ old.origin # "mclag"
  <2>1. t = s
    BY <1>2 DEF StoreLearnt
  <2>2. Has(old) - 1 = 0 /\ AtTunnelBp(old.bp) = 0
    BY <1>1, <1>2, NoEntryFacts DEF Has, AtTunnelBp
  <2>3. Ledger(s, t, 0, 0, 0)
    BY <2>1, LedgerSelf
  <2> QED
    BY <2>1, <2>2, <2>3
<1>3. CASE ~(old.bp = b /\ old.origin # "mclag")
  <2>1. PICK e : e = [bp |-> b, type |-> "dynamic", origin |-> "learn",
                      sai |-> "dynamic", flush |-> FALSE, dest |-> IfName(b[1])]
    OBVIOUS
  <2>2. IfName(b[1]) \in Dests
    BY <1>1 DEF Dests
  <2>3. e \in Entry
    BY <1>1, <2>1, <2>2 DEF Entry, Types, Origins, SaiTypes
  <2>4. PICK f : f = [s.ent EXCEPT ![m] = e]
    OBVIOUS
  <2>5. f \in [Mac -> Entry \cup {NoEntry}]
    BY <1>1, <2>3, <2>4 DEF State
  <2>6. PICK g : g = [s.mclag EXCEPT ![m] = IF old.origin = "mclag" THEN NoPort ELSE s.mclag[m]]
    OBVIOUS
  <2>7. g \in [Mac -> Port \cup {NoPort}]
    BY <1>1, <2>6 DEF State
  <2>8. PICK h : h = [s.state EXCEPT ![m] = b[1]]
    OBVIOUS
  <2>9. h \in [Mac -> Port \cup {NoPort}]
    BY <1>1, <2>8 DEF State
  <2>10. PICK n : n = IF old = NoEntry THEN s.crm + 1 ELSE s.crm
    OBVIOUS
  <2>11. n \in Int
    BY <1>1, <2>10 DEF State
  <2>12. t = [s EXCEPT !.ent = f, !.mclag = g, !.state = h, !.crm = n]
    BY <1>1, <1>3, <2>1, <2>4, <2>6, <2>8, <2>10 DEF StoreLearnt, State
  <2>13. t \in State
    BY <1>1, <2>5, <2>7, <2>9, <2>11, <2>12 DEF State
  <2>14. /\ t.ent = f /\ t.mclag = g /\ t.state = h /\ t.crm = n /\ t.bp = s.bp
         /\ t.members = s.members /\ t.saved = s.saved /\ t.excused = s.excused
         /\ t.vlan = s.vlan /\ t.tunnel = s.tunnel
    BY <1>1, <2>12 DEF State
  <2>15. \A x \in Mac : x # m => t.state[x] = s.state[x] /\ t.mclag[x] = s.mclag[x]
    BY <1>1, <2>6, <2>8, <2>14 DEF State
  <2>16. Rewrites(s, t, m, e)
    BY <2>4, <2>13, <2>14, <2>15 DEF Rewrites
  <2>17. MayPoint(s, e)
    BY <1>1, <2>1 DEF MayPoint
  <2>18. Rewritten(s, t, m, e)
    BY <2>3, <2>16, <2>17, RewriteBooks
  <2>19. Has(e) = 1 /\ AtTunnelBp(e.bp) = 0
    BY <1>1, <2>1, <2>3, NoEntryFacts DEF Has, AtTunnelBp
  <2>20. t.crm - s.crm = 1 - Has(old) /\ Has(old) \in Int /\ AtTunnelBp(old.bp) \in Int /\ t.crm \in Int /\ s.crm \in Int
    BY <1>1, <2>10, <2>14 DEF Has, AtTunnelBp, State
  <2>21. t.state[m] = b[1] /\ t.mclag[m] = IF old.origin = "mclag" THEN NoPort ELSE s.mclag[m]
    BY <1>1, <2>6, <2>8, <2>14 DEF State
  <2>22. RowOk(t, m) /\ (PeerRowOk(s, m) => PeerRowOk(t, m))
    BY <2>1, <2>14, <2>18, <2>21 DEF Rewritten, RowOk, PeerRowOk, Local
  <2>23. VlanOff(s) \in Int /\ TunnelOff(s) \in Int /\ CrmOff(s) \in Int
    BY OffTypes
  <2>24. VlanOff(t) = VlanOff(s) + (Has(old) - 1) /\ TunnelOff(t) = TunnelOff(s) + AtTunnelBp(old.bp)
         /\ CrmOff(t) = CrmOff(s) + 0
    BY <2>18, <2>19, <2>20, <2>23 DEF Rewritten
  <2>25. Ledger(s, t, Has(old) - 1, AtTunnelBp(old.bp), 0)
    BY <2>18, <2>22, <2>24 DEF Rewritten, Ledger
  <2> QED
    BY <2>14, <2>25
<1> QED
  BY <1>2, <1>3

LEMMA StoreRemovedLedger ==
    ASSUME NEW s, Fine(s), NEW m \in Mac, s.ent[m] # NoEntry
    PROVE  LET t == StoreRemoved(s, m)
           IN  /\ Ledger(s, t, 1, AtTunnelBp(s.ent[m].bp), 0)
               /\ t.ent = [s.ent EXCEPT ![m] = NoEntry] /\ t.bp = s.bp /\ t.members = s.members
<1> PICK t : t = StoreRemoved(s, m)
  OBVIOUS
<1> PICK old : old = s.ent[m]
  OBVIOUS
<1>1. s \in State /\ old \in Entry /\ NoEntry \in Entry \cup {NoEntry}
  BY DEF Fine, State
<1>4. PICK f : f = [s.ent EXCEPT ![m] = NoEntry]
  OBVIOUS
<1>5. f \in [Mac -> Entry \cup {NoEntry}]
  BY <1>1, <1>4 DEF State
<1>6. PICK g : g = [s.mclag EXCEPT ![m] = IF old.origin = "mclag" THEN NoPort ELSE s.mclag[m]]
  OBVIOUS
<1>7. g \in [Mac -> Port \cup {NoPort}]
  BY <1>1, <1>6 DEF State
<1>8. PICK h : h = [s.state EXCEPT ![m] = IF Local(old.origin) THEN NoPort ELSE s.state[m]]
  OBVIOUS
<1>9. h \in [Mac -> Port \cup {NoPort}]
  BY <1>1, <1>8 DEF State
<1>10. PICK n : n = s.crm - 1
  OBVIOUS
<1>11. n \in Int
  BY <1>1, <1>10 DEF State
<1>12. t = [s EXCEPT !.ent = f, !.mclag = g, !.state = h, !.crm = n]
  BY <1>1, <1>4, <1>6, <1>8, <1>10 DEF StoreRemoved, State
<1>13. t \in State
  BY <1>1, <1>5, <1>7, <1>9, <1>11, <1>12 DEF State
<1>14. /\ t.ent = f /\ t.mclag = g /\ t.state = h /\ t.crm = n /\ t.bp = s.bp
       /\ t.members = s.members /\ t.saved = s.saved /\ t.excused = s.excused
       /\ t.vlan = s.vlan /\ t.tunnel = s.tunnel
  BY <1>1, <1>12 DEF State
<1>15. \A x \in Mac : x # m => t.state[x] = s.state[x] /\ t.mclag[x] = s.mclag[x]
  BY <1>1, <1>6, <1>8, <1>14 DEF State
<1>16. Rewrites(s, t, m, NoEntry)
  BY <1>4, <1>13, <1>14, <1>15 DEF Rewrites
<1>17. MayPoint(s, NoEntry)
  BY DEF MayPoint
<1>18. Rewritten(s, t, m, NoEntry)
  BY <1>1, <1>16, <1>17, RewriteBooks
<1>19. Has(NoEntry) = 0 /\ AtTunnelBp(NoEntry.bp) = 0 /\ Has(old) = 1
  BY NoEntryFacts DEF Has
<1>20. t.crm - s.crm = -1 /\ AtTunnelBp(old.bp) \in Int
  BY <1>1, <1>10, <1>14 DEF AtTunnelBp, State
<1>21. t.state[m] = (IF Local(old.origin) THEN NoPort ELSE s.state[m])
       /\ t.mclag[m] = IF old.origin = "mclag" THEN NoPort ELSE s.mclag[m]
  BY <1>1, <1>6, <1>8, <1>14 DEF State
<1>22. (RowOk(s, m) => RowOk(t, m)) /\ (PeerRowOk(s, m) => PeerRowOk(t, m))
  BY <1>14, <1>18, <1>21, NoEntryFacts DEF Rewritten, RowOk, PeerRowOk, Local
<1>23. VlanOff(s) \in Int /\ TunnelOff(s) \in Int /\ CrmOff(s) \in Int
  BY OffTypes
<1>24. VlanOff(t) = VlanOff(s) + 1 /\ TunnelOff(t) = TunnelOff(s) + AtTunnelBp(old.bp)
       /\ CrmOff(t) = CrmOff(s) + 0
  BY <1>18, <1>19, <1>20, <1>23 DEF Rewritten
<1>25. Ledger(s, t, 1, AtTunnelBp(old.bp), 0)
  BY <1>18, <1>22, <1>24 DEF Rewritten, Ledger
<1> QED
  BY <1>4, <1>14, <1>25

\* The entry that leaves for a remote VTEP: the row and the CRM counter stay.
Dropped(s, m) == [s EXCEPT !.ent[m] = NoEntry]

LEMMA DroppedBooks ==
    ASSUME NEW s, Fine(s), NEW m \in Mac, s.ent[m] # NoEntry, s.ent[m].origin # "mclag"
    PROVE  LET t == Dropped(s, m)
           IN  /\ Fine(t) /\ NotStale(t) = NotStale(s) /\ VlanOff(t) = VlanOff(s) + 1
               /\ TunnelOff(t) = TunnelOff(s) + AtTunnelBp(s.ent[m].bp) /\ CrmOff(t) = CrmOff(s) + 1
               /\ \A x \in Mac : (x # m /\ RowOk(s, x) => RowOk(t, x)) /\ (PeerRowOk(s, x) => PeerRowOk(t, x))
               /\ RowOk(s, m) /\ ~Local(s.ent[m].origin) => RowOk(t, m)
               /\ t.ent = [s.ent EXCEPT ![m] = NoEntry] /\ t.bp = s.bp /\ t.members = s.members
<1> PICK t : t = Dropped(s, m)
  OBVIOUS
<1> PICK old : old = s.ent[m]
  OBVIOUS
<1>1. s \in State /\ old \in Entry /\ NoEntry \in Entry \cup {NoEntry}
  BY DEF Fine, State
<1>4. PICK f : f = [s.ent EXCEPT ![m] = NoEntry]
  OBVIOUS
<1>5. f \in [Mac -> Entry \cup {NoEntry}]
  BY <1>1, <1>4 DEF State
<1>12. t = [s EXCEPT !.ent = f]
  BY <1>1, <1>4 DEF Dropped, State
<1>13. t \in State
  BY <1>1, <1>5, <1>12 DEF State
<1>14. /\ t.ent = f /\ t.mclag = s.mclag /\ t.state = s.state /\ t.crm = s.crm /\ t.bp = s.bp
       /\ t.members = s.members /\ t.saved = s.saved /\ t.excused = s.excused
       /\ t.vlan = s.vlan /\ t.tunnel = s.tunnel
  BY <1>1, <1>12 DEF State
<1>16. Rewrites(s, t, m, NoEntry)
  BY <1>4, <1>13, <1>14 DEF Rewrites
<1>17. MayPoint(s, NoEntry)
  BY DEF MayPoint
<1>18. Rewritten(s, t, m, NoEntry)
  BY <1>1, <1>16, <1>17, RewriteBooks
<1>19. Has(NoEntry) = 0 /\ AtTunnelBp(NoEntry.bp) = 0 /\ Has(old) = 1
  BY NoEntryFacts DEF Has
<1>20. t.crm - s.crm = 0 /\ AtTunnelBp(old.bp) \in Int
  BY <1>1, <1>14 DEF AtTunnelBp, State
<1>22. (RowOk(s, m) /\ ~Local(old.origin) => RowOk(t, m)) /\ (PeerRowOk(s, m) => PeerRowOk(t, m))
  BY <1>14, <1>18, NoEntryFacts DEF Rewritten, RowOk, PeerRowOk, Local
<1>23. VlanOff(s) \in Int /\ TunnelOff(s) \in Int /\ CrmOff(s) \in Int
  BY OffTypes
<1>24. VlanOff(t) = VlanOff(s) + 1 /\ TunnelOff(t) = TunnelOff(s) + AtTunnelBp(old.bp)
       /\ CrmOff(t) = CrmOff(s) + 1
  BY <1>18, <1>19, <1>20, <1>23 DEF Rewritten
<1>25. \A x \in Mac : (x # m /\ RowOk(s, x) => RowOk(t, x)) /\ (PeerRowOk(s, x) => PeerRowOk(t, x))
  BY <1>18, <1>22 DEF Rewritten
<1>26. Fine(t) /\ NotStale(t) = NotStale(s)
  BY <1>18 DEF Rewritten
<1> QED
  BY <1>4, <1>14, <1>22, <1>24, <1>25, <1>26

\* The end of removeFdbEntry: of the rows only that of STATE_DB's FDB_TABLE goes.
Deleted(s, m) ==
    [s EXCEPT !.ent[m] = NoEntry, !.crm = @ - 1,
              !.state[m] = IF Local(s.ent[m].origin) THEN NoPort ELSE @]

LEMMA DeletedBooks ==
    ASSUME NEW s, Fine(s), NEW m \in Mac, s.ent[m] # NoEntry
    PROVE  LET t == Deleted(s, m)
           IN  /\ Fine(t) /\ NotStale(t) = NotStale(s) /\ VlanOff(t) = VlanOff(s) + 1
               /\ TunnelOff(t) = TunnelOff(s) + AtTunnelBp(s.ent[m].bp) /\ CrmOff(t) = CrmOff(s)
               /\ \A x \in Mac : (RowOk(s, x) => RowOk(t, x)) /\ (x # m /\ PeerRowOk(s, x) => PeerRowOk(t, x))
               /\ PeerRowOk(s, m) /\ s.ent[m].origin # "mclag" => PeerRowOk(t, m)
<1> PICK t : t = Deleted(s, m)
  OBVIOUS
<1> PICK old : old = s.ent[m]
  OBVIOUS
<1>1. s \in State /\ old \in Entry /\ NoEntry \in Entry \cup {NoEntry}
  BY DEF Fine, State
<1>4. PICK f : f = [s.ent EXCEPT ![m] = NoEntry]
  OBVIOUS
<1>5. f \in [Mac -> Entry \cup {NoEntry}]
  BY <1>1, <1>4 DEF State
<1>8. PICK h : h = [s.state EXCEPT ![m] = IF Local(old.origin) THEN NoPort ELSE s.state[m]]
  OBVIOUS
<1>9. h \in [Mac -> Port \cup {NoPort}]
  BY <1>1, <1>8 DEF State
<1>10. PICK n : n = s.crm - 1
  OBVIOUS
<1>11. n \in Int
  BY <1>1, <1>10 DEF State
<1>12. t = [s EXCEPT !.ent = f, !.crm = n, !.state = h]
  BY <1>1, <1>4, <1>8, <1>10 DEF Deleted, State
<1>13. t \in State
  BY <1>1, <1>5, <1>9, <1>11, <1>12 DEF State
<1>14. /\ t.ent = f /\ t.mclag = s.mclag /\ t.state = h /\ t.crm = n /\ t.bp = s.bp
       /\ t.members = s.members /\ t.saved = s.saved /\ t.excused = s.excused
       /\ t.vlan = s.vlan /\ t.tunnel = s.tunnel
  BY <1>1, <1>12 DEF State
<1>15. \A x \in Mac : x # m => t.state[x] = s.state[x] /\ t.mclag[x] = s.mclag[x]
  BY <1>1, <1>8, <1>14 DEF State
<1>16. Rewrites(s, t, m, NoEntry)
  BY <1>4, <1>13, <1>14, <1>15 DEF Rewrites
<1>17. MayPoint(s, NoEntry)
  BY DEF MayPoint
<1>18. Rewritten(s, t, m, NoEntry)
  BY <1>1, <1>16, <1>17, RewriteBooks
<1>19. Has(NoEntry) = 0 /\ AtTunnelBp(NoEntry.bp) = 0 /\ Has(old) = 1
  BY NoEntryFacts DEF Has
<1>20. t.crm - s.crm = -1 /\ AtTunnelBp(old.bp) \in Int
  BY <1>1, <1>10, <1>14 DEF AtTunnelBp, State
<1>21. t.state[m] = (IF Local(old.origin) THEN NoPort ELSE s.state[m]) /\ t.mclag[m] = s.mclag[m]
  BY <1>1, <1>8, <1>14 DEF State
<1>22. (RowOk(s, m) => RowOk(t, m)) /\ (PeerRowOk(s, m) /\ old.origin # "mclag" => PeerRowOk(t, m))
  BY <1>14, <1>18, <1>21, NoEntryFacts DEF Rewritten, RowOk, PeerRowOk, Local
<1>23. VlanOff(s) \in Int /\ TunnelOff(s) \in Int /\ CrmOff(s) \in Int
  BY OffTypes
<1>24. VlanOff(t) = VlanOff(s) + 1 /\ TunnelOff(t) = TunnelOff(s) + AtTunnelBp(old.bp)
       /\ CrmOff(t) = CrmOff(s)
  BY <1>18, <1>19, <1>20, <1>23 DEF Rewritten
<1>25. \A x \in Mac : (RowOk(s, x) => RowOk(t, x)) /\ (x # m /\ PeerRowOk(s, x) => PeerRowOk(t, x))
  BY <1>18, <1>22 DEF Rewritten
<1>26. Fine(t) /\ NotStale(t) = NotStale(s)
  BY <1>18 DEF Rewritten
<1> QED
  BY <1>22, <1>24, <1>25, <1>26

\* What addFdbEntry is called with.
DataOk(s, d) ==
    /\ d.port \in Port /\ d \in SavedData(d.port)
    /\ NotStale(s) /\ d.port = Tunnel => d.origin = "vxlan"

LEMMA StoredEntryType ==
    ASSUME NEW p \in Port, NEW d \in SavedData(p), NEW b \in BridgePorts
    PROVE  StoredEntry(d, b) \in Entry
<1>1. SaiType(d) \in SaiTypes
  BY DEF SaiType, SaiTypes
<1>2. /\ (IF Own(d) THEN "learn" ELSE d.origin) \in Origins
      /\ (IF Own(d) THEN "dynamic" ELSE d.type) \in Types /\ d.dest \in Dests
  BY DEF SavedData, Origins, Types
<1> QED
  BY <1>1, <1>2 DEF StoredEntry, Entry

LEMMA StoreAddedBooks ==
    ASSUME NEW s, Fine(s), NEW m \in Mac, NEW d, DataOk(s, d), s.bp[d.port] # NoBp, NEW old,
           ~Local(old.origin) => m \in Torn(s) \/ s.state[m] = NoPort,
           old.origin # "mclag" => m \in s.excused["late"] \/ s.mclag[m] = NoPort
    PROVE  LET t == StoreAdded(s, m, d, old)
           IN  /\ Fine(t) /\ NotStale(t) = NotStale(s)
               /\ VlanOff(t) = VlanOff(s) + Has(s.ent[m]) - 1
               /\ TunnelOff(t) = TunnelOff(s) + AtTunnelBp(s.ent[m].bp) - AtTunnelBp(s.bp[d.port])
               /\ CrmOff(t) = CrmOff(s) + Has(s.ent[m]) - Has(old)
               /\ \A x \in Mac : x # m => (RowOk(s, x) => RowOk(t, x)) /\ (PeerRowOk(s, x) => PeerRowOk(t, x))
               /\ RowOk(t, m) /\ (~(Own(d) /\ old.origin = "mclag") => PeerRowOk(t, m))
               /\ t.bp = s.bp /\ t.members = s.members
<1> PICK t : t = StoreAdded(s, m, d, old)
  OBVIOUS
<1> PICK b : b = s.bp[d.port]
  OBVIOUS
<1> PICK e : e = StoredEntry(d, b)
  OBVIOUS
<1>1. s \in State /\ d.port \in Port /\ d \in SavedData(d.port) /\ s.ent[m] \in Entry \cup {NoEntry}
  BY DEF Fine, DataOk, State
<1>2. b \in BridgePorts /\ b[1] = d.port
  BY <1>1 DEF Fine, PortsOk, State
<1>3. e \in Entry
  BY <1>1, <1>2, StoredEntryType
<1>4. PICK f : f = [s.ent EXCEPT ![m] = e]
  OBVIOUS
<1>5. f \in [Mac -> Entry \cup {NoEntry}]
  BY <1>1, <1>3, <1>4 DEF State
<1>6. PICK g : g = [s.mclag EXCEPT ![m] = IF d.origin = "mclag" /\ ~Own(d) THEN d.port
                       ELSE IF old.origin = "mclag" /\ d.origin # "mclag" THEN NoPort ELSE s.mclag[m]]
  OBVIOUS
<1>7. g \in [Mac -> Port \cup {NoPort}]
  BY <1>1, <1>6 DEF State
<1>8. PICK h : h = [s.state EXCEPT ![m] = IF Local(d.origin) \/ Own(d) THEN d.port
                       ELSE IF Local(old.origin) THEN NoPort ELSE s.state[m]]
  OBVIOUS
<1>9. h \in [Mac -> Port \cup {NoPort}]
  BY <1>1, <1>8 DEF State
<1>10. PICK n : n = IF old = NoEntry THEN s.crm + 1 ELSE s.crm
  OBVIOUS
<1>11. n \in Int
  BY <1>1, <1>10 DEF State
<1>12. t = [s EXCEPT !.ent = f, !.state = h, !.mclag = g, !.crm = n]
  BY <1>1, <1>4, <1>6, <1>8, <1>10 DEF StoreAdded, State
<1>13. t \in State
  BY <1>1, <1>5, <1>7, <1>9, <1>11, <1>12 DEF State
<1>14. /\ t.ent = f /\ t.mclag = g /\ t.state = h /\ t.crm = n /\ t.bp = s.bp
       /\ t.members = s.members /\ t.saved = s.saved /\ t.excused = s.excused
       /\ t.vlan = s.vlan /\ t.tunnel = s.tunnel
  BY <1>1, <1>12 DEF State
<1>15. \A x \in Mac : x # m => t.state[x] = s.state[x] /\ t.mclag[x] = s.mclag[x]
  BY <1>1, <1>6, <1>8, <1>14 DEF State
<1>16. Rewrites(s, t, m, e)
  BY <1>4, <1>13, <1>14, <1>15 DEF Rewrites
<1>17. e.bp = b /\ e.origin = IF Own(d) THEN "learn" ELSE d.origin
  BY DEF StoredEntry
<1>18. MayPoint(s, e)
  <2> SUFFICES ASSUME NotStale(s), b[1] = Tunnel PROVE b = s.bp[Tunnel] /\ e.origin = "vxlan"
    BY <1>17 DEF MayPoint
  <2>1. d.port = Tunnel /\ d.origin = "vxlan"
    BY <1>2 DEF DataOk
  <2> QED
    BY <1>17, <2>1 DEF Own
<1>19. Rewritten(s, t, m, e)
  BY <1>3, <1>16, <1>18, RewriteBooks
<1>20. Has(e) = 1
  BY <1>3, NoEntryFacts DEF Has
<1>21. t.crm - s.crm = 1 - Has(old) /\ Has(old) \in Int /\ AtTunnelBp(b) \in Int /\ t.crm \in Int /\ s.crm \in Int
       /\ Has(s.ent[m]) \in Int /\ AtTunnelBp(s.ent[m].bp) \in Int
  BY <1>1, <1>10, <1>14 DEF Has, AtTunnelBp, State
<1>22. /\ t.state[m] = (IF Local(d.origin) \/ Own(d) THEN d.port
                        ELSE IF Local(old.origin) THEN NoPort ELSE s.state[m])
       /\ t.mclag[m] = (IF d.origin = "mclag" /\ ~Own(d) THEN d.port
                       ELSE IF old.origin = "mclag" /\ d.origin # "mclag" THEN NoPort ELSE s.mclag[m])
  BY <1>1, <1>6, <1>8, <1>14 DEF State
<1>23. t.ent[m] = e /\ Torn(t) = Torn(s) /\ t.excused = s.excused
  BY <1>14, <1>19 DEF Rewritten
<1>24. RowOk(t, m)
  BY <1>2, <1>17, <1>22, <1>23 DEF RowOk, Local, Own
<1>25. ~(Own(d) /\ old.origin = "mclag") => PeerRowOk(t, m)
  BY <1>17, <1>22, <1>23 DEF PeerRowOk, Own
<1>26. VlanOff(s) \in Int /\ TunnelOff(s) \in Int /\ CrmOff(s) \in Int
  BY OffTypes
<1>27. VlanOff(t) = VlanOff(s) + Has(s.ent[m]) - 1
       /\ TunnelOff(t) = TunnelOff(s) + AtTunnelBp(s.ent[m].bp) - AtTunnelBp(b)
       /\ CrmOff(t) = CrmOff(s) + Has(s.ent[m]) - Has(old)
  BY <1>17, <1>19, <1>20, <1>21, <1>26 DEF Rewritten
<1>28. /\ Fine(t) /\ NotStale(t) = NotStale(s)
       /\ \A x \in Mac : x # m => (RowOk(s, x) => RowOk(t, x)) /\ (PeerRowOk(s, x) => PeerRowOk(t, x))
  BY <1>19 DEF Rewritten
<1> QED
  BY <1>14, <1>24, <1>25, <1>27, <1>28

\* An aged MAC that a remote VTEP has too becomes the VTEP's.
Retyped(s, m) ==
    [s EXCEPT !.ent[m] = [@ EXCEPT !.type = "dynamic", !.origin = "vxlan"], !.state[m] = NoPort]

LEMMA RetypedLedger ==
    ASSUME NEW s, Fine(s), NEW m \in Mac, s.ent[m].origin = "learn"
    PROVE  Ledger(s, Retyped(s, m), 0, 0, 0)
<1> PICK t : t = Retyped(s, m)
  OBVIOUS
<1> PICK old : old = s.ent[m]
  OBVIOUS
<1>1. s \in State /\ old # NoEntry /\ old \in Entry
  BY NoEntryFacts DEF Fine, State
<1> PICK e : e = [old EXCEPT !.type = "dynamic", !.origin = "vxlan"]
  OBVIOUS
<1>3. e \in Entry /\ e.bp = old.bp /\ e.origin = "vxlan"
  BY <1>1 DEF Entry, Types, Origins
<1>4. PICK f : f = [s.ent EXCEPT ![m] = e]
  OBVIOUS
<1>5. f \in [Mac -> Entry \cup {NoEntry}]
  BY <1>1, <1>3, <1>4 DEF State
<1>8. PICK h : h = [s.state EXCEPT ![m] = NoPort]
  OBVIOUS
<1>9. h \in [Mac -> Port \cup {NoPort}]
  BY <1>1, <1>8 DEF State
<1>12. t = [s EXCEPT !.ent = f, !.state = h]
  BY <1>1, <1>4, <1>8 DEF Retyped, State
<1>13. t \in State
  BY <1>1, <1>5, <1>9, <1>12 DEF State
<1>14. /\ t.ent = f /\ t.mclag = s.mclag /\ t.state = h /\ t.crm = s.crm /\ t.bp = s.bp
       /\ t.members = s.members /\ t.saved = s.saved /\ t.excused = s.excused
       /\ t.vlan = s.vlan /\ t.tunnel = s.tunnel
  BY <1>1, <1>12 DEF State
<1>15. \A x \in Mac : x # m => t.state[x] = s.state[x] /\ t.mclag[x] = s.mclag[x]
  BY <1>1, <1>8, <1>14 DEF State
<1>16. Rewrites(s, t, m, e)
  BY <1>4, <1>13, <1>14, <1>15 DEF Rewrites
<1>17. MayPoint(s, e)
  <2> SUFFICES ASSUME NotStale(s), old.bp[1] = Tunnel PROVE FALSE
    BY <1>3 DEF MayPoint
  <2>1. m \in AtTunnel(s)
    BY <1>1 DEF AtTunnel
  <2> QED
    BY <2>1 DEF Fine, TunnelsOk
<1>18. Rewritten(s, t, m, e)
  BY <1>3, <1>16, <1>17, RewriteBooks
<1>19. Has(e) = 1 /\ Has(old) = 1
  BY <1>1, <1>3, NoEntryFacts DEF Has
<1>20. t.crm - s.crm = 0 /\ AtTunnelBp(old.bp) \in Int
  BY <1>1, <1>14 DEF AtTunnelBp, State
<1>21. t.state[m] = NoPort /\ t.mclag[m] = s.mclag[m] /\ t.excused = s.excused /\ t.ent[m] = e
  BY <1>1, <1>8, <1>14, <1>18 DEF State, Rewritten
<1>22. RowOk(t, m) /\ (PeerRowOk(s, m) => PeerRowOk(t, m))
  BY <1>3, <1>21 DEF RowOk, PeerRowOk, Local
<1>23. VlanOff(s) \in Int /\ TunnelOff(s) \in Int /\ CrmOff(s) \in Int
  BY OffTypes
<1>24. VlanOff(t) = VlanOff(s) + 0 /\ TunnelOff(t) = TunnelOff(s) + 0 /\ CrmOff(t) = CrmOff(s) + 0
  BY <1>3, <1>18, <1>19, <1>20, <1>23 DEF Rewritten
<1>25. Ledger(s, t, 0, 0, 0)
  BY <1>18, <1>22, <1>24 DEF Rewritten, Ledger
<1> QED
  BY <1>25

SetType(s, m, type) == [s EXCEPT !.ent[m] = [@ EXCEPT !.type = type]]

LEMMA SetTypeCalm ==
    ASSUME NEW s \in State, NEW m \in Mac, s.ent[m] # NoEntry, NEW type \in Types
    PROVE  Calm(s, SetType(s, m, type))
<1> PICK t : t = SetType(s, m, type)
  OBVIOUS
<1> PICK old : old = s.ent[m]
  OBVIOUS
<1>1. old \in Entry
  BY DEF State
<1> PICK e : e = [old EXCEPT !.type = type]
  OBVIOUS
<1>3. e \in Entry /\ e.bp = old.bp /\ e.origin = old.origin
  BY <1>1 DEF Entry
<1>4. PICK f : f = [s.ent EXCEPT ![m] = e]
  OBVIOUS
<1>5. f \in [Mac -> Entry \cup {NoEntry}]
  BY <1>3, <1>4 DEF State
<1>6. t = [s EXCEPT !.ent = f]
  BY <1>4 DEF SetType, State
<1>7. t \in State
  BY <1>5, <1>6 DEF State
<1>8. e # NoEntry
  BY <1>3, NoEntryFacts
<1>9. \A x \in Mac : LikeEntry(s.ent[x], f[x])
  BY <1>3, <1>4, <1>8 DEF LikeEntry, State
<1>10. t.ent = f
  BY <1>6 DEF State
<1> QED
  BY ZenonT(60), <1>6, <1>7, <1>9, <1>10 DEF Calm, SameBooks, State

\* doTask deletes the row of the MCLAG peer.
PeerRowGone(s, m) == [s EXCEPT !.mclag[m] = NoPort]

LEMMA PeerRowGoneLedger ==
    ASSUME NEW s, Fine(s), NEW m \in Mac
    PROVE  Ledger(s, PeerRowGone(s, m), 0, 0, 0) /\ PeerRowOk(PeerRowGone(s, m), m)
<1> PICK t : t = PeerRowGone(s, m)
  OBVIOUS
<1>1. s \in State
  BY DEF Fine
<1>8. PICK h : h = [s.mclag EXCEPT ![m] = NoPort]
  OBVIOUS
<1>9. h \in [Mac -> Port \cup {NoPort}]
  BY <1>1, <1>8 DEF State
<1>12. t = [s EXCEPT !.mclag = h]
  BY <1>1, <1>8 DEF PeerRowGone, State
<1>13. t \in State
  BY <1>1, <1>9, <1>12 DEF State
<1>14. /\ t.ent = s.ent /\ t.mclag = h /\ t.state = s.state /\ t.crm = s.crm /\ t.bp = s.bp
       /\ t.members = s.members /\ t.saved = s.saved /\ t.excused = s.excused
       /\ t.vlan = s.vlan /\ t.tunnel = s.tunnel
  BY <1>1, <1>12 DEF State
<1>15. Ents(t) = Ents(s) /\ AtTunnel(t) = AtTunnel(s) /\ Torn(t) = Torn(s) /\ NotStale(t) = NotStale(s)
  BY <1>14 DEF Ents, AtTunnel, Torn, NotStale
<1>16. Fine(t)
  BY <1>13, <1>14, <1>15 DEF Fine, PortsOk, SavedOk, TunnelsOk
<1>17. VlanOff(t) = VlanOff(s) /\ CrmOff(t) = CrmOff(s) /\ TunnelOff(t) = TunnelOff(s)
  BY <1>14, <1>15 DEF CrmOff, TunnelOff, VlanOff
<1>18. t.mclag[m] = NoPort /\ \A x \in Mac : x # m => t.mclag[x] = s.mclag[x]
  BY <1>1, <1>8, <1>14 DEF State
<1>19. \A x \in Mac : (RowOk(s, x) => RowOk(t, x)) /\ (PeerRowOk(s, x) => PeerRowOk(t, x))
  BY <1>14, <1>15, <1>18 DEF RowOk, PeerRowOk
<1>20. Ledger(s, t, 0, 0, 0)
  BY <1>15, <1>16, <1>17, <1>19, OffTypes DEF Ledger
<1> QED
  BY <1>18, <1>20 DEF PeerRowOk

\* A step that changes nothing but what is saved.
LEMMA SavedLedger ==
    ASSUME NEW s, Fine(s), NEW f \in [Port -> Seq(UNION {Saved(p) : p \in Port})],
           \A p \in Port : f[p] \in Seq(Saved(p)), NotStale(s) => f[Tunnel] \in Seq(SavedVxlan),
           NEW t, t = [s EXCEPT !.saved = f]
    PROVE  Ledger(s, t, 0, 0, 0) /\ SameEnts(s, t)
<1>1. s \in State
  BY DEF Fine
<1>13. t \in State
  BY <1>1 DEF State
<1>14. /\ t.ent = s.ent /\ t.mclag = s.mclag /\ t.state = s.state /\ t.crm = s.crm /\ t.bp = s.bp
       /\ t.members = s.members /\ t.saved = f /\ t.excused = s.excused
       /\ t.vlan = s.vlan /\ t.tunnel = s.tunnel
  BY <1>1 DEF State
<1>15. Ents(t) = Ents(s) /\ AtTunnel(t) = AtTunnel(s) /\ Torn(t) = Torn(s) /\ NotStale(t) = NotStale(s)
  BY <1>14 DEF Ents, AtTunnel, Torn, NotStale
<1>16. Fine(t)
  BY <1>13, <1>14, <1>15 DEF Fine, PortsOk, SavedOk, TunnelsOk
<1>17. VlanOff(t) = VlanOff(s) /\ CrmOff(t) = CrmOff(s) /\ TunnelOff(t) = TunnelOff(s)
  BY <1>14, <1>15 DEF CrmOff, TunnelOff, VlanOff
<1>19. \A x \in Mac : (RowOk(s, x) => RowOk(t, x)) /\ (PeerRowOk(s, x) => PeerRowOk(t, x))
  BY <1>14, <1>15 DEF RowOk, PeerRowOk
<1>20. Ledger(s, t, 0, 0, 0)
  BY <1>15, <1>16, <1>17, <1>19, OffTypes DEF Ledger
<1> QED
  BY <1>14, <1>20 DEF SameEnts

SetSaved(s, p, q) == [s EXCEPT !.saved[p] = q]

LEMMA OneSavedLedger ==
    ASSUME NEW s, Fine(s), NEW p \in Port, NEW q \in Seq(Saved(p)),
           NotStale(s) /\ p = Tunnel => q \in Seq(SavedVxlan)
    PROVE  LET t == SetSaved(s, p, q) IN Ledger(s, t, 0, 0, 0) /\ SameEnts(s, t)
<1>1. s \in State /\ Tunnel \in Port
  BY DEF Fine, Port
<1>2. PICK f : f = [s.saved EXCEPT ![p] = q]
  OBVIOUS
<1>3. \A r \in Port : f[r] = IF r = p THEN q ELSE s.saved[r]
  BY <1>1, <1>2 DEF State
<1>4. \A r \in Port : f[r] \in Seq(Saved(r))
  BY <1>3 DEF Fine, SavedOk
<1>5. PICK U : U = UNION {Saved(r) : r \in Port}
  OBVIOUS
<1>6. \A r \in Port : Seq(Saved(r)) \subseteq Seq(U)
  <2> SUFFICES ASSUME NEW r \in Port PROVE Seq(Saved(r)) \subseteq Seq(U)
    OBVIOUS
  <2>1. Saved(r) \subseteq U
    BY <1>5
  <2> QED
    BY <2>1
<1>7. f \in [Port -> Seq(U)]
  BY <1>1, <1>2, <1>4, <1>6 DEF State
<1>8. NotStale(s) => f[Tunnel] \in Seq(SavedVxlan)
  BY <1>1, <1>3 DEF Fine, SavedOk
<1>9. PICK t : t = [s EXCEPT !.saved = f]
  OBVIOUS
<1>10. t = SetSaved(s, p, q)
  BY <1>1, <1>2, <1>9 DEF SetSaved, State
<1>11. Ledger(s, t, 0, 0, 0) /\ SameEnts(s, t)
  BY <1>4, <1>5, <1>7, <1>8, <1>9, SavedLedger
<1> QED
  BY <1>10, <1>11

LEMMA SaveLedger ==
    ASSUME NEW s, Fine(s), NEW p \in Port, NEW m \in Mac, NEW d, DataOk(s, d), d.port = p
    PROVE  LET t == Save(s, p, m, d) IN Ledger(s, t, 0, 0, 0) /\ SameEnts(s, t)
<1>1. PICK y : y = [mac |-> m, data |-> d]
  OBVIOUS
<1>2. d \in SavedData(p) /\ (NotStale(s) /\ p = Tunnel => d.origin = "vxlan")
  BY DEF DataOk
<1>3. y \in Saved(p)
  BY <1>1, <1>2 DEF Saved
<1>4. NotStale(s) /\ p = Tunnel => y \in SavedVxlan
  BY <1>1, <1>2 DEF SavedVxlan, SavedData
<1>5. s.saved[p] \in Seq(Saved(p)) /\ (NotStale(s) /\ p = Tunnel => s.saved[p] \in Seq(SavedVxlan))
  BY DEF Fine, SavedOk
<1>6. PICK q : q = Append(s.saved[p], y)
  OBVIOUS
<1>7. q \in Seq(Saved(p))
  BY <1>3, <1>5, <1>6
<1>8. NotStale(s) /\ p = Tunnel => q \in Seq(SavedVxlan)
  BY <1>4, <1>5, <1>6
<1>9. Save(s, p, m, d) = SetSaved(s, p, q)
  BY <1>1, <1>6 DEF SetSaved, Save, Fine, State
<1> QED
  BY <1>7, <1>8, <1>9, OneSavedLedger

LEMMA deleteFdbEntryFromSavedFDBLedger ==
    ASSUME NEW s, Fine(s), NEW p \in Port, NEW m, NEW origin
    PROVE  LET t == deleteFdbEntryFromSavedFDB(s, m, origin, p)
           IN  Ledger(s, t, 0, 0, 0) /\ SameEnts(s, t)
<1>1. s.saved[p] \in Seq(Saved(p)) /\ (NotStale(s) /\ p = Tunnel => s.saved[p] \in Seq(SavedVxlan))
  BY DEF Fine, SavedOk
<1>2. PICK I : I = {i \in 1 .. Len(s.saved[p]) : IsSaved(s.saved[p][i], m, origin)}
  OBVIOUS
<1>3. CASE I = {}
  <2>1. deleteFdbEntryFromSavedFDB(s, m, origin, p) = s
    BY <1>2, <1>3 DEF deleteFdbEntryFromSavedFDB, SelectInSeq
  <2> QED
    BY <2>1, LedgerSelf
<1>4. CASE I # {}
  <2>1. PICK i : i = Min(I)
    OBVIOUS
  <2>2. I \in SUBSET Nat
    BY <1>2
  <2>3. i \in 1 .. Len(s.saved[p])
    BY <1>2, <1>4, <2>1, <2>2, MinExists
  <2>4. PICK q : q = RemoveAt(s.saved[p], i)
    OBVIOUS
  <2>5. q \in Seq(Saved(p))
    BY <1>1, <2>3, <2>4, RemoveAtType
  <2>6. NotStale(s) /\ p = Tunnel => q \in Seq(SavedVxlan)
    BY <1>1, <2>3, <2>4, RemoveAtType
  <2>7. i # 0
    BY <2>3
  <2>8. deleteFdbEntryFromSavedFDB(s, m, origin, p) = SetSaved(s, p, q)
    BY <1>2, <1>4, <2>1, <2>4, <2>7 DEF SetSaved, deleteFdbEntryFromSavedFDB, SelectInSeq, Fine, State
  <2> QED
    BY <2>5, <2>6, <2>8, OneSavedLedger
<1> QED
  BY <1>3, <1>4

-----------------------------------------------------------------------------
(* The handlers of notifications                                           *)

LEMMA KeepsGood ==
    ASSUME NEW s, Good(s), NEW t, NEW p, Keeps(s, t, p)
    PROVE  Good(t)
BY DEF Good, Keeps, Steady

LEMMA CalmGood ==
    ASSUME NEW s, Good(s), NEW t, Calm(s, t)
    PROVE  Good(t)
<1>1. Keeps(s, t, Tunnel)
  BY CalmKeeps DEF Good
<1> QED
  BY <1>1, KeepsGood

LEMMA AtTunnelBpType ==
    ASSUME NEW b
    PROVE  AtTunnelBp(b) \in {0, 1} /\ AtTunnelBp(b) * (-1) = 0 - AtTunnelBp(b) /\ AtTunnelBp(b) * 1 = AtTunnelBp(b)
BY DEF AtTunnelBp

LEMMA NotifiedGood ==
    ASSUME NEW s, Good(s), NEW p
    PROVE  LET t == notifyTunnelOrch(s, p)
           IN  /\ Good(t) /\ t.members = s.members /\ \A x \in Mac : LikeEntry(s.ent[x], t.ent[x])
<1>1. Notified(s, notifyTunnelOrch(s, p))
  BY notifyTunnelOrchKeeps DEF Good
<1> QED
  BY <1>1, KeepsGood DEF Notified, Keeps

LEMMA clearFdbEntryGood ==
    ASSUME NEW s, Good(s), NEW m \in Mac, s.ent[m] # NoEntry
    PROVE  LET t == clearFdbEntry(s, m)
           IN  /\ Good(t) /\ t.members = s.members
               /\ \A x \in Mac : x # m => (t.ent[x] = NoEntry <=> s.ent[x] = NoEntry)
<1> PICK b : b = s.ent[m].bp
  OBVIOUS
<1>0. Fine(s)
  BY DEF Good
<1> PICK w1 : w1 = CountVlan(s, -1)
  OBVIOUS
<1>1. Ledger(s, w1, -1, 0, 0) /\ SameEnts(s, w1)
  BY <1>0, CountVlanLedger
<1> PICK w2 : w2 = StoreRemoved(w1, m)
  OBVIOUS
<1>2. Fine(w1) /\ w1.ent[m] = s.ent[m] /\ w1.ent[m] # NoEntry
  BY <1>1 DEF Ledger, SameEnts
<1>3. /\ Ledger(w1, w2, 1, AtTunnelBp(b), 0) /\ w2.ent = [s.ent EXCEPT ![m] = NoEntry] /\ w2.members = s.members
  BY <1>1, <1>2, StoreRemovedLedger DEF SameEnts
<1> PICK w3 : w3 = CountAt(w2, b, -1)
  OBVIOUS
<1>4. Ledger(w2, w3, 0, AtTunnelBp(b) * (-1), 0) /\ SameEnts(w2, w3)
  BY <1>3, CountTunnelLedger DEF Ledger
<1>5. Good(w3)
  BY <1>1, <1>3, <1>4, AtTunnelBpType DEF Good, Ledger
<1> PICK t : t = notifyTunnelOrch(w3, b[1])
  OBVIOUS
<1>6. Good(t) /\ t.members = w3.members /\ \A x \in Mac : LikeEntry(w3.ent[x], t.ent[x])
  BY <1>5, NotifiedGood
<1>7. t.members = s.members
  BY <1>3, <1>4, <1>6 DEF SameEnts
<1>8. DOMAIN s.ent = Mac
  BY <1>0 DEF Fine, State
<1>9. ASSUME NEW x \in Mac, x # m PROVE t.ent[x] = NoEntry <=> s.ent[x] = NoEntry
  <2>1. w2.ent[x] = s.ent[x]
    BY <1>3, <1>8, <1>9
  <2>2. w3.ent[x] = w2.ent[x]
    BY <1>4 DEF SameEnts
  <2>3. w3.ent[x] = NoEntry <=> t.ent[x] = NoEntry
    BY Zenon, <1>6 DEF LikeEntry
  <2> QED
    BY <2>1, <2>2, <2>3
<1>10. t = clearFdbEntry(s, m)
  BY DEF clearFdbEntry
<1> QED
  BY <1>6, <1>7, <1>9, <1>10

\* An entry whose origin is not "vxlan" is not at the tunnel, unless some MAC is stale.
LEMMA NotAtTunnel ==
    ASSUME NEW s, Fine(s), NEW m \in Mac, s.ent[m].origin # "vxlan", NotStale(s)
    PROVE  AtTunnelBp(s.ent[m].bp) = 0
<1>1. CASE s.ent[m] = NoEntry
  BY <1>1, NoEntryFacts
<1>2. CASE s.ent[m] # NoEntry /\ s.ent[m].bp[1] = Tunnel
  <2>1. m \in AtTunnel(s)
    BY <1>2 DEF AtTunnel
  <2> QED
    BY <2>1 DEF Fine, TunnelsOk
<1> QED
  BY <1>1, <1>2 DEF AtTunnelBp

LEMMA LearnedElsewhereGood ==
    ASSUME NEW s, Good(s), NEW m \in Mac, s.ent[m].origin = "mclag"
    PROVE  Good(LearnedElsewhere(s, m))
<1> PICK b : b = s.ent[m].bp
  OBVIOUS
<1>0. Fine(s)
  BY DEF Good
<1> PICK w1 : w1 = CountVlan(s, -1)
  OBVIOUS
<1>1. Ledger(s, w1, -1, 0, 0)
  BY <1>0, CountVlanLedger
<1> PICK w2 : w2 = CountAt(w1, b, -1)
  OBVIOUS
<1>2. Ledger(w1, w2, 0, AtTunnelBp(b) * (-1), 0)
  BY <1>1, CountTunnelLedger DEF Ledger
<1> PICK w3 : w3 = Count(w2, "strays", m)
  OBVIOUS
<1>3. Ledger(w2, w3, 1, 0, 0)
  BY <1>2, CountStraysLedger DEF Ledger
<1>4. NotStale(s) => AtTunnelBp(b) = 0
  BY <1>0, NotAtTunnel
<1>5. Good(w3)
  BY <1>1, <1>2, <1>3, <1>4, AtTunnelBpType DEF Good, Ledger
<1> QED
  BY <1>5 DEF LearnedElsewhere

\* A MAC that was known at another port, or at the same, is learnt.
LearntFrom(s, m, b, o) == notifyTunnelOrch(StoreLearnt(CountAt(s, o, -1), m, b), o[1])

LEMMA LearntFromGood ==
    ASSUME NEW s, Good(s), NEW m \in Mac, NEW b \in Phy \X Nat, s.ent[m] # NoEntry
    PROVE  Good(LearntFrom(s, m, b, s.ent[m].bp))
<1> PICK o : o = s.ent[m].bp
  OBVIOUS
<1>0. Fine(s) /\ Has(s.ent[m]) = 1
  BY DEF Good, Has
<1> PICK w1 : w1 = CountAt(s, o, -1)
  OBVIOUS
<1>1. Ledger(s, w1, 0, AtTunnelBp(o) * (-1), 0) /\ SameEnts(s, w1)
  BY <1>0, CountTunnelLedger
<1> PICK w2 : w2 = StoreLearnt(w1, m, b)
  OBVIOUS
<1>2. w1.ent[m] = s.ent[m] /\ Fine(w1)
  BY <1>1 DEF SameEnts, Ledger
<1>3. Ledger(w1, w2, Has(s.ent[m]) - 1, AtTunnelBp(o), 0)
  BY <1>2, StoreLearntLedger
<1>5. Good(w2)
  BY <1>0, <1>1, <1>3, AtTunnelBpType DEF Good, Ledger
<1>6. Good(notifyTunnelOrch(w2, o[1]))
  BY <1>5, NotifiedGood
<1> QED
  BY <1>6 DEF LearntFrom

LEMMA LearnedFromVtepGood ==
    ASSUME NEW s, Good(s), NEW m \in Mac, NEW b \in Phy \X Nat, s.ent[m] # NoEntry
    PROVE  Good(LearnedFromVtep(s, m, b))
<1>1. Good(LearntFrom(s, m, b, s.ent[m].bp))
  BY LearntFromGood
<1> QED
  BY <1>1 DEF LearnedFromVtep, LearntFrom

LEMMA LearntNew ==
    ASSUME NEW s, Good(s), NEW m \in Mac, NEW b \in Phy \X Nat, s.ent[m] = NoEntry
    PROVE  Good(StoreLearnt(CountVlan(s, 1), m, b))
<1>0. Fine(s) /\ Has(s.ent[m]) = 0 /\ AtTunnelBp(s.ent[m].bp) = 0
  BY NoEntryFacts DEF Good, Has
<1> PICK w1 : w1 = CountVlan(s, 1)
  OBVIOUS
<1>1. Ledger(s, w1, 1, 0, 0) /\ SameEnts(s, w1)
  BY <1>0, CountVlanLedger
<1> PICK w2 : w2 = StoreLearnt(w1, m, b)
  OBVIOUS
<1>2. w1.ent[m] = s.ent[m] /\ Fine(w1)
  BY <1>1 DEF SameEnts, Ledger
<1>3. Ledger(w1, w2, Has(s.ent[m]) - 1, AtTunnelBp(s.ent[m].bp), 0)
  BY <1>2, StoreLearntLedger
<1>5. Good(w2)
  BY <1>0, <1>1, <1>3 DEF Good, Ledger
<1> QED
  BY <1>5

LEMMA LearnedGood ==
    ASSUME NEW s, Good(s), NEW m \in Mac, NEW b \in Phy \X Nat
    PROVE  Good(Learned(s, m, b))
<1> PICK e : e = s.ent[m]
  OBVIOUS
<1>0. Fine(s) /\ s \in State /\ b \in BridgePorts
  BY DEF Good, Fine, BridgePorts, Port
<1>1. CASE b[1] \notin up
  <2>1. Calm(s, flushFDBEntries(s, b))
    BY <1>0, flushFDBEntriesCalm
  <2>2. Good(flushFDBEntries(s, b))
    BY <2>1, CalmGood
  <2> QED
    BY <1>1, <2>2 DEF Learned
<1>2. CASE b[1] \in up /\ e = NoEntry
  BY <1>2, LearntNew, NoEntryFacts DEF Learned
<1>3. CASE b[1] \in up /\ e # NoEntry /\ e.origin = "mclag" /\ e.bp # b
  BY <1>3, LearnedElsewhereGood DEF Learned
<1>4. CASE b[1] \in up /\ e # NoEntry /\ e.origin = "mclag" /\ e.bp = b
  <2> PICK allow : allow = (s.asic[m] # NoEntry /\ s.asic[m].allow)
    OBVIOUS
  <2>1. allow \in BOOLEAN
    <3>1. s.asic[m] \in AsicEntry \cup {NoEntry}
      BY <1>0 DEF State
    <3> QED
      BY <3>1 DEF AsicEntry
  <2> PICK w1 : w1 = Races(s, m)
    OBVIOUS
  <2>2. Silent(s, w1)
    BY <1>0, RacesSilent
  <2> PICK w2 : w2 = SetAttributes(w1, m, b, "dynamic", allow)
    OBVIOUS
  <2>3. w1 \in State /\ "dynamic" \in SaiTypes
    BY <2>2 DEF Silent, Calm, SaiTypes
  <2>4. Silent(w1, w2)
    BY <1>0, <2>1, <2>3, SetAttributesSilent
  <2>5. Silent(s, w2)
    BY <2>2, <2>4, SilentTransitive
  <2>6. Good(w2) /\ w2.ent[m] = e /\ Has(e) = 1
    BY <1>4, <2>5, CalmGood DEF Silent, Has
  <2> PICK t : t = StoreLearnt(w2, m, b)
    OBVIOUS
  <2>7. Ledger(w2, t, Has(e) - 1, AtTunnelBp(e.bp), 0)
    BY <2>6, StoreLearntLedger DEF Good
  <2>8. AtTunnelBp(e.bp) = 0
    BY <1>4, PortsAssumption DEF AtTunnelBp
  <2>9. Good(t)
    BY <2>6, <2>7, <2>8 DEF Good, Ledger
  <2>10. Learned(s, m, b) = t
    BY <1>4 DEF Learned
  <2> QED
    BY <2>9, <2>10
<1>5. CASE b[1] \in up /\ e # NoEntry /\ e.origin = "vxlan"
  BY <1>5, LearnedFromVtepGood DEF Learned
<1>6. CASE b[1] \in up /\ e # NoEntry /\ e.origin # "vxlan" /\ e.origin # "mclag"
  BY <1>6 DEF Learned
<1> QED
  BY <1>1, <1>2, <1>3, <1>4, <1>5, <1>6

LEMMA RecreateSilent ==
    ASSUME NEW s \in State, NEW m \in Mac, NEW b \in BridgePorts, NEW allow \in BOOLEAN
    PROVE  Silent(s, Recreate(s, m, b, allow))
<1> PICK w : w = Races(s, m)
  OBVIOUS
<1>1. Silent(s, w)
  BY RacesSilent
<1>2. w \in State /\ "static" \in SaiTypes
  BY <1>1 DEF Silent, Calm, SaiTypes
<1>3. Silent(w, Create(w, m, b, "static", allow))
  BY <1>2, CreateSilent
<1> QED
  BY <1>1, <1>3, SilentTransitive DEF Recreate

\* The port that an aged MAC goes from counts for the tunnel what its entry does.
AgesFrom(s, m, at) == NotStale(s) => AtTunnelBp(at) = AtTunnelBp(s.ent[m].bp)

LEMMA AgedOutGood ==
    ASSUME NEW s, Good(s), NEW m \in Mac, s.ent[m] # NoEntry, NEW b \in BridgePorts, NEW at,
           AgesFrom(s, m, at)
    PROVE  Good(AgedOut(s, m, b, at))
<1> PICK e : e = s.ent[m]
  OBVIOUS
<1>0. Fine(s) /\ s \in State /\ e \in Entry /\ e.bp \in BridgePorts
  <2>1. s \in State /\ Fine(s)
    BY DEF Good, Fine
  <2>2. e \in Entry
    BY <2>1 DEF State
  <2> QED
    BY <2>1, <2>2 DEF Entry
<1> DEFINE keeps == e.origin \in {"mclag", "vxlan"}
           retypes == e.origin = "learn" /\ e.dest[1] = "IFNAME" /\ e.type = "dynamic_control_learn"
<1>1. CASE keeps
  <2>1. Silent(s, Recreate(s, m, e.bp, TRUE))
    BY <1>0, RecreateSilent
  <2>2. AgedOut(s, m, b, at) = Recreate(s, m, e.bp, TRUE)
    BY <1>1 DEF AgedOut
  <2> QED
    BY <2>1, <2>2, CalmGood DEF Silent
<1>2. CASE ~keeps /\ retypes
  <2> PICK M : M = {m}
    OBVIOUS
  <2> PICK w1 : w1 = Excuse(s, "retyped", M)
    OBVIOUS
  <2>1. Silent(s, w1)
    <3>1. M \in SUBSET Mac /\ "retyped" \in {"ghosts", "raced", "dropped", "movable", "retyped"}
      OBVIOUS
    <3> QED
      BY <1>0, <3>1, ExcuseSilent
  <2>2. Good(w1) /\ w1.ent[m] = e
    BY <2>1, CalmGood DEF Silent
  <2> PICK w2 : w2 = Retyped(w1, m)
    OBVIOUS
  <2>3. Ledger(w1, w2, 0, 0, 0)
    BY <1>2, <2>2, RetypedLedger DEF Good
  <2>4. Good(w2)
    BY <2>2, <2>3 DEF Good, Ledger
  <2> PICK t : t = Recreate(w2, m, b, FALSE)
    OBVIOUS
  <2>5. Silent(w2, t)
    BY <2>4, RecreateSilent DEF Good, Fine
  <2>6. Good(t)
    BY <2>4, <2>5, CalmGood DEF Silent
  <2>7. AgedOut(s, m, b, at) = t
    BY <1>2 DEF AgedOut, Retyped
  <2> QED
    BY <2>6, <2>7
<1>3. CASE ~keeps /\ ~retypes
  <2> PICK w1 : w1 = CountVlan(s, -1)
    OBVIOUS
  <2>1. Ledger(s, w1, -1, 0, 0) /\ SameEnts(s, w1)
    BY <1>0, CountVlanLedger
  <2> PICK w2 : w2 = CountAt(w1, at, -1)
    OBVIOUS
  <2>2. Ledger(w1, w2, 0, AtTunnelBp(at) * (-1), 0) /\ SameEnts(w1, w2)
    BY <2>1, CountTunnelLedger DEF Ledger
  <2> PICK w3 : w3 = StoreRemoved(w2, m)
    OBVIOUS
  <2>3. Fine(w2) /\ w2.ent[m] = e
    BY <2>1, <2>2 DEF Ledger, SameEnts
  <2>4. Ledger(w2, w3, 1, AtTunnelBp(e.bp), 0)
    BY <2>3, StoreRemovedLedger
  <2>5. Good(w3)
    BY <2>1, <2>2, <2>4, AtTunnelBpType DEF Good, Ledger, AgesFrom
  <2>6. Good(notifyTunnelOrch(w3, at[1]))
    BY <2>5, NotifiedGood
  <2>7. AgedOut(s, m, b, at) = notifyTunnelOrch(w3, at[1])
    BY <1>3 DEF AgedOut
  <2> QED
    BY <2>6, <2>7
<1> QED
  BY <1>1, <1>2, <1>3

LEMMA AgedAtGood ==
    ASSUME NEW s, Good(s), NEW m \in Mac, s.ent[m] # NoEntry, NEW b \in BridgePorts, NEW at \in BridgePorts,
           AgesFrom(s, m, at)
    PROVE  Good(AgedAt(s, m, b, at))
<1> PICK e : e = s.ent[m]
  OBVIOUS
<1>0. Fine(s) /\ s \in State /\ e \in Entry /\ at[1] \in Port
  BY DEF Good, Fine, State, BridgePorts
<1>1. CASE e.type = "static" /\ at[1] \in s.members
  <2>1. Silent(s, Recreate(s, m, b, FALSE))
    BY <1>0, RecreateSilent
  <2>2. AgedAt(s, m, b, at) = Recreate(s, m, b, FALSE)
    BY <1>1 DEF AgedAt
  <2> QED
    BY <2>1, <2>2, CalmGood DEF Silent
<1>2. CASE e.type = "static" /\ at[1] \notin s.members
  <2> PICK d : d = [port |-> at[1], type |-> e.type, origin |-> e.origin, dest |-> e.dest]
    OBVIOUS
  <2>1. d.port = at[1] /\ d.origin = e.origin /\ d \in SavedData(d.port)
    BY <1>0 DEF SavedData, Entry
  <2>2. NotStale(s) /\ at[1] = Tunnel => e.origin = "vxlan"
    <3> SUFFICES ASSUME NotStale(s), at[1] = Tunnel, e.origin # "vxlan" PROVE FALSE
      OBVIOUS
    <3>1. AtTunnelBp(e.bp) = 0
      BY <1>0, NotAtTunnel
    <3> QED
      BY <3>1 DEF AgesFrom, AtTunnelBp
  <2>3. DataOk(s, d)
    BY <1>0, <2>1, <2>2 DEF DataOk
  <2> PICK w : w = Save(s, at[1], m, d)
    OBVIOUS
  <2>4. Ledger(s, w, 0, 0, 0) /\ SameEnts(s, w)
    BY <1>0, <2>1, <2>3, SaveLedger
  <2>5. Good(w) /\ w.ent[m] = e /\ NotStale(w) = NotStale(s)
    BY <2>4 DEF Good, Ledger, SameEnts
  <2>6. AgesFrom(w, m, at)
    BY <2>5 DEF AgesFrom
  <2>7. Good(AgedOut(w, m, b, at))
    BY <2>5, <2>6, AgedOutGood
  <2>8. AgedAt(s, m, b, at) = AgedOut(w, m, b, at)
    BY <1>2 DEF AgedAt
  <2> QED
    BY <2>7, <2>8
<1>3. CASE e.type # "static"
  BY <1>3, AgedOutGood DEF AgedAt
<1> QED
  BY <1>1, <1>2, <1>3

LEMMA AgedGood ==
    ASSUME NEW s, Good(s), NEW m \in Mac, NEW b \in BridgePorts
    PROVE  Good(Aged(s, m, b))
<1> PICK e : e = s.ent[m]
  OBVIOUS
<1>0. Fine(s) /\ s \in State
  BY DEF Good, Fine
<1>1. CASE e = NoEntry
  BY <1>1 DEF Aged
<1>2. CASE e # NoEntry /\ e.bp \in Range(s.bp)
  <2>1. e.bp \in BridgePorts
    BY <1>0, <1>2 DEF State, Entry
  <2>2. AgesFrom(s, m, e.bp)
    BY DEF AgesFrom
  <2>3. Aged(s, m, b) = AgedAt(s, m, b, e.bp)
    BY <1>2 DEF Aged
  <2> QED
    BY <1>2, <2>1, <2>2, <2>3, AgedAtGood
<1>3. CASE e # NoEntry /\ e.bp \notin Range(s.bp)
  <2>1. NotStale(s) => AtTunnelBp(e.bp) = 0
    <3> SUFFICES ASSUME NotStale(s), e.bp[1] = Tunnel PROVE FALSE
      BY DEF AtTunnelBp
    <3>1. m \in AtTunnel(s)
      BY <1>3 DEF AtTunnel
    <3>2. e.bp = s.bp[Tunnel] /\ Tunnel \in DOMAIN s.bp
      BY <1>0, <3>1 DEF Fine, TunnelsOk, State, Port
    <3> QED
      BY <1>3, <3>2 DEF Range
  <2>2. CASE b[1] = Tunnel
    <3> PICK M : M = {m}
      OBVIOUS
    <3> PICK w : w = Excuse(s, "stale", M)
      OBVIOUS
    <3>1. /\ Fine(w) /\ SameEnts(s, w) /\ ~NotStale(w) /\ VlanOff(w) = VlanOff(s) /\ CrmOff(w) = CrmOff(s)
          /\ \A x \in Mac : (RowOk(s, x) => RowOk(w, x)) /\ (PeerRowOk(s, x) => PeerRowOk(w, x))
      BY <1>0, ExcuseStaleFine
    <3>2. Good(w) /\ w.ent[m] # NoEntry /\ AgesFrom(w, m, b)
      BY <1>3, <3>1 DEF Good, SameEnts, AgesFrom
    <3>3. Good(AgedAt(w, m, b, b))
      BY <3>2, AgedAtGood
    <3>4. Aged(s, m, b) = AgedAt(w, m, b, b)
      BY <1>3, <2>2 DEF Aged
    <3> QED
      BY <3>3, <3>4
  <2>3. CASE b[1] # Tunnel
    <3>1. AgesFrom(s, m, b)
      BY <2>1, <2>3 DEF AgesFrom, AtTunnelBp
    <3>2. Good(AgedAt(s, m, b, b))
      BY <1>3, <3>1, AgedAtGood
    <3>3. Aged(s, m, b) = AgedAt(s, m, b, b)
      BY <1>3, <2>3 DEF Aged
    <3> QED
      BY <3>2, <3>3
  <2> QED
    BY <2>2, <2>3
<1> QED
  BY <1>1, <1>2, <1>3

LEMMA MovedFromGood ==
    ASSUME NEW s, Good(s), NEW m \in Mac, s.ent[m] # NoEntry, NEW b \in Phy \X Nat, NEW old, old = s.ent[m].bp
    PROVE  Good(MovedFrom(s, m, b, old))
<1> PICK e : e = s.ent[m]
  OBVIOUS
<1> DEFINE sets == e.origin = "mclag" /\ old # b
<1>0. Fine(s) /\ s \in State /\ b \in BridgePorts /\ Has(e) = 1
  BY DEF Good, Fine, BridgePorts, Port, Has
<1> PICK w1 : w1 = IF sets THEN SetAttributes(Races(s, m), m, b, "dynamic", FALSE) ELSE s
  OBVIOUS
<1>1. Silent(s, w1)
  <2>1. Silent(s, Races(s, m))
    BY <1>0, RacesSilent
  <2>2. Races(s, m) \in State /\ "dynamic" \in SaiTypes /\ FALSE \in BOOLEAN
    BY <2>1 DEF Silent, Calm, SaiTypes
  <2>3. Silent(Races(s, m), SetAttributes(Races(s, m), m, b, "dynamic", FALSE))
    BY <1>0, <2>2, SetAttributesSilent
  <2>4. Silent(s, SetAttributes(Races(s, m), m, b, "dynamic", FALSE))
    BY <2>1, <2>3, SilentTransitive
  <2> QED
    BY <1>0, <2>4, SilentSelf
<1>2. Good(w1) /\ w1.ent[m] = e
  BY <1>1, CalmGood DEF Silent
<1>3. Good(LearntFrom(w1, m, b, w1.ent[m].bp))
  BY <1>2, LearntFromGood
<1>4. MovedFrom(s, m, b, old) = LearntFrom(w1, m, b, w1.ent[m].bp)
  BY <1>2 DEF MovedFrom, LearntFrom
<1> QED
  BY <1>3, <1>4

LEMMA MovedGood ==
    ASSUME NEW s, Good(s), NEW m \in Mac, NEW b \in Phy \X Nat
    PROVE  Good(Moved(s, m, b))
<1>1. CASE s.ent[m] = NoEntry
  BY <1>1, LearntNew DEF Moved
<1>2. CASE s.ent[m] # NoEntry /\ s.ent[m].bp \in Range(s.bp)
  <2> PICK old : old = s.ent[m].bp
    OBVIOUS
  <2>1. Good(MovedFrom(s, m, b, old))
    BY <1>2, MovedFromGood
  <2> QED
    BY <1>2, <2>1 DEF Moved
<1>3. CASE s.ent[m] # NoEntry /\ s.ent[m].bp \notin Range(s.bp)
  BY <1>3 DEF Moved
<1> QED
  BY <1>1, <1>2, <1>3

\* handleSyncdFlushNotif removes one entry after the other: after each the books
\* are right, and the entries that are still to go are there.
LEMMA handleSyncdFlushNotifGood ==
    ASSUME NEW s, Good(s), NEW b
    PROVE  Good(handleSyncdFlushNotif(s, b))
<1> PICK F : F = {m \in Mac : At(s.ent[m], b) /\ s.ent[m].sai = "dynamic" /\ s.ent[m].flush}
  OBVIOUS
<1>1. F \subseteq Mac /\ IsFiniteSet(F) /\ \A x \in F : s.ent[x] # NoEntry
  <2>1. F \subseteq Mac
    OBVIOUS
  <2>2. IsFiniteSet(F)
    BY <2>1, FS_Subset, PortsAssumption
  <2> QED
    BY <2>1, <2>2 DEF At
<1>2. \E h : FlushIs(h, s, F)
  BY <1>1, FlushFold
<1>3. ASSUME NEW h, FlushIs(h, s, F)
      PROVE  Good(h[F])
  <2> DEFINE LeftBy(M) == Good(h[M]) /\ \A x \in F \ M : h[M].ent[x] # NoEntry
  <2> PICK S : S = {M \in SUBSET F : LeftBy(M)}
    OBVIOUS
  <2>1. \A M \in SUBSET F : h[M] = FlushValue(h, s, M)
    BY <1>3 DEF FlushIs
  <2>2. {} \in S
    <3>1. h[{}] = s
      BY <2>1 DEF FlushValue
    <3> QED
      BY <1>1, <3>1
  <2>3. ASSUME NEW M \in SUBSET F, M # {}, FlushRest(M) \in S PROVE M \in S
    <3> PICK x : x = CHOOSE y \in M : TRUE
      OBVIOUS
    <3>1. x \in M /\ x \in Mac
      BY <1>1, <2>3
    <3> PICK a : a = h[FlushRest(M)]
      OBVIOUS
    <3>2. Good(a) /\ \A y \in F \ FlushRest(M) : a.ent[y] # NoEntry
      BY <2>3
    <3>3. x \notin FlushRest(M)
      BY DEF FlushRest
    <3>4. a.ent[x] # NoEntry
      BY <3>1, <3>2, <3>3
    <3> PICK c : c = clearFdbEntry(a, x)
      OBVIOUS
    <3>5. /\ Good(c) /\ \A y \in Mac : y # x => (c.ent[y] = NoEntry <=> a.ent[y] = NoEntry)
      BY <3>1, <3>2, <3>4, clearFdbEntryGood
    <3>6. h[M] = c
      BY <2>1, <2>3 DEF FlushValue
    <3>7. ASSUME NEW y \in F \ M PROVE c.ent[y] # NoEntry
      <4>1. y # x /\ y \in Mac /\ y \in F \ FlushRest(M)
        BY <1>1, <3>1 DEF FlushRest
      <4> QED
        BY <3>2, <3>5, <4>1
    <3>8. LeftBy(M)
      BY <3>5, <3>6, <3>7
    <3> QED
      BY <3>8
  <2>4. ASSUME NEW M \in SUBSET F, \A N \in SUBSET M : N # M => N \in S PROVE M \in S
    <3>1. CASE M = {}
      BY <2>2, <3>1
    <3>2. CASE M # {}
      <4>1. FlushRest(M) \in SUBSET M /\ FlushRest(M) # M
        BY <3>2 DEF FlushRest
      <4> QED
        BY <2>3, <2>4, <3>2, <4>1
    <3> QED
      BY <3>1, <3>2
  <2>5. F \in S
    <3> HIDE DEF LeftBy
    <3> QED
      BY <1>1, <2>4, FiniteInduct
  <2> QED
    BY <2>5
<1>4. handleSyncdFlushNotif(s, b) = (CHOOSE h : FlushIs(h, s, F))[F]
  BY DEF FlushIs, handleSyncdFlushNotif, FoldSet, MapThenFoldSet, FlushValue, FlushRest
<1> QED
  BY <1>2, <1>3, <1>4

LEMMA UpdateGood ==
    ASSUME NEW s, Good(s), NEW e \in Notifications
    PROVE  Good(Update(s, e))
<1>1. CASE e.type = "FLUSHED"
  BY <1>1, handleSyncdFlushNotifGood DEF Update
<1>2. CASE e.type # "FLUSHED" /\ e.bp \notin Range(s.bp)
  BY <1>2 DEF Update
<1>3. CASE e.type = "AGED" /\ e.bp \in Range(s.bp)
  <2>1. e.mac \in Mac /\ e.bp \in BridgePorts
    BY <1>3 DEF Notifications
  <2>2. Update(s, e) = Aged(s, e.mac, e.bp)
    BY <1>3 DEF Update
  <2> QED
    BY <2>1, <2>2, AgedGood
<1>4. CASE e.type = "LEARNED" /\ e.bp \in Range(s.bp)
  <2>1. e.mac \in Mac /\ e.bp \in Phy \X Nat
    BY <1>4 DEF Notifications
  <2>2. Update(s, e) = Learned(s, e.mac, e.bp)
    BY <1>4 DEF Update
  <2> QED
    BY <2>1, <2>2, LearnedGood
<1>5. CASE e.type = "MOVE" /\ e.bp \in Range(s.bp)
  <2>1. e.mac \in Mac /\ e.bp \in Phy \X Nat
    BY <1>5 DEF Notifications
  <2>2. Update(s, e) = Moved(s, e.mac, e.bp)
    BY <1>5 DEF Update
  <2> QED
    BY <2>1, <2>2, MovedGood
<1>6. e.type \in {"FLUSHED", "AGED", "LEARNED", "MOVE"}
  BY DEF Notifications
<1> QED
  BY <1>1, <1>2, <1>3, <1>4, <1>5, <1>6

-----------------------------------------------------------------------------
(* Requests of APP_DB                                                      *)

\* Good, but that the peer's row of the MACs of L may be left behind.
GoodBut(s, L) ==
    /\ Fine(s)
    /\ VlanOff(s) = 0 /\ CrmOff(s) = 0 /\ (NotStale(s) => TunnelOff(s) = 0)
    /\ \A x \in Mac : RowOk(s, x) /\ (x \notin L => PeerRowOk(s, x))

\* What StoreAdded relies on: the rows say what the old entry says.
RowsOf(s, m, old) ==
    /\ ~Local(old.origin) => m \in Torn(s) \/ s.state[m] = NoPort
    /\ old.origin # "mclag" => m \in s.excused["late"] \/ s.mclag[m] = NoPort

LEMMA RowsOfEntry ==
    ASSUME NEW s, NEW m \in Mac, RowOk(s, m), PeerRowOk(s, m)
    PROVE  RowsOf(s, m, s.ent[m])
BY DEF RowOk, PeerRowOk, RowsOf

Leaves(d, m, old) == IF Own(d) /\ old.origin = "mclag" THEN {m} ELSE {}

LEMMA UpdateMacGood ==
    ASSUME NEW s, Good(s), NEW m \in Mac, s.ent[m] # NoEntry, NEW d, DataOk(s, d), s.bp[d.port] # NoBp
    PROVE  LET t == UpdateMac(s, m, d, s.bp[d.port], s.ent[m])
           IN  GoodBut(t, Leaves(d, m, s.ent[m])) /\ t.members = s.members /\ NotStale(t) = NotStale(s)
<1> PICK old : old = s.ent[m]
  OBVIOUS
<1> PICK b : b = s.bp[d.port]
  OBVIOUS
<1>0. Fine(s) /\ s \in State /\ Has(old) = 1 /\ d.port \in Port
  BY DEF Good, Fine, Has, DataOk
<1>1. b \in BridgePorts
  BY <1>0 DEF State
<1> PICK M : M = {m}
  OBVIOUS
<1> PICK w1 : w1 = IF old.origin = "mclag" /\ ~AllowMacMove(d) THEN Excuse(s, "movable", M) ELSE s
  OBVIOUS
<1>2. Silent(s, w1)
  <2>1. M \in SUBSET Mac /\ "movable" \in {"ghosts", "raced", "dropped", "movable", "retyped"}
    OBVIOUS
  <2>2. Silent(s, Excuse(s, "movable", M))
    BY <1>0, <2>1, ExcuseSilent
  <2> QED
    BY <1>0, <2>2, SilentSelf
<1> PICK allow : allow = IF old.origin = "vxlan" /\ (d.origin # "vxlan" \/ (old.type = "dynamic" /\ d.type # "dynamic"))
                         THEN FALSE ELSE AllowMacMove(d) \/ (s.asic[m] # NoEntry /\ s.asic[m].allow)
  OBVIOUS
<1>3. allow \in BOOLEAN
  <2>1. s.asic[m] \in AsicEntry \cup {NoEntry}
    BY <1>0 DEF State
  <2>2. AllowMacMove(d) \in BOOLEAN
    BY DEF AllowMacMove
  <2> QED
    BY <2>1, <2>2 DEF AsicEntry
<1> PICK w2 : w2 = SetAttributes(w1, m, b, SaiType(d), allow)
  OBVIOUS
<1>4. SaiType(d) \in SaiTypes
  BY DEF SaiType, SaiTypes
<1>5. Silent(s, w2)
  <2> PICK u : u = w1
    OBVIOUS
  <2>1. u \in State /\ Silent(s, u)
    BY <1>2 DEF Silent, Calm
  <2>2. Silent(u, SetAttributes(u, m, b, SaiType(d), allow))
    BY <1>1, <1>3, <1>4, <2>1, SetAttributesSilent
  <2>3. Silent(s, SetAttributes(u, m, b, SaiType(d), allow))
    BY <2>1, <2>2, SilentTransitive
  <2> QED
    BY <2>3
<1>6. UpdateMac(s, m, d, b, old) = StoreAdded(CountAt(CountAt(w2, old.bp, -1), b, 1), m, d, old)
  BY DEF UpdateMac
<1>7. ASSUME NEW w, Silent(s, w)
      PROVE  LET t == StoreAdded(CountAt(CountAt(w, old.bp, -1), b, 1), m, d, old)
             IN  GoodBut(t, Leaves(d, m, old)) /\ t.members = s.members /\ NotStale(t) = NotStale(s)
  <2>1. Good(w) /\ Fine(w) /\ w.ent = s.ent /\ w.bp = s.bp /\ w.members = s.members
    BY <1>7, CalmGood DEF Silent, Good, Calm, SameBooks
  <2>2. NotStale(w) = NotStale(s)
    BY <1>7 DEF Silent, Calm, SameBooks, NotStale
  <2> PICK w3 : w3 = CountAt(w, old.bp, -1)
    OBVIOUS
  <2>3. Ledger(w, w3, 0, AtTunnelBp(old.bp) * (-1), 0) /\ SameEnts(w, w3)
    BY <2>1, CountTunnelLedger
  <2> PICK w4 : w4 = CountAt(w3, b, 1)
    OBVIOUS
  <2>4. Ledger(w3, w4, 0, AtTunnelBp(b) * 1, 0) /\ SameEnts(w3, w4)
    BY <2>3, CountTunnelLedger DEF Ledger
  <2>5. Fine(w4) /\ w4.ent[m] = old /\ w4.bp[d.port] = b /\ w4.members = s.members /\ NotStale(w4) = NotStale(s)
    BY <2>1, <2>2, <2>3, <2>4 DEF Ledger, SameEnts
  <2>6. DataOk(w4, d)
    BY <2>5 DEF DataOk
  <2>7. \A x \in Mac : RowOk(w4, x) /\ PeerRowOk(w4, x)
    BY <2>1, <2>3, <2>4 DEF Good, Ledger
  <2>8. RowsOf(w4, m, old)
    BY <2>5, <2>7, RowsOfEntry
  <2> PICK t : t = StoreAdded(w4, m, d, old)
    BY SMTT(30)
  <2>9. /\ Fine(t) /\ NotStale(t) = NotStale(w4)
        /\ VlanOff(t) = VlanOff(w4) + Has(old) - 1
        /\ TunnelOff(t) = TunnelOff(w4) + AtTunnelBp(old.bp) - AtTunnelBp(b)
        /\ CrmOff(t) = CrmOff(w4) + Has(old) - Has(old)
        /\ \A x \in Mac : x # m => (RowOk(w4, x) => RowOk(t, x)) /\ (PeerRowOk(w4, x) => PeerRowOk(t, x))
        /\ RowOk(t, m) /\ (~(Own(d) /\ old.origin = "mclag") => PeerRowOk(t, m))
        /\ t.members = w4.members
    BY SMTT(30), <2>5, <2>6, <2>8, StoreAddedBooks DEF RowsOf
  <2>10. VlanOff(w4) = 0 /\ CrmOff(w4) = 0
         /\ (NotStale(w) => TunnelOff(w4) = 0 - AtTunnelBp(old.bp) + AtTunnelBp(b))
    BY <2>1, <2>3, <2>4, AtTunnelBpType DEF Good, Ledger
  <2>11. VlanOff(t) = 0 /\ CrmOff(t) = 0 /\ (NotStale(t) => TunnelOff(t) = 0)
    BY <1>0, <2>2, <2>5, <2>9, <2>10, AtTunnelBpType
  <2>12. \A x \in Mac : RowOk(t, x) /\ (x \notin Leaves(d, m, old) => PeerRowOk(t, x))
    BY <2>7, <2>9 DEF Leaves
  <2> QED
    BY <2>5, <2>9, <2>11, <2>12 DEF GoodBut
<1>8. LET t == StoreAdded(CountAt(CountAt(w2, old.bp, -1), b, 1), m, d, old)
      IN  GoodBut(t, Leaves(d, m, old)) /\ t.members = s.members /\ NotStale(t) = NotStale(s)
  BY <1>5, <1>7
<1> QED
  BY <1>6, <1>8

\* m has no entry and its rows and the CRM counter are still those of old.
Ready(s, m, old) ==
    /\ Fine(s) /\ s.ent[m] = NoEntry
    /\ VlanOff(s) = 0 /\ CrmOff(s) = Has(old) /\ (NotStale(s) => TunnelOff(s) = 0)
    /\ \A x \in Mac : x # m => RowOk(s, x) /\ PeerRowOk(s, x)
    /\ RowsOf(s, m, old)

LEMMA CreateMacGood ==
    ASSUME NEW s, NEW m \in Mac, NEW old, Ready(s, m, old), NEW d, DataOk(s, d), s.bp[d.port] # NoBp
    PROVE  LET t == CreateMac(s, m, d, old)
           IN  GoodBut(t, Leaves(d, m, old)) /\ t.members = s.members /\ NotStale(t) = NotStale(s)
<1> PICK b : b = s.bp[d.port]
  OBVIOUS
<1>0. Fine(s) /\ s \in State /\ d.port \in Port
  BY DEF Ready, Fine, DataOk
<1>1. b \in BridgePorts /\ SaiType(d) \in SaiTypes /\ AllowMacMove(d) \in BOOLEAN
  BY <1>0 DEF State, SaiType, SaiTypes, AllowMacMove
<1> PICK w : w = Create(s, m, b, SaiType(d), AllowMacMove(d))
  OBVIOUS
<1>2. Silent(s, w)
  BY <1>0, <1>1, CreateSilent
<1>3. w \in State /\ SameBooks(s, w) /\ w.ent = s.ent /\ w.bp = s.bp /\ w.members = s.members
  BY <1>2 DEF Silent, Calm, SameBooks
<1>4. Fine(w) /\ Steady(s, w)
  BY <1>0, <1>3, Quiet
<1>5. RowsOf(w, m, old)
  <2>1. w.excused["torn"] = s.excused["torn"] /\ w.excused["late"] = s.excused["late"]
        /\ w.state = s.state /\ w.mclag = s.mclag
    BY <1>3 DEF SameBooks
  <2> QED
    BY <2>1 DEF Ready, RowsOf, Torn
<1> PICK w3 : w3 = CountAt(w, b, 1)
  OBVIOUS
<1>6. Ledger(w, w3, 0, AtTunnelBp(b) * 1, 0) /\ SameEnts(w, w3)
  BY <1>4, CountTunnelLedger
<1> PICK w4 : w4 = CountVlan(w3, 1)
  OBVIOUS
<1>7. Ledger(w3, w4, 1, 0, 0) /\ SameEnts(w3, w4)
  BY <1>6, CountVlanLedger DEF Ledger
<1>8. /\ Fine(w4) /\ w4.ent[m] = NoEntry /\ w4.bp[d.port] = b /\ w4.members = s.members
      /\ NotStale(w4) = NotStale(s)
  BY <1>3, <1>4, <1>6, <1>7 DEF Ledger, SameEnts, Steady, Ready
<1>9. DataOk(w4, d)
  BY <1>8 DEF DataOk
<1>10. RowsOf(w4, m, old)
  <2>1. /\ w4.excused = w.excused /\ w4.state = w.state /\ w4.mclag = w.mclag
    BY <1>3 DEF CountAt, CountVlan, State
  <2> QED
    BY <1>5, <2>1 DEF RowsOf, Torn
<1> PICK t : t = StoreAdded(w4, m, d, old)
  OBVIOUS
<1>11. /\ Fine(t) /\ NotStale(t) = NotStale(w4)
       /\ VlanOff(t) = VlanOff(w4) + Has(NoEntry) - 1
       /\ TunnelOff(t) = TunnelOff(w4) + AtTunnelBp(NoEntry.bp) - AtTunnelBp(b)
       /\ CrmOff(t) = CrmOff(w4) + Has(NoEntry) - Has(old)
       /\ \A x \in Mac : x # m => (RowOk(w4, x) => RowOk(t, x)) /\ (PeerRowOk(w4, x) => PeerRowOk(t, x))
       /\ RowOk(t, m) /\ (~(Own(d) /\ old.origin = "mclag") => PeerRowOk(t, m))
       /\ t.members = w4.members
  BY <1>8, <1>9, <1>10, StoreAddedBooks DEF RowsOf
<1>12. Has(NoEntry) = 0 /\ AtTunnelBp(NoEntry.bp) = 0 /\ Has(old) \in {0, 1}
  BY NoEntryFacts DEF Has
<1>13. VlanOff(w4) = 1 /\ CrmOff(w4) = Has(old) /\ (NotStale(s) => TunnelOff(w4) = AtTunnelBp(b))
  BY <1>4, <1>6, <1>7, <1>12, AtTunnelBpType DEF Ready, Steady, Ledger
<1>14. VlanOff(t) = 0 /\ CrmOff(t) = 0 /\ (NotStale(t) => TunnelOff(t) = 0)
  BY <1>8, <1>11, <1>12, <1>13, AtTunnelBpType
<1>15. \A x \in Mac : x # m => RowOk(w4, x) /\ PeerRowOk(w4, x)
  BY <1>4, <1>6, <1>7 DEF Ready, Steady, Ledger
<1>16. \A x \in Mac : RowOk(t, x) /\ (x \notin Leaves(d, m, old) => PeerRowOk(t, x))
  BY <1>11, <1>15 DEF Leaves
<1>17. CreateMac(s, m, d, old) = t
  BY DEF CreateMac
<1> QED
  BY <1>8, <1>11, <1>14, <1>16, <1>17 DEF GoodBut

LEMMA RemoveForMoveReady ==
    ASSUME NEW s, Good(s), NEW m \in Mac, s.ent[m].origin \in {"learn", "vxlan"}
    PROVE  LET t == RemoveForMove(s, m, s.ent[m])
           IN  /\ Ready(t, m, s.ent[m]) /\ PeerRowOk(t, m) /\ NotStale(t) = NotStale(s)
               /\ t.members = s.members
               /\ \A p \in Port : p # Tunnel \/ Tunnel \in s.members => t.bp[p] = s.bp[p]
<1> PICK old : old = s.ent[m]
  OBVIOUS
<1>0. Fine(s) /\ s \in State /\ old # NoEntry /\ Has(old) = 1
  BY NoEntryFacts DEF Good, Fine, Has
<1> PICK w : w = RemoveEntry(s, m)
  OBVIOUS
<1>1. Silent(s, w)
  BY <1>0, RemoveEntrySilent
<1>2. w \in State /\ SameBooks(s, w) /\ w.ent = s.ent /\ w.bp = s.bp /\ w.members = s.members
  BY <1>1 DEF Silent, Calm, SameBooks
<1>3. Good(w) /\ Fine(w) /\ NotStale(w) = NotStale(s)
  BY <1>0, <1>1, <1>2, CalmGood, Quiet DEF Silent, Good, Steady
<1> PICK w1 : w1 = CountVlan(w, -1)
  OBVIOUS
<1>4. Ledger(w, w1, -1, 0, 0) /\ SameEnts(w, w1)
  BY <1>3, CountVlanLedger
<1> PICK w2 : w2 = CountAt(w1, old.bp, -1)
  OBVIOUS
<1>5. Ledger(w1, w2, 0, AtTunnelBp(old.bp) * (-1), 0) /\ SameEnts(w1, w2)
  BY <1>4, CountTunnelLedger DEF Ledger
<1>6. Fine(w2) /\ w2.ent[m] = old /\ w2.bp = s.bp /\ w2.members = s.members /\ NotStale(w2) = NotStale(s)
  BY <1>2, <1>3, <1>4, <1>5 DEF Ledger, SameEnts
<1> PICK w3 : w3 = Dropped(w2, m)
  OBVIOUS
<1>7. /\ Fine(w3) /\ NotStale(w3) = NotStale(w2) /\ VlanOff(w3) = VlanOff(w2) + 1
      /\ TunnelOff(w3) = TunnelOff(w2) + AtTunnelBp(old.bp) /\ CrmOff(w3) = CrmOff(w2) + 1
      /\ \A x \in Mac : (x # m /\ RowOk(w2, x) => RowOk(w3, x)) /\ (PeerRowOk(w2, x) => PeerRowOk(w3, x))
      /\ RowOk(w2, m) /\ ~Local(old.origin) => RowOk(w3, m)
      /\ w3.ent = [w2.ent EXCEPT ![m] = NoEntry] /\ w3.bp = w2.bp /\ w3.members = w2.members
  BY <1>0, <1>6, DroppedBooks
<1>8. VlanOff(w2) = -1 /\ CrmOff(w2) = 0 /\ (NotStale(s) => TunnelOff(w2) = 0 - AtTunnelBp(old.bp))
  BY <1>3, <1>4, <1>5, AtTunnelBpType DEF Good, Ledger
<1>9. VlanOff(w3) = 0 /\ CrmOff(w3) = 1 /\ (NotStale(w3) => TunnelOff(w3) = 0)
  BY <1>6, <1>7, <1>8, AtTunnelBpType
<1>10. \A x \in Mac : (x # m => RowOk(w3, x)) /\ PeerRowOk(w3, x)
  BY <1>3, <1>4, <1>5, <1>7 DEF Good, Ledger
<1>11. ~Local(old.origin) => RowOk(w3, m)
  BY <1>3, <1>4, <1>5, <1>7 DEF Good, Ledger
<1>12. w3.ent[m] = NoEntry
  <2>1. w2.ent \in [Mac -> Entry \cup {NoEntry}]
    BY <1>6 DEF Fine, State
  <2> QED
    BY <1>7, <2>1
<1> PICK t : t = notifyTunnelOrch(w3, old.bp[1])
  OBVIOUS
<1>13. Keeps(w3, t, Tunnel) /\ (Tunnel \in w3.members => t.bp = w3.bp)
  BY <1>7, <1>9, notifyTunnelOrchKeeps DEF Notified
<1>14. RemoveForMove(s, m, old) = t
  BY DEF RemoveForMove, Dropped
<1>15. Fine(t) /\ Steady(w3, t) /\ t.members = s.members /\ LikeEntry(w3.ent[m], t.ent[m])
  BY ZenonT(60), <1>6, <1>7, <1>13 DEF Keeps
<1>16. t.ent[m] = NoEntry /\ NotStale(t) = NotStale(s)
  BY ZenonT(60), <1>6, <1>7, <1>12, <1>15 DEF LikeEntry, Steady
<1>17. VlanOff(t) = 0 /\ CrmOff(t) = Has(old) /\ (NotStale(t) => TunnelOff(t) = 0)
  BY <1>0, <1>9, <1>15 DEF Steady
<1>18. \A x \in Mac : (x # m => RowOk(t, x)) /\ PeerRowOk(t, x)
  BY <1>10, <1>15 DEF Steady
<1>19. RowsOf(t, m, old)
  <2>1. ~Local(old.origin) => RowOk(t, m)
    BY <1>11, <1>15 DEF Steady
  <2>2. ~Local("none") /\ NoEntry.origin = "none"
    BY NoEntryFacts DEF Local
  <2>3. ~Local(old.origin) => m \in Torn(t) \/ t.state[m] = NoPort
    BY <1>16, <2>1, <2>2 DEF RowOk
  <2>4. m \in t.excused["late"] \/ t.mclag[m] = NoPort
    BY <1>16, <1>18, <2>2 DEF PeerRowOk
  <2> QED
    BY <2>3, <2>4 DEF RowsOf
<1>20. ASSUME NEW p \in Port, p # Tunnel \/ Tunnel \in s.members PROVE t.bp[p] = s.bp[p]
  <2>1. \A q \in Port : q # Tunnel => t.bp[q] = w3.bp[q]
    BY <1>13 DEF Keeps
  <2>2. w3.bp = s.bp /\ w3.members = s.members
    BY <1>6, <1>7
  <2> QED
    BY SMTT(30), <1>13, <1>20, <2>1, <2>2
<1> QED
  BY Zenon, <1>14, <1>15, <1>16, <1>17, <1>18, <1>19, <1>20 DEF Ready

LEMMA GoodButNone ==
    ASSUME NEW s
    PROVE  Good(s) <=> GoodBut(s, {})
BY DEF Good, GoodBut

LEMMA GoodButLess ==
    ASSUME NEW s, Good(s), NEW L
    PROVE  GoodBut(s, L)
BY DEF Good, GoodBut

\* After addFdbEntry only the peer's row of a MAC that became this switch's is
\* wrong, and that only if the request is done.
LEMMA addFdbEntryGood ==
    ASSUME NEW s, Good(s), NEW m \in Mac, NEW d, DataOk(s, d),
           d.port = Tunnel => d.dest = Vtep \/ Tunnel \in s.members, NEW fits \in BOOLEAN
    PROVE  LET r == addFdbEntry(s, m, d, fits)
           IN  /\ GoodBut(r.s, Leaves(d, m, s.ent[m])) /\ (~r.ok => Good(r.s))
               /\ r.s.members = s.members /\ NotStale(r.s) = NotStale(s)
<1> PICK old : old = s.ent[m]
  OBVIOUS
<1> PICK b : b = s.bp[d.port]
  OBVIOUS
<1> PICK r : r = addFdbEntry(s, m, d, fits)
  OBVIOUS
<1> PICK moves : moves = MovesToVtep(d, b, old)
  OBVIOUS
<1>0. Fine(s) /\ s \in State /\ d.port \in Port
  BY DEF Good, Fine, DataOk
<1> SUFFICES /\ GoodBut(r.s, Leaves(d, m, old)) /\ (~r.ok => Good(r.s))
             /\ r.s.members = s.members /\ NotStale(r.s) = NotStale(s)
  OBVIOUS
<1>1. CASE b = NoBp \/ (d.dest = Vtep /\ Tunnel \notin s.members)
  <2> PICK t : t = Save(s, d.port, m, d)
    OBVIOUS
  <2>1. r.s = t
    BY <1>1 DEF addFdbEntry
  <2>2. Ledger(s, t, 0, 0, 0) /\ SameEnts(s, t)
    BY <1>0, SaveLedger
  <2>3. Good(t) /\ t.members = s.members /\ NotStale(t) = NotStale(s)
    BY <2>2 DEF Good, Ledger, SameEnts
  <2> QED
    BY <2>1, <2>3, GoodButLess
<1>2. CASE r.s = s
  BY <1>2, GoodButLess
<1>3. CASE r.s = SetType(s, m, "dynamic_control_learn") /\ old # NoEntry
  <2> PICK t : t = SetType(s, m, "dynamic_control_learn")
    OBVIOUS
  <2>1. "dynamic_control_learn" \in Types
    BY DEF Types
  <2>2. Calm(s, t)
    BY <1>0, <1>3, <2>1, SetTypeCalm
  <2>3. Good(t) /\ t.members = s.members /\ NotStale(t) = NotStale(s)
    BY <2>2, CalmGood DEF Calm, SameBooks, NotStale
  <2> QED
    BY <1>3, <2>3, GoodButLess
<1>4. CASE b # NoBp /\ old # NoEntry /\ r.s = UpdateMac(s, m, d, b, old) /\ r.ok
  BY <1>4, UpdateMacGood
<1>5. CASE b # NoBp /\ old = NoEntry /\ r.s = CreateMac(s, m, d, old) /\ r.ok
  <2>1. Ready(s, m, old)
    BY <1>0, <1>5, RowsOfEntry DEF Good, Ready, Has
  <2> QED
    BY <1>5, <2>1, CreateMacGood
<1> DEFINE Removed == RemoveForMove(s, m, old)
<1>6. CASE moves /\ b # NoBp /\ ~(d.dest = Vtep /\ Tunnel \notin s.members)
  <2> PICK u : u = Removed
    OBVIOUS
  <2>1. old.origin \in {"learn", "vxlan"}
    BY <1>6 DEF MovesToVtep
  <2>2. /\ Ready(u, m, old) /\ PeerRowOk(u, m) /\ NotStale(u) = NotStale(s)
        /\ u.members = s.members
        /\ \A p \in Port : p # Tunnel \/ Tunnel \in s.members => u.bp[p] = s.bp[p]
    BY <2>1, RemoveForMoveReady
  <2>3. u.bp[d.port] = b /\ DataOk(u, d)
    BY <1>0, <1>6, <2>2 DEF DataOk
  <2>4. CASE r.s = CreateMac(u, m, d, old) /\ r.ok
    <3>1. LET t == CreateMac(u, m, d, old)
          IN  GoodBut(t, Leaves(d, m, old)) /\ t.members = u.members /\ NotStale(t) = NotStale(u)
      BY <1>6, <2>2, <2>3, CreateMacGood
    <3> QED
      BY <2>2, <2>4, <3>1
  <2>5. CASE r.s = Count(u, "torn", m)
    <3> PICK t : t = Count(u, "torn", m)
      OBVIOUS
    <3>1. Ledger(u, t, 0, 0, -1) /\ SameEnts(u, t) /\ RowOk(t, m)
      BY <2>2, CountTornLedger DEF Ready
    <3>2. Has(old) = 1
      BY <2>1, NoEntryFacts DEF Has
    <3>3. Good(t)
      BY <2>2, <3>1, <3>2 DEF Good, Ready, Ledger
    <3> QED
      BY <2>2, <2>5, <3>1, <3>3, GoodButLess DEF Ledger, SameEnts
  <2>6. b # NoBp /\ moves =>
        \/ r.s = s
        \/ r.s = SetType(s, m, "dynamic_control_learn") /\ old # NoEntry
        \/ r.s = CreateMac(u, m, d, old) /\ r.ok
        \/ r.s = Count(u, "torn", m)
    BY <1>6, <2>1, NoEntryFacts DEF addFdbEntry, SetType
  <2> QED
    BY <1>2, <1>3, <1>6, <2>4, <2>5, <2>6
<1>7. CASE ~moves /\ b # NoBp /\ ~(d.dest = Vtep /\ Tunnel \notin s.members)
  <2>1. \/ r.s = s
        \/ r.s = SetType(s, m, "dynamic_control_learn") /\ old # NoEntry
        \/ old # NoEntry /\ r.s = UpdateMac(s, m, d, b, old) /\ r.ok
        \/ old = NoEntry /\ r.s = CreateMac(s, m, d, old) /\ r.ok
    BY <1>7, NoEntryFacts DEF addFdbEntry, SetType
  <2> QED
    BY <1>2, <1>3, <1>4, <1>5, <1>7, <2>1
<1>8. moves \in BOOLEAN
  BY DEF MovesToVtep
<1> QED
  BY <1>1, <1>6, <1>7, <1>8

LEMMA PeerRowGoneGood ==
    ASSUME NEW s, NEW m \in Mac, NEW L, L \subseteq {m}, GoodBut(s, L)
    PROVE  Good(PeerRowGone(s, m))
<1> PICK t : t = PeerRowGone(s, m)
  OBVIOUS
<1>1. Ledger(s, t, 0, 0, 0) /\ PeerRowOk(t, m)
  BY PeerRowGoneLedger DEF GoodBut
<1> QED
  BY <1>1 DEF Good, GoodBut, Ledger

LEMMA RemoveMacGood ==
    ASSUME NEW s, Good(s), NEW m \in Mac, s.ent[m] # NoEntry
    PROVE  GoodBut(RemoveMac(s, m, s.ent[m]), IF s.ent[m].origin = "mclag" THEN {m} ELSE {})
<1> PICK old : old = s.ent[m]
  OBVIOUS
<1>0. Fine(s) /\ s \in State
  BY DEF Good, Fine
<1> PICK w : w = RemoveEntry(s, m)
  OBVIOUS
<1>1. Silent(s, w)
  BY <1>0, RemoveEntrySilent
<1>2. Good(w) /\ Fine(w) /\ w.ent = s.ent
  BY <1>1, CalmGood DEF Silent, Good
<1> PICK w1 : w1 = CountVlan(w, -1)
  OBVIOUS
<1>3. Ledger(w, w1, -1, 0, 0) /\ SameEnts(w, w1)
  BY <1>2, CountVlanLedger
<1> PICK w2 : w2 = CountAt(w1, old.bp, -1)
  OBVIOUS
<1>4. Ledger(w1, w2, 0, AtTunnelBp(old.bp) * (-1), 0) /\ SameEnts(w1, w2)
  BY <1>3, CountTunnelLedger DEF Ledger
<1>5. Fine(w2) /\ w2.ent[m] = old /\ NotStale(w2) = NotStale(w)
  BY <1>2, <1>3, <1>4 DEF Ledger, SameEnts
<1> PICK w3 : w3 = Deleted(w2, m)
  OBVIOUS
<1>6. /\ Fine(w3) /\ NotStale(w3) = NotStale(w2) /\ VlanOff(w3) = VlanOff(w2) + 1
      /\ TunnelOff(w3) = TunnelOff(w2) + AtTunnelBp(old.bp) /\ CrmOff(w3) = CrmOff(w2)
      /\ \A x \in Mac : (RowOk(w2, x) => RowOk(w3, x)) /\ (x # m /\ PeerRowOk(w2, x) => PeerRowOk(w3, x))
      /\ PeerRowOk(w2, m) /\ old.origin # "mclag" => PeerRowOk(w3, m)
  BY <1>5, DeletedBooks
<1>7. VlanOff(w2) = -1 /\ CrmOff(w2) = 0 /\ (NotStale(w) => TunnelOff(w2) = 0 - AtTunnelBp(old.bp))
  BY <1>2, <1>3, <1>4, AtTunnelBpType DEF Good, Ledger
<1>8. VlanOff(w3) = 0 /\ CrmOff(w3) = 0 /\ (NotStale(w3) => TunnelOff(w3) = 0)
  BY <1>5, <1>6, <1>7, AtTunnelBpType
<1>9. \A x \in Mac : RowOk(w2, x) /\ PeerRowOk(w2, x)
  BY <1>2, <1>3, <1>4 DEF Good, Ledger
<1> PICK t : t = notifyTunnelOrch(w3, old.bp[1])
  OBVIOUS
<1>10. Keeps(w3, t, Tunnel)
  BY SMTT(30), <1>6, <1>8, notifyTunnelOrchKeeps DEF Notified
<1>11. RemoveMac(s, m, old) = t
  BY <1>5 DEF RemoveMac, Deleted
<1>12. Fine(t) /\ Steady(w3, t)
  BY <1>10 DEF Keeps
<1>13. VlanOff(t) = 0 /\ CrmOff(t) = 0 /\ (NotStale(t) => TunnelOff(t) = 0)
  BY <1>8, <1>12 DEF Steady
<1>14. ASSUME NEW x \in Mac
       PROVE  RowOk(t, x) /\ (x # m \/ old.origin # "mclag" => PeerRowOk(t, x))
  BY <1>6, <1>9, <1>12 DEF Steady
<1>15. GoodBut(t, IF old.origin = "mclag" THEN {m} ELSE {})
  BY <1>12, <1>13, <1>14 DEF GoodBut
<1> QED
  BY <1>11, <1>15

\* After removeFdbEntry only the row of a MAC of the peer is left, if it is done.
LEMMA removeFdbEntryGood ==
    ASSUME NEW s, Good(s), NEW m \in Mac, NEW origin, NEW p \in Port
    PROVE  LET r == removeFdbEntry(s, m, origin, p)
           IN  GoodBut(r.s, IF r.ok /\ origin = "mclag" THEN {m} ELSE {})
<1> PICK e : e = s.ent[m]
  OBVIOUS
<1> PICK r : r = removeFdbEntry(s, m, origin, p)
  OBVIOUS
<1>0. Fine(s) /\ s \in State
  BY DEF Good, Fine
<1> SUFFICES GoodBut(r.s, IF r.ok /\ origin = "mclag" THEN {m} ELSE {})
  OBVIOUS
<1>1. CASE r.s = deleteFdbEntryFromSavedFDB(s, m, origin, p)
  <2> PICK t : t = deleteFdbEntryFromSavedFDB(s, m, origin, p)
    OBVIOUS
  <2>1. Ledger(s, t, 0, 0, 0)
    BY <1>0, deleteFdbEntryFromSavedFDBLedger
  <2>2. Good(t)
    BY <2>1 DEF Good, Ledger
  <2> QED
    BY <1>1, <2>2, GoodButLess
<1>2. CASE r.s = s
  BY <1>2, GoodButLess
<1>3. CASE e # NoEntry /\ r.s = clearFdbEntry(s, m)
  <2>1. Good(r.s)
    BY <1>3, clearFdbEntryGood
  <2> QED
    BY <2>1, GoodButLess
<1>4. CASE e # NoEntry /\ r.s = SetType(s, m, "dynamic")
  <2>1. Calm(s, SetType(s, m, "dynamic"))
    BY <1>0, <1>4, SetTypeCalm DEF Types
  <2>2. Good(r.s)
    BY <1>4, <2>1, CalmGood
  <2> QED
    BY <2>2, GoodButLess
<1>5. CASE e # NoEntry /\ r.s = RemoveMac(s, m, e) /\ r.ok /\ (e.origin = "mclag" => origin = "mclag")
  <2>1. GoodBut(r.s, IF e.origin = "mclag" THEN {m} ELSE {})
    BY <1>5, RemoveMacGood
  <2> QED
    BY <1>5, <2>1 DEF GoodBut
<1>6. \/ r.s = deleteFdbEntryFromSavedFDB(s, m, origin, p)
      \/ r.s = s
      \/ e # NoEntry /\ r.s = clearFdbEntry(s, m)
      \/ e # NoEntry /\ r.s = SetType(s, m, "dynamic")
      \/ e # NoEntry /\ r.s = RemoveMac(s, m, e) /\ r.ok /\ (e.origin = "mclag" => origin = "mclag")
  BY DEF removeFdbEntry, SetType
<1> QED
  BY <1>1, <1>2, <1>3, <1>4, <1>5, <1>6

LEMMA RacesGood ==
    ASSUME NEW s, Good(s), NEW m \in Mac
    PROVE  LET t == Races(s, m)
           IN  Good(t) /\ t.ent = s.ent /\ t.members = s.members /\ NotStale(t) = NotStale(s)
<1>1. s \in State
  BY DEF Good, Fine
<1>2. Silent(s, Races(s, m))
  BY <1>1, RacesSilent
<1> QED
  BY <1>2, CalmGood DEF Silent, Calm, SameBooks, NotStale

LEMMA ExcuseLateGood ==
    ASSUME NEW s, NEW m \in Mac, NEW L, L \subseteq {m}, GoodBut(s, L)
    PROVE  LET t == Excuse(s, "late", {m})
           IN  Good(t) /\ t.members = s.members /\ NotStale(t) = NotStale(s)
<1> PICK t : t = Excuse(s, "late", {m})
  OBVIOUS
<1>1. Ledger(s, t, 0, 0, 0) /\ SameEnts(s, t) /\ PeerRowOk(t, m)
  BY ExcuseLateLedger DEF GoodBut
<1>2. \A y \in Mac : y \notin L \/ y = m
  OBVIOUS
<1>3. Good(t)
  BY <1>1, <1>2 DEF Good, GoodBut, Ledger
<1> QED
  BY <1>1, <1>3 DEF Ledger, SameEnts

LEMMA ExcuseDroppedGood ==
    ASSUME NEW s, NEW m \in Mac, Good(s), NEW x \in {"dropped", "superseded"}
    PROVE  LET t == Excuse(s, x, {m})
           IN  Good(t) /\ t.members = s.members /\ NotStale(t) = NotStale(s)
<1> PICK M : M = {m}
  OBVIOUS
<1> PICK t : t = Excuse(s, x, M)
  OBVIOUS
<1>1. Calm(s, t)
  BY ExcuseSilent DEF Silent, Good, Fine
<1>2. Good(t)
  BY <1>1, CalmGood
<1> QED
  BY <1>1, <1>2 DEF Calm, SameBooks, NotStale

LEMMA AddOneSavedGood ==
    ASSUME NEW s, NEW x, x.mac \in Mac, NEW r,
           GoodBut(r.s, Leaves(x.data, x.mac, s.ent[x.mac])), ~r.ok => Good(r.s),
           r.s.members = s.members, NotStale(r.s) = NotStale(s)
    PROVE  LET t == AddOneSaved(s, x, r)
           IN  Good(t) /\ t.members = s.members /\ NotStale(t) = NotStale(s)
<1>0. CASE Outdated(x)
  <2>1. Leaves(x.data, x.mac, s.ent[x.mac]) = {}
    BY <1>0 DEF Leaves, Own, Outdated
  <2>2. Good(r.s)
    BY <2>1, GoodButNone
  <2> QED
    BY <1>0, <2>2, ExcuseDroppedGood DEF AddOneSaved
<1>1. CASE ~Outdated(x) /\ ~r.ok
  BY <1>1, ExcuseDroppedGood DEF AddOneSaved
<1>2. CASE ~Outdated(x) /\ r.ok /\ x.data.type = "dynamic_local" /\ s.ent[x.mac].origin = "mclag"
  <2>1. Leaves(x.data, x.mac, s.ent[x.mac]) \subseteq {x.mac}
    BY DEF Leaves
  <2> QED
    BY <1>2, <2>1, ExcuseLateGood DEF AddOneSaved
<1>3. CASE ~Outdated(x) /\ r.ok /\ ~(x.data.type = "dynamic_local" /\ s.ent[x.mac].origin = "mclag")
  <2>1. Leaves(x.data, x.mac, s.ent[x.mac]) = {}
    BY <1>3 DEF Leaves, Own
  <2>2. Good(r.s)
    BY <2>1, GoodButNone
  <2> QED
    BY <1>3, <2>2 DEF AddOneSaved
<1> QED
  BY <1>0, <1>1, <1>2, <1>3

LEMMA AddNextGood ==
    ASSUME NEW s, Good(s), NEW p \in Port, p \in s.members, NEW x \in Saved(p),
           NotStale(s) /\ p = Tunnel => x \in SavedVxlan
    PROVE  LET t == AddNext(s, x)
           IN  Good(t) /\ t.members = s.members /\ NotStale(t) = NotStale(s)
<1>0. x.mac \in Mac /\ x.data \in SavedData(p) /\ x.data.port = p
  BY DEF Saved, SavedData
<1>1. ASSUME NEW w, Good(w), w.ent = s.ent, w.members = s.members, NotStale(w) = NotStale(s)
      PROVE  LET t == AddOneSaved(s, x, addFdbEntry(w, x.mac, x.data, TRUE))
             IN  Good(t) /\ t.members = s.members /\ NotStale(t) = NotStale(s)
  <2>1. DataOk(w, x.data)
    BY <1>0, <1>1 DEF DataOk, SavedVxlan
  <2>2. x.data.port = Tunnel => x.data.dest = Vtep \/ Tunnel \in w.members
    BY <1>0, <1>1
  <2>3. TRUE \in BOOLEAN
    OBVIOUS
  <2>4. LET r == addFdbEntry(w, x.mac, x.data, TRUE)
        IN  /\ GoodBut(r.s, Leaves(x.data, x.mac, w.ent[x.mac])) /\ (~r.ok => Good(r.s))
            /\ r.s.members = w.members /\ NotStale(r.s) = NotStale(w)
    BY <1>0, <1>1, <2>1, <2>2, <2>3, addFdbEntryGood, Zenon
  <2>5. LET r == addFdbEntry(w, x.mac, x.data, TRUE)
        IN  /\ GoodBut(r.s, Leaves(x.data, x.mac, s.ent[x.mac])) /\ (~r.ok => Good(r.s))
            /\ r.s.members = s.members /\ NotStale(r.s) = NotStale(s)
    BY <1>1, <2>4
  <2> QED
    BY <1>0, <2>5, AddOneSavedGood
<1>2. LET w == Races(s, x.mac)
      IN  Good(w) /\ w.ent = s.ent /\ w.members = s.members /\ NotStale(w) = NotStale(s)
  BY <1>0, RacesGood
<1> QED
  BY <1>1, <1>2 DEF AddNext

\* updateVlanMember tries one saved entry after the other, and after each the
\* books are right.
LEMMA AddSavedGood ==
    ASSUME NEW s, Good(s), NEW p \in Port, p \in s.members
    PROVE  Good(AddSaved(s, p))
<1> PICK q : q = s.saved[p]
  OBVIOUS
<1>0. q \in Seq(Saved(p)) /\ (NotStale(s) /\ p = Tunnel => q \in Seq(SavedVxlan))
  BY DEF Good, Fine, SavedOk
<1> PICK F : F = DOMAIN q
  OBVIOUS
<1> PICK n \in Nat : n = Len(q)
  BY <1>0, LenProperties
<1>1. F = 1 .. n
  BY <1>0, LenProperties
<1>2. IsFiniteSet(F)
  BY <1>1, FS_Interval, 1 \in Int, n \in Int
<1>3. \A i \in F : q[i] \in Saved(p) /\ (NotStale(s) /\ p = Tunnel => q[i] \in SavedVxlan)
  BY <1>0, <1>1, ElementOfSeq
<1> PICK z : z = SetSaved(s, p, <<>>)
  OBVIOUS
<1>4. Good(z) /\ z.members = s.members /\ NotStale(z) = NotStale(s)
  <2>1. <<>> \in Seq(Saved(p)) /\ <<>> \in Seq(SavedVxlan)
    OBVIOUS
  <2>2. Ledger(s, z, 0, 0, 0) /\ SameEnts(s, z)
    BY <2>1, OneSavedLedger DEF Good
  <2> QED
    BY <2>2 DEF Good, Ledger, SameEnts
<1>5. \E h : SavedIs(h, z, q, F)
  BY <1>1, SavedFold
<1>6. ASSUME NEW h, SavedIs(h, z, q, F)
      PROVE  Good(h[F])
  <2> DEFINE Tried(M) == Good(h[M]) /\ h[M].members = s.members /\ NotStale(h[M]) = NotStale(s)
  <2> PICK S : S = {M \in SUBSET F : Tried(M)}
    OBVIOUS
  <2>1. \A M \in SUBSET F : h[M] = SavedValue(h, z, q, M)
    BY <1>6 DEF SavedIs
  <2>2. {} \in S
    <3>1. h[{}] = z
      BY <2>1 DEF SavedValue
    <3> QED
      BY <1>4, <3>1
  <2>3. ASSUME NEW M \in SUBSET F, M # {} PROVE Max(M) \in M
    BY <1>1, <2>3, MaxExists
  <2>4. ASSUME NEW M \in SUBSET F, M # {}, SavedRest(M) \in S PROVE M \in S
    <3> PICK a : a = h[SavedRest(M)]
      OBVIOUS
    <3>1. Good(a) /\ a.members = s.members /\ NotStale(a) = NotStale(s)
      BY <2>4
    <3> PICK x : x = q[Max(M)]
      OBVIOUS
    <3>2. x \in Saved(p) /\ (NotStale(a) /\ p = Tunnel => x \in SavedVxlan)
      BY <1>3, <2>3, <2>4, <3>1
    <3> PICK c : c = AddNext(a, x)
      OBVIOUS
    <3>3. Good(c) /\ c.members = a.members /\ NotStale(c) = NotStale(a)
      BY <3>1, <3>2, AddNextGood
    <3>4. h[M] = c
      BY <2>1, <2>4 DEF SavedValue
    <3>5. Tried(M)
      BY <3>1, <3>3, <3>4
    <3> QED
      BY <3>5
  <2>5. ASSUME NEW M \in SUBSET F, \A N \in SUBSET M : N # M => N \in S PROVE M \in S
    <3>1. CASE M = {}
      BY <2>2, <3>1
    <3>2. CASE M # {}
      <4>1. SavedRest(M) \in SUBSET M /\ SavedRest(M) # M
        BY <2>3, <3>2 DEF SavedRest
      <4> QED
        BY <2>4, <2>5, <3>2, <4>1
    <3> QED
      BY <3>1, <3>2
  <2>6. F \in S
    <3> HIDE DEF Tried
    <3> QED
      BY <1>2, <2>5, FiniteInduct
  <2> QED
    BY <2>6
<1>7. AddSaved(s, p) = (CHOOSE h : SavedIs(h, z, q, F))[F]
  BY DEF SavedIs, AddSaved, FoldLeft, MapThenFoldSet, SavedValue, SavedRest, AddNext, SetSaved
<1> QED
  BY <1>5, <1>6, <1>7

-----------------------------------------------------------------------------
(* The actions                                                             *)

\* A port joins the VLAN with bridge port b.
Joined(s, p, b) == [s EXCEPT !.bp[p] = b, !.members = @ \cup {p}]

LEMMA JoinedGood ==
    ASSUME NEW s, Good(s), NEW p \in Port, NEW b \in BridgePorts, b[1] = p,
           s.bp[p] # NoBp => b = s.bp[p]
    PROVE  Good(Joined(s, p, b)) /\ p \in Joined(s, p, b).members
<1>0. Fine(s) /\ s \in State
  BY DEF Good, Fine
<1> PICK f : f = [s.bp EXCEPT ![p] = b]
  OBVIOUS
<1> PICK M : M = s.members \cup {p}
  OBVIOUS
<1>1. f \in [Port -> BridgePorts \cup {NoBp}] /\ M \subseteq Port /\ f[p] = b
      /\ \A q \in Port : q # p => f[q] = s.bp[q]
  BY <1>0 DEF State
<1> PICK t : t = Joined(s, p, b)
  OBVIOUS
<1>2. t = [s EXCEPT !.bp = f, !.members = M]
  BY <1>0 DEF Joined, State
<1>3. t \in State
  <2> PICK u : u = [s EXCEPT !.bp = f]
    OBVIOUS
  <2>1. u \in State
    BY <1>0, <1>1 DEF State
  <2>2. t = [u EXCEPT !.members = M] /\ M \in SUBSET Port
    BY <1>0, <1>1, <1>2 DEF State
  <2> QED
    BY <2>1, <2>2 DEF State
<1>4. /\ t.ent = s.ent /\ t.saved = s.saved /\ t.bp = f /\ t.members = M /\ t.vlan = s.vlan
      /\ t.tunnel = s.tunnel /\ t.crm = s.crm /\ t.state = s.state /\ t.mclag = s.mclag
      /\ t.excused = s.excused
  BY <1>0, <1>2 DEF State
<1>5. Ents(t) = Ents(s) /\ AtTunnel(t) = AtTunnel(s) /\ NotStale(t) = NotStale(s) /\ Torn(t) = Torn(s)
  BY <1>4 DEF Ents, AtTunnel, NotStale, Torn
<1>6. PortsOk(t)
  <2>1. b # NoBp
    BY NoEntryFacts
  <2>2. PortsOk(s)
    BY <1>0 DEF Fine
  <2>3. ASSUME NEW q \in Port PROVE t.bp[q] = NoBp \/ t.bp[q][1] = q
    BY <1>1, <1>4, <2>2 DEF PortsOk
  <2>4. ASSUME NEW q \in t.members PROVE t.bp[q] # NoBp
    BY <1>1, <1>4, <2>1, <2>2 DEF PortsOk
  <2> QED
    BY <2>3, <2>4 DEF PortsOk
<1>7. SavedOk(t)
  BY <1>0, <1>4, <1>5 DEF Fine, SavedOk
<1>8. TunnelsOk(t)
  <2> SUFFICES ASSUME NotStale(t), NEW x \in AtTunnel(t)
               PROVE  t.ent[x].bp = t.bp[Tunnel] /\ t.ent[x].origin = "vxlan"
    BY DEF TunnelsOk
  <2>1. x \in Mac /\ x \in AtTunnel(s) /\ NotStale(s) /\ s.ent[x] # NoEntry
    BY <1>5 DEF AtTunnel
  <2>2. s.ent[x].bp = s.bp[Tunnel] /\ s.ent[x].origin = "vxlan"
    BY <1>0, <2>1 DEF Fine, TunnelsOk
  <2>3. s.ent[x].bp \in BridgePorts
    BY <1>0, <2>1 DEF State, Entry
  <2>4. s.bp[Tunnel] # NoBp
    BY <2>2, <2>3, NoEntryFacts
  <2>5. t.bp[Tunnel] = s.bp[Tunnel]
    BY <1>1, <1>4, <2>4, Tunnel \in Port DEF Port
  <2> QED
    BY <1>4, <2>2, <2>5
<1>9. Fine(t)
  BY <1>0, <1>3, <1>4, <1>6, <1>7, <1>8 DEF Fine
<1>10. VlanOff(t) = VlanOff(s) /\ TunnelOff(t) = TunnelOff(s) /\ CrmOff(t) = CrmOff(s)
  BY <1>4, <1>5 DEF VlanOff, TunnelOff, CrmOff
<1>11. ASSUME NEW x \in Mac PROVE RowOk(t, x) /\ PeerRowOk(t, x)
  BY <1>4, <1>5 DEF Good, RowOk, PeerRowOk
<1>12. p \in t.members
  BY <1>4
<1> QED
  BY <1>5, <1>9, <1>10, <1>11, <1>12 DEF Good

\* A port leaves the VLAN.
Parted(s, p) == [s EXCEPT !.members = @ \ {p}]

LEMMA PartedGood ==
    ASSUME NEW s, Good(s), NEW p
    PROVE  LET t == Parted(s, p)
           IN  Good(t) /\ t.members = s.members \ {p} /\ t.tunnel = s.tunnel
<1>0. Fine(s) /\ s \in State
  BY DEF Good, Fine
<1> PICK M : M = s.members \ {p}
  OBVIOUS
<1> PICK t : t = Parted(s, p)
  OBVIOUS
<1>1. t = [s EXCEPT !.members = M] /\ M \subseteq Port /\ M \subseteq s.members
  BY <1>0 DEF Parted, State
<1>3. t \in State
  BY <1>0, <1>1 DEF State
<1>4. /\ t.ent = s.ent /\ t.saved = s.saved /\ t.bp = s.bp /\ t.members = M /\ t.vlan = s.vlan
      /\ t.tunnel = s.tunnel /\ t.crm = s.crm /\ t.state = s.state /\ t.mclag = s.mclag
      /\ t.excused = s.excused
  BY <1>0, <1>1 DEF State
<1>5. Ents(t) = Ents(s) /\ AtTunnel(t) = AtTunnel(s) /\ NotStale(t) = NotStale(s) /\ Torn(t) = Torn(s)
  BY <1>4 DEF Ents, AtTunnel, NotStale, Torn
<1>6. PortsOk(t) /\ SavedOk(t) /\ TunnelsOk(t)
  BY ZenonT(60), <1>0, <1>1, <1>4, <1>5 DEF Fine, PortsOk, SavedOk, TunnelsOk
<1>7. Fine(t)
  BY <1>0, <1>3, <1>4, <1>6 DEF Fine
<1>8. VlanOff(t) = VlanOff(s) /\ TunnelOff(t) = TunnelOff(s) /\ CrmOff(t) = CrmOff(s)
  BY <1>4, <1>5 DEF VlanOff, TunnelOff, CrmOff
<1>9. ASSUME NEW x \in Mac PROVE RowOk(t, x) /\ PeerRowOk(t, x)
  BY <1>4, <1>5 DEF Good, RowOk, PeerRowOk
<1> QED
  BY <1>4, <1>5, <1>7, <1>8, <1>9 DEF Good

LEMMA NoneAtTunnel ==
    ASSUME NEW s, Good(s), s.tunnel = 0, NotStale(s)
    PROVE  AtTunnel(s) = {}
<1>1. Cardinality(AtTunnel(s)) = 0
  BY Counted DEF Good, TunnelOff
<1> QED
  BY <1>1, Counted, FS_EmptySet

LEMMA BecomeGood ==
    ASSUME NEW s, Good(s), Become(s)
    PROVE  Good(Now)'
<1>1. s \in State
  BY DEF Good, Fine
<1>2. Now' = s
  BY <1>1 DEF Become, Now, State
<1> QED
  BY <1>2

\* What the invariant says of the variables.
LEMMA NowFacts ==
    ASSUME Good(Now)
    PROVE  /\ Now \in State /\ Now.events = events /\ Now.bp = bridge_port /\ Now.members = members
           /\ Now.asic = asic /\ Now.tunnel = tunnel_fdb_count
           /\ events \in Seq(Notifications)
           /\ \A p \in Port : bridge_port[p] \in BridgePorts \cup {NoBp}
           /\ \A p \in members : p \in Port /\ bridge_port[p] \in BridgePorts /\ bridge_port[p][1] = p
           /\ \A m \in Mac : asic[m] \in AsicEntry \cup {NoEntry}
<1>1. Now \in State /\ PortsOk(Now)
  BY DEF Good, Fine
<1>2. /\ Now.events = events /\ Now.bp = bridge_port /\ Now.members = members
      /\ Now.asic = asic /\ Now.tunnel = tunnel_fdb_count
  BY DEF Now
<1>3. /\ Now.events \in Seq(Notifications) /\ Now.members \subseteq Port
      /\ \A p \in Port : Now.bp[p] \in BridgePorts \cup {NoBp}
      /\ \A m \in Mac : Now.asic[m] \in AsicEntry \cup {NoEntry}
  BY <1>1 DEF State
<1>4. \A p \in Port : Now.bp[p] = NoBp \/ Now.bp[p][1] = p
  BY <1>1 DEF PortsOk
<1>5. \A p \in Now.members : Now.bp[p] # NoBp
  BY <1>1 DEF PortsOk
<1> QED
  BY <1>1, <1>2, <1>3, <1>4, <1>5

LEMMA CalmStep ==
    ASSUME Inv, NEW t, Calm(Now, t), Become(t), up' \subseteq Phy
    PROVE  Inv'
<1>1. Good(t)
  BY CalmGood DEF Inv
<1>2. Good(Now)'
  BY <1>1, BecomeGood
<1> QED
  BY <1>2 DEF Inv

\* The notification that is handled leaves the queue.
Heard(s) == [s EXCEPT !.events = Tail(@)]

LEMMA HeardSilent ==
    ASSUME NEW s \in State, s.events # <<>>
    PROVE  Silent(s, Heard(s))
<1> PICK q : q = Tail(s.events)
  OBVIOUS
<1>1. q \in Seq(Notifications)
  BY DEF State
<1> PICK t : t = Heard(s)
  OBVIOUS
<1>2. t = [s EXCEPT !.events = q]
  BY DEF Heard, State
<1>3. t \in State
  BY <1>1, <1>2 DEF State
<1>4. /\ t.ent = s.ent /\ t.saved = s.saved /\ t.bp = s.bp /\ t.members = s.members /\ t.vlan = s.vlan
      /\ t.tunnel = s.tunnel /\ t.crm = s.crm /\ t.state = s.state /\ t.mclag = s.mclag
      /\ t.excused = s.excused
  BY <1>2 DEF State
<1> QED
  BY <1>3, <1>4 DEF Silent, Calm, SameBooks, LikeEntry

LEMMA handleNotificationInv ==
    ASSUME Inv, handleNotification
    PROVE  Inv'
<1>0. Good(Now) /\ Now \in State /\ events \in Seq(Notifications) /\ events # <<>> /\ Now.events = events
  BY NowFacts DEF Inv, handleNotification
<1> PICK e : e = Head(events)
  OBVIOUS
<1>1. e \in Notifications
  BY <1>0
<1> PICK w : w = Heard(Now)
  OBVIOUS
<1>2. Good(w)
  BY <1>0, HeardSilent, CalmGood DEF Silent
<1>3. Good(Update(w, e))
  BY <1>1, <1>2, UpdateGood
<1>4. Become(Update(w, e)) /\ up' = up
  BY DEF handleNotification, Heard
<1>5. Good(Now)'
  BY <1>3, <1>4, BecomeGood
<1> QED
  BY <1>4, <1>5 DEF Inv

LEMMA SetFdbInv ==
    ASSUME Inv, NEW m \in Mac, NEW d \in Requests, NEW fits \in BOOLEAN, SetFdb(m, d, fits)
    PROVE  Inv'
<1> PICK w : w = Races(Now, m)
  OBVIOUS
<1>1. Good(w)
  BY RacesGood DEF Inv
<1>2. DataOk(w, d) /\ (d.port = Tunnel => d.dest = Vtep)
  BY RequestsAssumption DEF DataOk, SavedData
<1> PICK r : r = addFdbEntry(w, m, d, fits)
  OBVIOUS
<1>3. GoodBut(r.s, Leaves(d, m, w.ent[m])) /\ (~r.ok => Good(r.s))
  BY <1>1, <1>2, addFdbEntryGood
<1> PICK t : t = IF r.ok /\ Own(d) THEN PeerRowGone(r.s, m) ELSE r.s
  OBVIOUS
<1>4. Leaves(d, m, w.ent[m]) \subseteq {m} /\ (~Own(d) => Leaves(d, m, w.ent[m]) = {})
  BY DEF Leaves
<1>8. Good(t)
  <2>1. CASE r.ok /\ Own(d)
    BY <1>3, <1>4, <2>1, PeerRowGoneGood
  <2>2. CASE ~r.ok
    BY <1>3, <2>2
  <2>3. CASE ~Own(d)
    BY <1>3, <1>4, <2>3, GoodButNone
  <2> QED
    BY <2>1, <2>2, <2>3
<1>9. Become(t) /\ up' = up
  BY DEF SetFdb, PeerRowGone
<1>10. Good(Now)'
  BY <1>8, <1>9, BecomeGood
<1> QED
  BY <1>9, <1>10 DEF Inv

LEMMA DelFdbInv ==
    ASSUME Inv, NEW m \in Mac, NEW origin, NEW p \in Port, DelFdb(m, origin, p)
    PROVE  Inv'
<1> PICK w : w = Races(Now, m)
  OBVIOUS
<1>1. Good(w)
  BY RacesGood DEF Inv
<1> PICK r : r = removeFdbEntry(w, m, origin, p)
  OBVIOUS
<1> PICK L : L = IF r.ok /\ origin = "mclag" THEN {m} ELSE {}
  OBVIOUS
<1>2. GoodBut(r.s, L)
  BY <1>1, removeFdbEntryGood
<1> PICK t : t = IF r.ok /\ origin = "mclag" THEN PeerRowGone(r.s, m) ELSE r.s
  OBVIOUS
<1>5. Good(t)
  <2>1. CASE r.ok /\ origin = "mclag"
    BY <1>2, <2>1, PeerRowGoneGood
  <2>2. CASE ~(r.ok /\ origin = "mclag")
    BY <1>2, <2>2, GoodButNone
  <2> QED
    BY <2>1, <2>2
<1>6. Become(t) /\ up' = up
  BY DEF DelFdb, PeerRowGone
<1>7. Good(Now)'
  BY <1>5, <1>6, BecomeGood
<1> QED
  BY <1>6, <1>7 DEF Inv

LEMMA CrossesGood ==
    ASSUME NEW s, Good(s)
    PROVE  LET t == Crosses(s)
           IN  /\ Good(t) /\ Calm(s, t) /\ t.bp = s.bp /\ t.members = s.members
               /\ t.tunnel = s.tunnel
<1>1. Silent(s, Crosses(s))
  BY CrossesSilent DEF Good, Fine
<1> QED
  BY <1>1, CalmGood DEF Silent, Calm, SameBooks

LEMMA AddVlanMemberInv ==
    ASSUME Inv, NEW p \in Port, AddVlanMember(p)
    PROVE  Inv'
<1>0. Good(Now) /\ Now.bp = bridge_port
  BY NowFacts DEF Inv
<1>1. PICK b \in addBridgePort(p) :
         Become(AddSaved([Crosses(Now) EXCEPT !.bp[p] = b, !.members = @ \cup {p}], p))
  BY Zenon DEF AddVlanMember
<1>2. b \in BridgePorts /\ b[1] = p /\ (bridge_port[p] # NoBp => b = bridge_port[p])
  <2>1. CASE bridge_port[p] # NoBp
    <3>1. b = bridge_port[p]
      BY <1>1, <2>1 DEF addBridgePort
    <3>2. bridge_port[p] \in BridgePorts
      BY <1>0, <2>1, NowFacts
    <3>3. bridge_port[p][1] = p
      BY <1>0, <2>1 DEF Good, Fine, PortsOk
    <3> QED
      BY <3>1, <3>2, <3>3
  <2>2. CASE bridge_port[p] = NoBp
    <3>1. \E n \in 1 .. MaxBridge : b = <<p, n>>
      BY <1>1, <2>2 DEF addBridgePort
    <3>2. \A n \in 1 .. MaxBridge : n \in Nat
      BY BoundsAssumption
    <3> QED
      BY <2>2, <3>1, <3>2 DEF BridgePorts
  <2> QED
    BY <2>1, <2>2
<1> PICK w : w = Crosses(Now)
  OBVIOUS
<1>3. Good(w) /\ w.bp = bridge_port
  BY <1>0, CrossesGood
<1> PICK j : j = Joined(w, p, b)
  OBVIOUS
<1>4. Good(j) /\ p \in j.members
  BY <1>2, <1>3, JoinedGood
<1>5. Good(AddSaved(j, p))
  BY <1>4, AddSavedGood
<1>6. Become(AddSaved(j, p)) /\ up' = up
  BY <1>1 DEF Joined, AddVlanMember
<1>7. Good(Now)'
  BY <1>5, <1>6, BecomeGood
<1> QED
  BY <1>6, <1>7 DEF Inv

LEMMA RemoveVlanMemberInv ==
    ASSUME Inv, NEW p \in Port, RemoveVlanMember(p)
    PROVE  Inv'
<1>0. Good(Now) /\ Now.bp = bridge_port /\ Now.tunnel = tunnel_fdb_count
  BY NowFacts DEF Inv
<1> PICK w : w = Now
  OBVIOUS
<1>1. Good(w) /\ w.bp = bridge_port /\ w.tunnel = tunnel_fdb_count
  BY <1>0
<1> PICK v : v = Parted(w, p)
  OBVIOUS
<1>2. Good(v) /\ v.members = w.members \ {p} /\ v.tunnel = tunnel_fdb_count
  BY <1>1, PartedGood
<1> PICK b : b = w.bp[p]
  OBVIOUS
<1>3. b \in BridgePorts \cup {NoBp}
  BY <1>0, <1>1, NowFacts
<1> PICK u : u = flushFDBEntries(v, b)
  OBVIOUS
<1>4. Calm(v, u)
  BY <1>2, <1>3, flushFDBEntriesCalm DEF Good, Fine
<1>5. Good(u) /\ p \notin u.members /\ u.tunnel = tunnel_fdb_count
  <2>1. Good(u)
    BY <1>2, <1>4, CalmGood
  <2>2. u.members = v.members /\ u.tunnel = v.tunnel
    BY <1>4 DEF Calm, SameBooks
  <2> QED
    BY <1>2, <2>1, <2>2
<1>6. LeavesVlan(w, p) = u
  BY DEF LeavesVlan, Parted
<1> PICK keeps \in BOOLEAN : keeps = (p \in OtherVlans \/ (p = Tunnel /\ tunnel_fdb_count # 0))
  OBVIOUS
<1>7. (IF keeps THEN Become(u) ELSE Become(removeBridgePort(u, p))) /\ up' = up
  BY <1>6 DEF RemoveVlanMember
<1>8. CASE keeps
  BY <1>5, <1>7, <1>8, BecomeGood DEF Inv
<1>9. CASE ~keeps
  <2> PICK t : t = removeBridgePort(u, p)
    OBVIOUS
  <2>1. p = Tunnel /\ NotStale(u) => AtTunnel(u) = {}
    BY <1>5, <1>9, NoneAtTunnel
  <2>2. Keeps(u, t, p)
    BY <1>5, <2>1, removeBridgePortKeeps DEF Good
  <2>3. Good(t)
    BY <1>5, <2>2, KeepsGood
  <2>4. Good(Now)'
    BY <1>7, <1>9, <2>3, BecomeGood
  <2> QED
    BY <1>7, <2>4 DEF Inv
<1> QED
  BY <1>8, <1>9

LEMMA PortDownInv ==
    ASSUME Inv, NEW p \in Phy, PortDown(p)
    PROVE  Inv'
<1>0. Good(Now) /\ Now \in State /\ up \subseteq Phy
  BY NowFacts DEF Inv
<1>1. up' \subseteq Phy
  BY <1>0 DEF PortDown
<1> PICK b : b = bridge_port[p]
  OBVIOUS
<1>2. b \in BridgePorts \cup {NoBp}
  BY <1>0, NowFacts DEF Port
<1>4. Calm(Now, flushFDBEntries(Now, b))
  BY <1>0, <1>2, flushFDBEntriesCalm
<1>5. Calm(Now, Now)
  BY <1>0, SilentSelf DEF Silent
<1>6. Become(Now) \/ Become(flushFDBEntries(Now, b))
  BY DEF PortDown
<1> QED
  BY <1>1, <1>4, <1>5, <1>6, CalmStep

LEMMA PortUpInv ==
    ASSUME Inv, NEW p \in Phy, PortUp(p)
    PROVE  Inv'
<1>0. Good(Now) /\ up \subseteq Phy
  BY DEF Inv
<1>1. up' \subseteq Phy
  BY <1>0 DEF PortUp
<1>2. Become(Now)
  BY DEF PortUp, Become, Now
<1>3. Good(Now)'
  BY <1>0, <1>2, BecomeGood
<1> QED
  BY <1>1, <1>3 DEF Inv

LEMMA FlushRequestInv ==
    ASSUME Inv, NEW b \in BridgePorts \cup {NoBp}, FlushRequest(b)
    PROVE  Inv'
<1>0. Good(Now) /\ Now \in State /\ up \subseteq Phy
  BY NowFacts DEF Inv
<1>2. Calm(Now, flushFDBEntries(Now, b))
  BY <1>0, flushFDBEntriesCalm
<1>3. Become(flushFDBEntries(Now, b)) /\ up' \subseteq Phy
  BY <1>0 DEF FlushRequest
<1> QED
  BY <1>2, <1>3, CalmStep

LEMMA StpFlushInv ==
    ASSUME Inv, StpFlush
    PROVE  Inv'
<1>0. Good(Now) /\ Now \in State /\ up \subseteq Phy
  BY NowFacts DEF Inv
<1>2. Calm(Now, flushFdbByVlan(Now))
  BY <1>0, flushFdbByVlanCalm
<1>3. Become(flushFdbByVlan(Now)) /\ up' \subseteq Phy
  BY <1>0 DEF StpFlush
<1> QED
  BY <1>2, <1>3, CalmStep

\* The ASIC changes its entry of a MAC and tells so.
LEMMA AsicCalm ==
    ASSUME NEW s \in State, NEW w, Silent(s, w), NEW e \in Notifications
    PROVE  Calm(s, Notify(w, e))
<1>1. w \in State
  BY DEF Silent, Calm
<1>2. Silent(w, Notify(w, e))
  BY <1>1, NotifySilent
<1> QED
  BY <1>2, SilentTransitive DEF Silent

LEMMA LearnsInv ==
    ASSUME Inv, NEW m \in Mac, NEW p \in Phy, Learns(m, p)
    PROVE  Inv'
<1>0. Good(Now) /\ Now \in State /\ up \subseteq Phy /\ p \in members
  BY NowFacts DEF Inv, Learns
<1> PICK b : b = bridge_port[p]
  OBVIOUS
<1>1. b \in BridgePorts /\ b \in Phy \X Nat
  BY <1>0, NowFacts DEF BridgePorts
<1> PICK e : e = Event("LEARNED", m, b)
  OBVIOUS
<1>2. e \in Notifications
  BY <1>1 DEF Event, Notifications
<1> PICK w : w = Create(Now, m, b, "dynamic", FALSE)
  OBVIOUS
<1>3. Silent(Now, w)
  BY <1>0, <1>1, "dynamic" \in SaiTypes, FALSE \in BOOLEAN, CreateSilent DEF SaiTypes
<1>4. Calm(Now, Notify(w, e))
  BY <1>0, <1>2, <1>3, AsicCalm
<1>5. Become(Notify(w, e)) /\ up' \subseteq Phy
  BY <1>0 DEF Learns
<1> QED
  BY <1>4, <1>5, CalmStep

LEMMA MovesInv ==
    ASSUME Inv, NEW m \in Mac, NEW p \in Phy, Moves(m, p)
    PROVE  Inv'
<1>0. Good(Now) /\ Now \in State /\ up \subseteq Phy /\ p \in members
  BY NowFacts DEF Inv, Moves
<1> PICK b : b = bridge_port[p]
  OBVIOUS
<1>1. b \in BridgePorts /\ b \in Phy \X Nat
  BY <1>0, NowFacts DEF BridgePorts
<1> PICK e : e = Event("MOVE", m, b)
  OBVIOUS
<1>2. e \in Notifications
  BY <1>1 DEF Event, Notifications
<1> PICK w : w = SetAttributes(Now, m, b, "dynamic", FALSE)
  OBVIOUS
<1>3. Silent(Now, w)
  BY <1>0, <1>1, "dynamic" \in SaiTypes, FALSE \in BOOLEAN, SetAttributesSilent DEF SaiTypes
<1>4. Calm(Now, Notify(w, e))
  BY <1>0, <1>2, <1>3, AsicCalm
<1>5. Become(Notify(w, e)) /\ up' \subseteq Phy
  BY <1>0 DEF Moves
<1> QED
  BY <1>4, <1>5, CalmStep

LEMMA AgesInv ==
    ASSUME Inv, NEW m \in Mac, Ages(m)
    PROVE  Inv'
<1>0. Good(Now) /\ Now \in State /\ up \subseteq Phy /\ asic[m] # NoEntry
  BY NowFacts DEF Inv, Ages
<1> PICK b : b = asic[m].bp
  OBVIOUS
<1>1. b \in BridgePorts
  BY <1>0, NowFacts DEF AsicEntry
<1> PICK e : e = Event("AGED", m, b)
  OBVIOUS
<1>2. e \in Notifications
  BY <1>1 DEF Event, Notifications
<1> PICK v : v = Reorders(Now, m, e)
  OBVIOUS
<1> PICK w : w = RemoveEntry(v, m)
  OBVIOUS
<1>3. Silent(Now, w)
  <2>1. PICK M : M = {m}
    OBVIOUS
  <2>2. Silent(Now, v) /\ v \in State
    BY <1>0, <2>1, ExcuseSilent, SilentSelf DEF Reorders, Silent, Calm
  <2>3. Silent(v, w)
    BY <2>2, RemoveEntrySilent
  <2> QED
    BY <2>2, <2>3, SilentTransitive
<1>4. Calm(Now, Notify(w, e))
  BY <1>0, <1>2, <1>3, AsicCalm
<1>5. Become(Notify(w, e)) /\ up' \subseteq Phy
  BY <1>0 DEF Ages
<1> QED
  BY <1>4, <1>5, CalmStep

LEMMA InitInv ==
    ASSUME Init
    PROVE  Inv
<1> PICK s : s = Now
  OBVIOUS
<1>1. /\ s.ent = [m \in Mac |-> NoEntry] /\ s.saved = [p \in Port |-> <<>>] /\ s.members = Phy
      /\ s.bp = [p \in Port |-> IF p \in Phy THEN <<p, 1>> ELSE NoBp]
      /\ s.vlan = 0 /\ s.tunnel = 0 /\ s.crm = 0
      /\ s.state = [m \in Mac |-> NoPort] /\ s.mclag = [m \in Mac |-> NoPort]
      /\ s.asic = [m \in Mac |-> NoEntry] /\ s.events = <<>> /\ s.excused = [x \in Excuses |-> {}]
  BY DEF Now, Init
<1>2. /\ s.ent \in [Mac -> Entry \cup {NoEntry}] /\ s.asic \in [Mac -> AsicEntry \cup {NoEntry}]
      /\ s.members \in SUBSET Port /\ s.vlan \in Int /\ s.tunnel \in Int /\ s.crm \in Int
      /\ s.state \in [Mac -> Port \cup {NoPort}] /\ s.mclag \in [Mac -> Port \cup {NoPort}]
      /\ s.events \in Seq(Notifications) /\ s.excused \in [Excuses -> SUBSET (Mac \cup (Mac \X Nat))]
  BY <1>1 DEF Port
<1>3. s.saved \in [Port -> Seq(UNION {Saved(p) : p \in Port})]
  BY <1>1
<1>4. s.bp \in [Port -> BridgePorts \cup {NoBp}]
  BY <1>1, 1 \in Nat DEF BridgePorts
<1>5. s = [ent |-> s.ent, saved |-> s.saved, bp |-> s.bp, members |-> s.members, vlan |-> s.vlan,
           tunnel |-> s.tunnel, crm |-> s.crm, state |-> s.state, mclag |-> s.mclag, asic |-> s.asic,
           events |-> s.events, excused |-> s.excused]
  BY DEF Now
<1>6. s \in State
  BY <1>2, <1>3, <1>4, <1>5 DEF State
<1>7. Ents(s) = {} /\ AtTunnel(s) = {}
  BY <1>1 DEF Ents, AtTunnel
<1>8. \A x \in {"strays", "torn", "late", "stale"} : s.excused[x] = {}
  BY <1>1 DEF Excuses, Numbered
<1>9. PortsOk(s)
  <2>1. \A p \in Phy : <<p, 1>> # NoBp
    BY PortsAssumption DEF NoBp, Port, NoPort
  <2> QED
    BY <1>1, <2>1 DEF PortsOk, Port
<1>10. SavedOk(s)
  BY <1>1, Tunnel \in Port DEF SavedOk, Port
<1>11. TunnelsOk(s)
  BY <1>7 DEF TunnelsOk
<1>12. NumberedOk(s.excused["strays"]) /\ NumberedOk(s.excused["torn"])
  BY <1>8, FS_EmptySet DEF NumberedOk
<1>13. VlanOff(s) = 0 /\ CrmOff(s) = 0 /\ TunnelOff(s) = 0
  <2>1. Cardinality(Ents(s)) = 0 /\ Cardinality(AtTunnel(s)) = 0
        /\ Cardinality(s.excused["strays"]) = 0 /\ Cardinality(s.excused["torn"]) = 0
    BY <1>7, <1>8, FS_EmptySet
  <2>2. s.vlan = 0 /\ s.tunnel = 0 /\ s.crm = 0
    BY <1>1
  <2> QED
    BY <2>1, <2>2 DEF VlanOff, CrmOff, TunnelOff
<1>14. ASSUME NEW x \in Mac PROVE RowOk(s, x) /\ PeerRowOk(s, x)
  BY <1>1, NoEntryFacts DEF RowOk, PeerRowOk, Local
<1>15. Good(s)
  BY <1>6, <1>9, <1>10, <1>11, <1>12, <1>13, <1>14 DEF Good, Fine
<1>16. up \subseteq Phy
  BY DEF Init
<1> QED
  BY <1>15, <1>16 DEF Inv

LEMMA NextInv ==
    ASSUME Inv, Next
    PROVE  Inv'
<1>1. CASE handleNotification
  BY <1>1, handleNotificationInv
<1>2. CASE AsicStep
  BY <1>2, AgesInv, LearnsInv, MovesInv DEF AsicStep
<1>3. CASE NotifyingChange
  <2>1. Range(bridge_port) \subseteq BridgePorts \cup {NoBp}
    <3>1. bridge_port \in [Port -> BridgePorts \cup {NoBp}]
      <4>1. Now \in State /\ Now.bp = bridge_port
        BY NowFacts DEF Inv
      <4> QED
        BY <4>1 DEF State
    <3> QED
      BY <3>1 DEF Range
  <2>2. NoBp \in BridgePorts \cup {NoBp}
    OBVIOUS
  <2> QED
    BY <1>3, <2>1, <2>2, RemoveVlanMemberInv, PortDownInv, FlushRequestInv, StpFlushInv DEF NotifyingChange
<1>4. CASE Change
  BY <1>4, PortUpInv, AddVlanMemberInv, SetFdbInv, DelFdbInv DEF Change
<1> QED
  BY <1>1, <1>2, <1>3, <1>4 DEF Next

LEMMA UnchangedInv ==
    ASSUME Inv, UNCHANGED vars
    PROVE  Inv'
<1>1. Become(Now) /\ up' = up
  BY DEF vars, Become, Now
<1>2. Good(Now)'
  BY <1>1, BecomeGood DEF Inv
<1> QED
  BY <1>1, <1>2 DEF Inv

LEMMA InvConsistent ==
    ASSUME Inv
    PROVE  Consistent
<1> PICK s : s = Now
  OBVIOUS
<1>0. Good(s) /\ Fine(s) /\ s \in State /\ PortsOk(s) /\ up \subseteq Phy
  BY DEF Inv, Good, Fine
<1>1. /\ s.ent = m_entries /\ s.bp = bridge_port /\ s.members = members /\ s.vlan = vlan_fdb_count
      /\ s.tunnel = tunnel_fdb_count /\ s.crm = crm /\ s.state = stateTable /\ s.mclag = mclagTable
      /\ s.asic = asic /\ s.events = events /\ s.excused = excused
  BY DEF Now
<1>2. TypeOK
  <2>1. ASSUME NEW m \in Mac
        PROVE  /\ m_entries[m].origin \in {"none", "learn", "provisioned", "mclag", "vxlan"}
               /\ m_entries[m].sai \in {"none", "dynamic", "static"}
               /\ asic[m].origin \in {"none", "asic"}
               /\ {stateTable[m], mclagTable[m]} \subseteq Port \cup {NoPort}
    <3>1. m_entries[m] \in Entry \cup {NoEntry} /\ asic[m] \in AsicEntry \cup {NoEntry}
          /\ stateTable[m] \in Port \cup {NoPort} /\ mclagTable[m] \in Port \cup {NoPort}
      BY <1>0, <1>1 DEF State
    <3> QED
      BY <3>1 DEF Entry, AsicEntry, NoEntry, Origins, SaiTypes
  <2>2. \A p \in Port : bridge_port[p] = NoBp \/ bridge_port[p][1] = p
    BY <1>0, <1>1 DEF PortsOk
  <2>3. members \subseteq {p \in Port : bridge_port[p] # NoBp}
    BY <1>0, <1>1 DEF PortsOk, State
  <2>4. {vlan_fdb_count, tunnel_fdb_count, crm} \subseteq Int
    BY <1>0, <1>1 DEF State
  <2>5. ASSUME NEW i \in DOMAIN events, events[i].type \in {"LEARNED", "MOVE"}
        PROVE  events[i].bp[1] \in Phy
    <3>1. events \in Seq(Notifications)
      BY <1>0, <1>1 DEF State
    <3>2. events[i] \in Notifications
      BY <3>1, ElementOfSeq, LenProperties
    <3> QED
      BY <2>5, <3>2 DEF Notifications
  <2> QED
    BY <1>0, <2>1, <2>2, <2>3, <2>4, <2>5 DEF TypeOK
<1>3. Ents(s) = Entries /\ AtTunnel(s) = {m \in Entries : m_entries[m].bp[1] = Tunnel}
      /\ NotStale(s) = (excused["stale"] = {})
  BY <1>1 DEF Ents, AtTunnel, Entries, NotStale
<1>4. Cardinality(excused["strays"]) \in Nat /\ Cardinality(excused["torn"]) \in Nat
  BY <1>0, <1>1, FS_CardinalityType DEF Fine, NumberedOk
<1>5. vlan_fdb_count \in Int /\ tunnel_fdb_count \in Int /\ crm \in Int
  BY <1>0, <1>1 DEF State
<1>6. VlanCountExact
  BY <1>0, <1>1, <1>3, <1>4, <1>5, Counted DEF Good, VlanOff, VlanCountExact
<1>7. TunnelCountExact
  <2> SUFFICES ASSUME excused["stale"] = {}
               PROVE  /\ tunnel_fdb_count = Cardinality({m \in Entries : m_entries[m].bp[1] = Tunnel})
                      /\ \A m \in Entries : m_entries[m].bp[1] = Tunnel => m_entries[m].bp = bridge_port[Tunnel]
    BY DEF TunnelCountExact
  <2>1. NotStale(s)
    BY <1>3
  <2>2. tunnel_fdb_count = Cardinality(AtTunnel(s))
    BY <1>0, <1>1, <1>5, <2>1, Counted DEF Good, TunnelOff
  <2>3. \A m \in AtTunnel(s) : m_entries[m].bp = bridge_port[Tunnel]
    BY <1>0, <1>1, <2>1 DEF Fine, TunnelsOk
  <2> QED
    BY <1>3, <2>2, <2>3
<1>8. StateDbExact
  <2>1. Excused({"torn"}) = Torn(s)
    BY <1>1 DEF Excused, Numbered, Torn
  <2>2. ASSUME NEW m \in Mac, m \notin Excused({"torn"})
        PROVE  stateTable[m] = IF Local(m_entries[m].origin) THEN m_entries[m].bp[1] ELSE NoPort
    BY <1>0, <1>1, <2>1, <2>2 DEF Good, RowOk
  <2>3. ASSUME NEW m \in Mac, m \notin excused["late"], mclagTable[m] # NoPort
        PROVE  m_entries[m].origin = "mclag"
    BY <1>0, <1>1, <2>3 DEF Good, PeerRowOk
  <2>4. crm = Cardinality(Entries) + Cardinality(excused["torn"])
    BY <1>0, <1>1, <1>3, <1>4, <1>5, Counted DEF Good, CrmOff
  <2> QED
    BY <2>2, <2>3, <2>4 DEF StateDbExact
<1> QED
  BY <1>2, <1>6, <1>7, <1>8 DEF Consistent

\* What FdbOrch derives from its cache says what the cache says, whatever
\* requests, notifications, flushes and changes of ports come in whatever order,
\* for any number of MACs and ports: vlan_fdb_count, which removeVlan looks at, is
\* the number of the entries less the LEARNs that were counted down by mistake; the
\* counter of the tunnel, at whose 0 the tunnel is deleted, is the number of the
\* entries at it; STATE_DB has a row for every local entry, at its port, and for
\* no other; the rows of the MCLAG peer are the peer's; CRM counts the entries.
THEOREM FdbConsistent == Spec => []Consistent
<1>1. Init => Inv
  BY InitInv
<1>2. Inv /\ [Next]_vars => Inv'
  BY NextInv, UnchangedInv
<1>3. Inv => Consistent
  BY InvConsistent
<1> QED
  BY <1>1, <1>2, <1>3, PTL DEF Spec

-----------------------------------------------------------------------------
(* The queue of notifications as an ordered set: what Notify and the       *)
(* handling of the first one do to it                                      *)

Ev(q) == {q[i] : i \in DOMAIN q}
Before(q, x, y) == \E i, j \in DOMAIN q : i < j /\ q[i] = x /\ q[j] = y
Distinct(q) == \A i, j \in DOMAIN q : q[i] = q[j] => i = j

LEMMA BeforeOrder ==
    ASSUME NEW S, NEW q \in Seq(S), Distinct(q)
    PROVE  /\ \A x, y : Before(q, x, y) => x \in Ev(q) /\ y \in Ev(q) /\ x # y /\ ~Before(q, y, x)
           /\ \A x, y, z : Before(q, x, y) /\ Before(q, y, z) => Before(q, x, z)
           /\ \A x, y \in Ev(q) : x = y \/ Before(q, x, y) \/ Before(q, y, x)
<1>0. DOMAIN q = 1 .. Len(q) /\ Len(q) \in Nat
  OBVIOUS
<1>1. ASSUME NEW x, NEW y, Before(q, x, y) PROVE x \in Ev(q) /\ y \in Ev(q) /\ x # y /\ ~Before(q, y, x)
  <2>1. PICK i, j \in DOMAIN q : i < j /\ q[i] = x /\ q[j] = y
    BY <1>1 DEF Before
  <2>2. x # y
    BY <1>0, <2>1 DEF Distinct
  <2>3. ASSUME Before(q, y, x) PROVE FALSE
    <3>1. PICK k, l \in DOMAIN q : k < l /\ q[k] = y /\ q[l] = x
      BY <2>3 DEF Before
    <3>2. k = j /\ l = i
      BY <2>1, <3>1 DEF Distinct
    <3> QED
      BY <1>0, <2>1, <3>1, <3>2
  <2> QED
    BY <2>1, <2>2, <2>3 DEF Ev
<1>2. ASSUME NEW x, NEW y, NEW z, Before(q, x, y), Before(q, y, z) PROVE Before(q, x, z)
  <2>1. PICK i, j \in DOMAIN q : i < j /\ q[i] = x /\ q[j] = y
    BY <1>2 DEF Before
  <2>2. PICK k, l \in DOMAIN q : k < l /\ q[k] = y /\ q[l] = z
    BY <1>2 DEF Before
  <2>3. k = j
    BY <2>1, <2>2 DEF Distinct
  <2>4. i < l
    BY <1>0, <2>1, <2>2, <2>3
  <2> QED
    BY <2>1, <2>2, <2>4 DEF Before
<1>3. ASSUME NEW x \in Ev(q), NEW y \in Ev(q) PROVE x = y \/ Before(q, x, y) \/ Before(q, y, x)
  <2>1. PICK i, j \in DOMAIN q : q[i] = x /\ q[j] = y
    BY DEF Ev
  <2>2. i < j \/ j < i \/ i = j
    BY <1>0
  <2> QED
    BY <2>1, <2>2 DEF Before
<1> QED
  BY <1>1, <1>2, <1>3

LEMMA RemoveAtElements ==
    ASSUME NEW S, NEW q \in Seq(S), NEW i \in 1 .. Len(q)
    PROVE  LET r == RemoveAt(q, i)
           IN  /\ r \in Seq(S) /\ Len(r) = Len(q) - 1
               /\ \A k \in 1 .. Len(q) - 1 : r[k] = IF k < i THEN q[k] ELSE q[k + 1]
<1> PICK n \in Nat : n = Len(q)
  OBVIOUS
<1> PICK a, b : a = SubSeq(q, 1, i - 1) /\ b = SubSeq(q, i + 1, n)
  OBVIOUS
<1>0. i \in 1 .. n /\ i \in Int /\ n \in Int
  OBVIOUS
<1>1. a \in Seq(S) /\ Len(a) = i - 1 /\ \A k \in 1 .. i - 1 : a[k] = q[k]
  <2>1. 1 .. i - 1 \subseteq 1 .. n
    BY <1>0
  <2> QED
    BY <1>0, <2>1, SubSeqProperties
<1>2. b \in Seq(S) /\ Len(b) = n - i /\ \A k \in 1 .. n - i : b[k] = q[i + k]
  <2>1. i + 1 .. n \subseteq 1 .. n
    BY <1>0
  <2> QED
    BY <1>0, <2>1, SubSeqProperties
<1> PICK r : r = a \o b
  OBVIOUS
<1>3. r \in Seq(S) /\ Len(r) = n - 1
  <2>1. r \in Seq(S) /\ Len(r) = Len(a) + Len(b)
    BY <1>1, <1>2, ConcatProperties
  <2>2. (i - 1) + (n - i) = n - 1
    BY <1>0
  <2> QED
    BY <1>1, <1>2, <2>1, <2>2
<1>4. ASSUME NEW k \in 1 .. n - 1 PROVE r[k] = IF k < i THEN q[k] ELSE q[k + 1]
  <2>1. CASE k < i
    <3>1. k \in 1 .. i - 1 /\ k \in 1 .. Len(a)
      BY <1>0, <1>1, <2>1
    <3>2. r[k] = a[k]
      BY <1>1, <1>2, <3>1
    <3> QED
      BY <1>1, <2>1, <3>1, <3>2
  <2>2. CASE ~(k < i)
    <3>1. k - (i - 1) \in 1 .. n - i /\ i + (k - (i - 1)) = k + 1
      BY <1>0, <2>2
    <3>2. k \in 1 .. Len(a) + Len(b) /\ ~(k =< Len(a))
      <4>1. Len(a) + Len(b) = n - 1
        <5>1. (i - 1) + (n - i) = n - 1
          BY <1>0
        <5> QED
          BY <1>1, <1>2, <5>1
      <4>2. ~(k =< i - 1)
        BY <1>0, <2>2
      <4> QED
        BY <1>1, <4>1, <4>2
    <3>3. r[k] = b[k - Len(a)]
      BY <1>1, <1>2, <3>2, ConcatProperties
    <3>4. r[k] = b[k - (i - 1)]
      BY <1>1, <3>3
    <3>5. b[k - (i - 1)] = q[k + 1]
      BY <1>2, <3>1
    <3> QED
      BY <2>2, <3>4, <3>5
  <2> QED
    BY <2>1, <2>2
<1>5. RemoveAt(q, i) = r
  BY DEF RemoveAt
<1> QED
  BY <1>3, <1>4, <1>5

\* Where RemoveFirst finds e.
LEMMA RemoveFirstIs ==
    ASSUME NEW S, NEW q \in Seq(S), NEW e \in Ev(q)
    PROVE  \E i \in 1 .. Len(q) : q[i] = e /\ RemoveFirst(q, e) = RemoveAt(q, i)
<1> PICK I : I = {i \in 1 .. Len(q) : q[i] = e}
  OBVIOUS
<1>1. I \in SUBSET Nat /\ I # {}
  BY DEF Ev
<1> PICK i : i = Min(I)
  OBVIOUS
<1>2. i \in I
  BY <1>1, MinExists
<1>3. RemoveFirst(q, e) = RemoveAt(q, i)
  BY <1>1 DEF RemoveFirst, SelectInSeq
<1> QED
  BY <1>2, <1>3

\* The queue with e at its end.
Queued(q, e) == Append(RemoveFirst(q, e), e)

\* What a queue has after e was put to its end: the order of the others, then e.
QueuedAs(q, e, r) ==
    /\ Distinct(r) /\ Ev(r) = Ev(q) \cup {e}
    /\ \A x, y : Before(r, x, y) <=> \/ x # e /\ y # e /\ Before(q, x, y)
                                     \/ y = e /\ x \in Ev(q) \ {e}

LEMMA QueuedOrder ==
    ASSUME NEW S, NEW q \in Seq(S), Distinct(q), NEW e
    PROVE  QueuedAs(q, e, Queued(q, e))
<1> PICK r : r = Queued(q, e)
  OBVIOUS
<1> PICK n \in Nat : n = Len(q)
  OBVIOUS
<1>0. DOMAIN q = 1 .. n
  OBVIOUS
<1>1. CASE e \notin Ev(q)
  <2>1. RemoveFirst(q, e) = q
    BY <1>1 DEF RemoveFirst, Ev
  <2>2. r = Append(q, e)
    BY <2>1 DEF Queued
  <2>3. DOMAIN r = 1 .. n + 1 /\ r[n + 1] = e /\ \A k \in 1 .. n : r[k] = q[k]
    BY <2>2
  <2>4. Distinct(r)
    <3> SUFFICES ASSUME NEW i \in 1 .. n + 1, NEW j \in 1 .. n + 1, r[i] = r[j] PROVE i = j
      BY <2>3 DEF Distinct
    <3>1. \A k \in 1 .. n : r[k] # e
      BY <1>0, <1>1, <2>3 DEF Ev
    <3>2. CASE i \in 1 .. n /\ j \in 1 .. n
      BY <1>0, <2>3, <3>2 DEF Distinct
    <3>3. CASE ~(i \in 1 .. n /\ j \in 1 .. n)
      <4>1. i = n + 1 \/ j = n + 1
        BY <3>3
      <4> QED
        BY <2>3, <3>1, <4>1
    <3> QED
      BY <3>2, <3>3
  <2>5. Ev(r) = Ev(q) \cup {e}
    BY <1>0, <2>3 DEF Ev
  <2>6. ASSUME NEW x, NEW y
        PROVE  Before(r, x, y) <=> \/ x # e /\ y # e /\ Before(q, x, y)
                                   \/ y = e /\ x \in Ev(q) \ {e}
    <3>1. ASSUME Before(r, x, y)
          PROVE  \/ x # e /\ y # e /\ Before(q, x, y)
                 \/ y = e /\ x \in Ev(q) \ {e}
      <4>1. PICK i, j \in DOMAIN r : i < j /\ r[i] = x /\ r[j] = y
        BY <3>1 DEF Before
      <4>2. i \in 1 .. n /\ x = q[i]
        BY <2>3, <4>1
      <4>3. CASE j = n + 1
        BY <1>0, <1>1, <2>3, <4>1, <4>2, <4>3 DEF Ev
      <4>4. CASE j \in 1 .. n
        BY <1>0, <1>1, <2>3, <4>1, <4>2, <4>4 DEF Ev, Before
      <4> QED
        BY <2>3, <4>1, <4>3, <4>4
    <3>2. ASSUME x # e, y # e, Before(q, x, y) PROVE Before(r, x, y)
      <4>1. PICK i, j \in DOMAIN q : i < j /\ q[i] = x /\ q[j] = y
        BY <3>2 DEF Before
      <4> QED
        BY <1>0, <2>3, <4>1 DEF Before
    <3>3. ASSUME y = e, x \in Ev(q) \ {e} PROVE Before(r, x, y)
      <4>1. PICK i \in DOMAIN q : q[i] = x
        BY <3>3 DEF Ev
      <4>2. i \in DOMAIN r /\ n + 1 \in DOMAIN r /\ i < n + 1 /\ r[i] = x /\ r[n + 1] = y
        BY <1>0, <2>3, <3>3, <4>1
      <4> QED
        BY <4>2 DEF Before
    <3> QED
      BY <3>1, <3>2, <3>3
  <2> QED
    BY <2>4, <2>5, <2>6 DEF QueuedAs
<1>2. CASE e \in Ev(q)
  <2>1. PICK l \in 1 .. n : q[l] = e /\ RemoveFirst(q, e) = RemoveAt(q, l)
    BY <1>2, RemoveFirstIs
  <2> PICK c : c = RemoveAt(q, l)
    OBVIOUS
  <2>2. c \in Seq(S) /\ Len(c) = n - 1 /\ \A k \in 1 .. n - 1 : c[k] = IF k < l THEN q[k] ELSE q[k + 1]
    BY RemoveAtElements
  <2>3. n - 1 \in Nat /\ (n - 1) + 1 = n
    BY <2>1
  <2>4. r = Append(c, e)
    BY <2>1 DEF Queued
  <2>5. DOMAIN r = 1 .. n /\ r[n] = e /\ \A k \in 1 .. n - 1 : r[k] = IF k < l THEN q[k] ELSE q[k + 1]
    <3>1. Len(r) = n /\ DOMAIN r = 1 .. n /\ r[n] = e
      BY <2>2, <2>3, <2>4
    <3>2. \A k \in 1 .. n - 1 : r[k] = c[k]
      BY <2>2, <2>3, <2>4
    <3> QED
      BY <2>2, <3>1, <3>2
  \* Where the elements of r are in q.
  <2> PICK f : f = [k \in 1 .. n |-> IF k = n THEN l ELSE IF k < l THEN k ELSE k + 1]
    OBVIOUS
  <2>6. \A k \in 1 .. n : f[k] \in 1 .. n /\ r[k] = q[f[k]]
    BY <2>1, <2>5
  <2>7. \A i, j \in 1 .. n - 1 : i < j <=> f[i] < f[j]
    OBVIOUS
  <2>8. \A k \in 1 .. n : k # l => \E i \in 1 .. n - 1 : f[i] = k
    <3> SUFFICES ASSUME NEW k \in 1 .. n, k # l PROVE \E i \in 1 .. n - 1 : f[i] = k
      OBVIOUS
    <3>1. CASE k < l
      <4>1. k \in 1 .. n - 1 /\ f[k] = k
        BY <3>1
      <4> QED
        BY <4>1
    <3>2. CASE k > l
      <4>1. k - 1 \in 1 .. n - 1 /\ f[k - 1] = k
        BY <3>2
      <4> QED
        BY <4>1
    <3> QED
      BY <3>1, <3>2
  <2>9. \A i, j \in 1 .. n : f[i] = f[j] => i = j
    OBVIOUS
  <2>10. Distinct(r)
    <3> SUFFICES ASSUME NEW i \in 1 .. n, NEW j \in 1 .. n, r[i] = r[j] PROVE i = j
      BY <2>5 DEF Distinct
    <3>0. PICK k, o : k = f[i] /\ o = f[j]
      OBVIOUS
    <3>1. f[i] = f[j]
      <4>1. k \in DOMAIN q /\ o \in DOMAIN q /\ q[k] = q[o]
        BY <1>0, <2>6, <3>0
      <4> QED
        BY <3>0, <4>1 DEF Distinct
    <3> QED
      BY <2>9, <3>1
  <2>11. \A k \in 1 .. n : (k = n <=> r[k] = e) /\ (k = l <=> q[k] = e)
    <3>1. \A k \in 1 .. n : k = l <=> q[k] = e
      BY <1>0, <2>1 DEF Distinct
    <3>2. n \in 1 .. n
      BY <2>3
    <3> QED
      BY <2>5, <2>10, <3>1, <3>2 DEF Distinct
  <2>12. Ev(r) = Ev(q) \cup {e}
    <3>1. Ev(r) \subseteq Ev(q)
      BY <1>0, <2>5, <2>6 DEF Ev
    <3>2. ASSUME NEW k \in 1 .. n PROVE q[k] \in Ev(r)
      <4>1. CASE k = l
        <5>1. n \in 1 .. n
          BY <2>3
        <5> QED
          BY <2>1, <2>5, <4>1, <5>1 DEF Ev
      <4>2. CASE k # l
        <5>1. PICK i \in 1 .. n - 1 : f[i] = k
          BY <2>8, <4>2
        <5>2. i \in 1 .. n
          BY <2>3
        <5>3. r[i] = q[k]
          BY <2>6, <5>1, <5>2
        <5> QED
          BY <2>5, <5>2, <5>3 DEF Ev
      <4> QED
        BY <4>1, <4>2
    <3> QED
      BY <1>0, <1>2, <3>1, <3>2 DEF Ev
  <2>13. ASSUME NEW x, NEW y
        PROVE  Before(r, x, y) <=> \/ x # e /\ y # e /\ Before(q, x, y)
                                   \/ y = e /\ x \in Ev(q) \ {e}
    <3>1. ASSUME Before(r, x, y)
          PROVE  \/ x # e /\ y # e /\ Before(q, x, y)
                 \/ y = e /\ x \in Ev(q) \ {e}
      <4>1. PICK i, j \in 1 .. n : i < j /\ r[i] = x /\ r[j] = y
        BY <2>5, <3>1 DEF Before
      <4>2. i \in 1 .. n - 1 /\ x # e /\ x \in Ev(q)
        <5>1. i # n /\ i \in 1 .. n - 1
          BY <4>1
        <5>2. x # e
          BY <2>11, <4>1, <5>1
        <5>3. x = q[f[i]] /\ f[i] \in 1 .. n
          BY <2>6, <4>1
        <5> QED
          BY <1>0, <5>1, <5>2, <5>3 DEF Ev
      <4>3. CASE j = n
        BY <2>5, <4>1, <4>2, <4>3
      <4>4. CASE j # n
        <5>1. j \in 1 .. n - 1 /\ y # e
          BY <2>11, <4>1, <4>4
        <5>2. f[i] < f[j] /\ f[i] \in DOMAIN q /\ f[j] \in DOMAIN q /\ q[f[i]] = x /\ q[f[j]] = y
          BY <1>0, <2>6, <2>7, <4>1, <4>2, <5>1
        <5> QED
          BY <4>2, <5>1, <5>2 DEF Before
      <4> QED
        BY <4>3, <4>4
    <3>2. ASSUME x # e, y # e, Before(q, x, y) PROVE Before(r, x, y)
      <4>1. PICK i, j \in 1 .. n : i < j /\ q[i] = x /\ q[j] = y
        BY <1>0, <3>2 DEF Before
      <4>2. i # l /\ j # l
        BY <2>1, <3>2, <4>1
      <4>3. PICK k \in 1 .. n - 1 : f[k] = i
        BY <2>8, <4>2
      <4>4. PICK o \in 1 .. n - 1 : f[o] = j
        BY <2>8, <4>2
      <4>5. k < o
        BY <2>7, <4>1, <4>3, <4>4
      <4>6. k \in DOMAIN r /\ o \in DOMAIN r /\ r[k] = x /\ r[o] = y
        BY <2>5, <2>6, <4>1, <4>3, <4>4
      <4> QED
        BY <4>5, <4>6 DEF Before
    <3>3. ASSUME y = e, x \in Ev(q) \ {e} PROVE Before(r, x, y)
      <4>1. PICK i \in 1 .. n : q[i] = x
        BY <1>0, <3>3 DEF Ev
      <4>2. i # l
        BY <2>1, <3>3, <4>1
      <4>3. PICK k \in 1 .. n - 1 : f[k] = i
        BY <2>8, <4>2
      <4>4. k \in DOMAIN r /\ n \in DOMAIN r /\ k < n /\ r[k] = x /\ r[n] = y
        BY <2>5, <2>6, <3>3, <4>1, <4>3
      <4> QED
        BY <4>4 DEF Before
    <3> QED
      BY <3>1, <3>2, <3>3
  <2> QED
    BY <1>2, <2>10, <2>12, <2>13 DEF QueuedAs
<1> QED
  BY <1>1, <1>2

\* What the queue has after its first notification was taken.
TailAs(q, h, r) ==
    /\ Distinct(r) /\ h \in Ev(q) /\ Ev(r) = Ev(q) \ {h}
    /\ \A x, y : Before(r, x, y) <=> x # h /\ Before(q, x, y)
    /\ \A y \in Ev(r) : Before(q, h, y)
    /\ \A x : ~Before(q, x, h)

LEMMA TailOrder ==
    ASSUME NEW S, NEW q \in Seq(S), q # <<>>, Distinct(q)
    PROVE  TailAs(q, Head(q), Tail(q))
<1> PICK n \in Nat : n = Len(q)
  OBVIOUS
<1> PICK h, r : h = Head(q) /\ r = Tail(q)
  OBVIOUS
<1>1. n > 0 /\ DOMAIN q = 1 .. n /\ h = q[1]
  OBVIOUS
<1>2. DOMAIN r = 1 .. n - 1 /\ \A k \in 1 .. n - 1 : r[k] = q[k + 1]
  <2>1. Len(r) = n - 1 /\ r \in Seq(S)
    BY HeadTailProperties
  <2>2. \A k \in 1 .. Len(r) : r[k] = q[k + 1]
    BY HeadTailProperties
  <2> QED
    BY <2>1, <2>2
<1>3. \A k \in 1 .. n : q[k] = h => k = 1
  BY <1>1 DEF Distinct
<1>4. Distinct(r)
  BY <1>1, <1>2 DEF Distinct
<1>5. \A k \in 1 .. n : k # 1 => k - 1 \in 1 .. n - 1 /\ r[k - 1] = q[k]
  BY <1>2
<1>6. Ev(r) = Ev(q) \ {h} /\ h \in Ev(q)
  <2>1. ASSUME NEW k \in 1 .. n - 1 PROVE r[k] \in Ev(q) \ {h}
    BY <1>1, <1>2, <1>3 DEF Ev
  <2>2. ASSUME NEW k \in 1 .. n, q[k] # h PROVE q[k] \in Ev(r)
    BY <1>1, <1>2, <1>5, <2>2 DEF Ev
  <2> QED
    BY <1>1, <1>2, <2>1, <2>2 DEF Ev
<1>7. ASSUME NEW x, NEW y PROVE Before(r, x, y) <=> x # h /\ Before(q, x, y)
  <2>1. ASSUME Before(r, x, y) PROVE x # h /\ Before(q, x, y)
    <3>1. PICK i, j \in 1 .. n - 1 : i < j /\ r[i] = x /\ r[j] = y
      BY <1>2, <2>1 DEF Before
    <3>2. i + 1 \in 1 .. n /\ j + 1 \in 1 .. n /\ i + 1 < j + 1 /\ q[i + 1] = x /\ q[j + 1] = y /\ i + 1 # 1
      BY <1>2, <3>1
    <3> QED
      BY <1>1, <1>3, <3>2 DEF Before
  <2>2. ASSUME x # h, Before(q, x, y) PROVE Before(r, x, y)
    <3>1. PICK i, j \in 1 .. n : i < j /\ q[i] = x /\ q[j] = y
      BY <1>1, <2>2 DEF Before
    <3>2. i # 1 /\ j # 1
      BY <1>1, <2>2, <3>1
    <3>3. i - 1 \in DOMAIN r /\ j - 1 \in DOMAIN r /\ i - 1 < j - 1 /\ r[i - 1] = x /\ r[j - 1] = y
      BY <1>2, <1>5, <3>1, <3>2
    <3> QED
      BY <3>3 DEF Before
  <2> QED
    BY <2>1, <2>2
<1>8. ASSUME NEW y \in Ev(r) PROVE Before(q, h, y)
  <2>1. PICK k \in 1 .. n - 1 : r[k] = y
    BY <1>2 DEF Ev
  <2>2. 1 \in DOMAIN q /\ k + 1 \in DOMAIN q /\ 1 < k + 1 /\ q[1] = h /\ q[k + 1] = y
    BY <1>1, <1>2, <2>1
  <2> QED
    BY <2>2 DEF Before
<1>9. ASSUME NEW x, Before(q, x, h) PROVE FALSE
  <2>1. PICK i, j \in 1 .. n : i < j /\ q[i] = x /\ q[j] = h
    BY <1>1, <1>9 DEF Before
  <2> QED
    BY <1>3, <2>1
<1> QED
  BY <1>4, <1>6, <1>7, <1>8, <1>9 DEF TailAs

-----------------------------------------------------------------------------
(* Cache, ASIC and queue                                                   *)

\* The notifications about a MAC, its last one, and the ageings behind one.
Of(q, m) == {x \in Ev(q) : x.mac = m}
Final(q, m, e) == e \in Of(q, m) /\ \A x \in Of(q, m) \ {e} : Before(q, x, e)
AgedLater(q, m, x) == \E y \in Of(q, m) : y.type = "AGED" /\ (y = x \/ Before(q, x, y))
AgedBefore(q, m, x) == \E y \in Of(q, m) : y.type = "AGED" /\ Before(q, y, x)

\* A cached entry that a flush on the way removes.
Going(c, q) ==
    /\ c # NoEntry /\ c.sai = "dynamic" /\ c.flush
    /\ \E f \in Ev(q) : f.type = "FLUSHED" /\ f.bp \in {NoBp, c.bp}

\* The entry a of the ASIC is what the last notification about m says; a MAC is
\* learnt after it aged; flushes come before the notifications about it.
QueueOk(a, q, B, m) ==
    /\ a = NoEntry => \A x \in Of(q, m) : AgedLater(q, m, x)
    /\ a # NoEntry => \E e : /\ Final(q, m, e) /\ e.type \in {"LEARNED", "MOVE"}
                             /\ e.bp = a.bp /\ a.sai = "dynamic" /\ ~a.allow
    /\ \A x, y \in Of(q, m) : y.type = "LEARNED" /\ Before(q, x, y) => AgedLater(q, m, x)
    /\ \A x \in Of(q, m) : x.bp \in B
    /\ \A x \in Of(q, m), f \in Ev(q) : f.mac = AnyMac => ~Before(q, x, f)
    /\ \A e, x \in Of(q, m) :
          e.type = "AGED" /\ Final(q, m, e) /\ x # e /\ (\A y \in Of(q, m) \ {e, x} : Before(q, y, x))
          => x.bp = e.bp /\ x.type # "AGED"

\* The cached entry c while there are notifications about m.
Busy(c, q, B, m) ==
    /\ (\E x \in Of(q, m) : x.type = "LEARNED") /\ (\A x \in Of(q, m) : x.type # "AGED")
       => c = NoEntry \/ Going(c, q)
    /\ \A e : Of(q, m) = {e} /\ e.type = "MOVE" => c = NoEntry \/ c.bp # e.bp \/ c.sai = "dynamic"
    /\ \A e : Of(q, m) = {e} /\ e.type = "AGED" => c = NoEntry \/ c.type # "static" \/ c.bp = e.bp
    /\ c # NoEntry /\ c.sai = "dynamic" /\ c.flush => Going(c, q)
    /\ c # NoEntry /\ c.type = "static" =>
          \A x \in Of(q, m) : x.type = "LEARNED" => AgedBefore(q, m, x)

\* Cache and ASIC when there are none.
Idle(c, a, q) ==
    \/ a = NoEntry /\ c = NoEntry
    \/ /\ a # NoEntry /\ c # NoEntry /\ a.bp = c.bp /\ a.sai = c.sai
       /\ ~(c.sai = "dynamic" /\ c.flush)
    \/ a = NoEntry /\ Going(c, q)

\* What the origin and the type of an entry say of its type in the ASIC.
KindOk(c) ==
    c # NoEntry => /\ c.origin \in {"mclag", "vxlan"} => c.sai = "static"
                   /\ c.type = "static" => c.sai = "static" /\ c.origin # "learn"

\* Cache, ASIC and queue are in step about m.
InStep(c, a, q, B, m) ==
    /\ KindOk(c)
    /\ c # NoEntry => c.bp \in B \/ Going(c, q)
    /\ Of(q, m) = {} => Idle(c, a, q)
    /\ Of(q, m) # {} => QueueOk(a, q, B, m) /\ Busy(c, q, B, m)

Pinned(c) == c # NoEntry /\ c.origin = "provisioned" /\ c.type = "static"

\* A static MAC of FDB_TABLE does not move, as long as it was not aged; a local
\* one has no leave to move.
Fixed(c, a, q, m) ==
    /\ Of(q, m) = {} /\ c # NoEntry /\ Local(c.origin) /\ a # NoEntry => ~a.allow
    /\ Pinned(c) => \A x \in Of(q, m) : x.type # "AGED" => AgedBefore(q, m, x)

\* The MACs whose cache and ASIC may differ, that may move, and whose static entry
\* may be gone.
Lost(s) == s.excused["ghosts"] \cup s.excused["raced"] \cup s.excused["reordered"] \cup s.excused["retyped"]
Loose(s) == Lost(s) \cup s.excused["movable"]
Waived(s) == Loose(s) \cup s.excused["dropped"] \cup s.excused["superseded"]

\* No saved entry of m was learnt.
NotLearnt(saved, m) ==
    \A p \in Port : \A i \in DOMAIN saved[p] :
        saved[p][i].mac = m => saved[p][i].data.origin # "learn"

MacOk(s, m) ==
    /\ \/ m \in Lost(s)
       \/ InStep(s.ent[m], s.asic[m], s.events, Range(s.bp), m) /\ NotLearnt(s.saved, m)
    /\ m \in Loose(s) \/ Fixed(s.ent[m], s.asic[m], s.events, m)

Cached(c, d, bp) == c # NoEntry /\ Data(c) = Data(d) /\ c.bp = bp[d.port]
SavedFor(saved, m, d) == \E i \in DOMAIN saved[d.port] : saved[d.port][i] = [mac |-> m, data |-> d]

\* A static MAC that FDB_TABLE asks for as d.
Static(d) == d \in [port : Port, type : {"static"}, origin : {"provisioned"}, dest : Dests]

PortNames(s) == \A p \in Port : s.bp[p] = NoBp \/ s.bp[p][1] = p
Typed(s) == s \in State /\ PortNames(s) /\ Distinct(s.events)

\* What a part of a handler has to keep of a MAC: that cache, ASIC and queue are
\* in step, and that a static entry which FDB_TABLE asks for stays.
Grows(s, t) == \A x \in Excuses : s.excused[x] \subseteq t.excused[x]
Safe(s, t, x) ==
    MacOk(s, x) => /\ MacOk(t, x)
                   /\ \A d : Static(d) /\ Cached(s.ent[x], d, s.bp)
                             => x \in Waived(t) \/ Cached(t.ent[x], d, t.bp)
Sound(s, t, N) == Typed(t) /\ Grows(s, t) /\ \A x \in Mac \ N : Safe(s, t, x)

\* The parts of a handler change the entries of one MAC.
Part(s, t, m, c, a) ==
    /\ t \in State /\ Grows(s, t)
    /\ t.ent = [s.ent EXCEPT ![m] = c] /\ t.asic = [s.asic EXCEPT ![m] = a]
    /\ t.events = s.events /\ t.bp = s.bp /\ t.members = s.members /\ t.saved = s.saved

LEMMA GrowsFacts ==
    ASSUME NEW s, NEW t, Grows(s, t)
    PROVE  Lost(s) \subseteq Lost(t) /\ Loose(s) \subseteq Loose(t) /\ Waived(s) \subseteq Waived(t)
BY DEF Grows, Lost, Loose, Waived, Excuses, Numbered

LEMMA SoundTransitive ==
    ASSUME NEW s, NEW t, NEW u, NEW N, Sound(s, t, N), Sound(t, u, N)
    PROVE  Sound(s, u, N)
<1>1. Waived(t) \subseteq Waived(u)
  BY GrowsFacts DEF Sound
<1>2. ASSUME NEW x \in Mac \ N PROVE Safe(s, u, x)
  BY <1>1 DEF Sound, Safe
<1> QED
  BY <1>2 DEF Sound, Grows

LEMMA SoundSelf ==
    ASSUME NEW s, Typed(s), NEW N
    PROVE  Sound(s, s, N)
BY DEF Sound, Grows, Safe

LEMMA SoundLess ==
    ASSUME NEW s, NEW t, NEW N, Sound(s, t, {})
    PROVE  Sound(s, t, N)
BY DEF Sound

LEMMA PartTransitive ==
    ASSUME NEW s \in State, NEW t, NEW u, NEW m \in Mac, NEW c, NEW a, NEW d, NEW b,
           Part(s, t, m, c, a), Part(t, u, m, d, b)
    PROVE  Part(s, u, m, d, b)
<1>1. Grows(s, u)
  BY DEF Part, Grows
<1>2. u.ent = [s.ent EXCEPT ![m] = d] /\ u.asic = [s.asic EXCEPT ![m] = b]
  BY SMTT(30) DEF Part, State
<1> QED
  BY <1>1, <1>2 DEF Part

LEMMA PartFacts ==
    ASSUME NEW s \in State, NEW t, NEW m \in Mac, NEW c, NEW a, Part(s, t, m, c, a)
    PROVE  /\ t \in State /\ t.ent[m] = c /\ t.asic[m] = a
           /\ \A x \in Mac \ {m} : t.ent[x] = s.ent[x] /\ t.asic[x] = s.asic[x]
           /\ Lost(s) \subseteq Lost(t) /\ Loose(s) \subseteq Loose(t) /\ Waived(s) \subseteq Waived(t)
<1>1. /\ t.ent[m] = c /\ t.asic[m] = a
      /\ \A x \in Mac \ {m} : t.ent[x] = s.ent[x] /\ t.asic[x] = s.asic[x]
  BY DEF Part, State
<1> QED
  BY <1>1, GrowsFacts DEF Part

LEMMA PartSound ==
    ASSUME NEW s, Typed(s), NEW t, NEW m \in Mac, NEW c, NEW a, Part(s, t, m, c, a)
    PROVE  Sound(s, t, {m})
<1>1. /\ t \in State /\ t.ent[m] = c /\ t.asic[m] = a
      /\ \A x \in Mac \ {m} : t.ent[x] = s.ent[x] /\ t.asic[x] = s.asic[x]
      /\ Lost(s) \subseteq Lost(t) /\ Loose(s) \subseteq Loose(t) /\ Waived(s) \subseteq Waived(t)
  BY PartFacts DEF Typed
<1>2. t.events = s.events /\ t.bp = s.bp /\ t.saved = s.saved /\ Grows(s, t)
  BY DEF Part
<1>3. Typed(t)
  BY <1>1, <1>2 DEF Typed, PortNames
<1>4. \A x \in Mac \ {m} : (MacOk(s, x) => MacOk(t, x))
  BY <1>1, <1>2 DEF MacOk
<1>5. \A x \in Mac \ {m} : Safe(s, t, x)
  BY <1>1, <1>2, <1>4 DEF Safe
<1> QED
  BY <1>2, <1>3, <1>5 DEF Sound

\* The entry that StoreLearnt makes.
Learnt(b) == [bp |-> b, type |-> "dynamic", origin |-> "learn",
              sai |-> "dynamic", flush |-> FALSE, dest |-> IfName(b[1])]

PhyBps == Phy \X Nat

LEMMA LearntType ==
    ASSUME NEW b \in PhyBps
    PROVE  /\ Learnt(b) \in Entry /\ b \in BridgePorts /\ b[1] \in Port /\ Learnt(b) # NoEntry
           /\ KindOk(Learnt(b)) /\ ~Pinned(Learnt(b))
<1>1. IfName(b[1]) \in Dests /\ b \in BridgePorts /\ b[1] \in Port
  BY DEF Dests, BridgePorts, Port, PhyBps
<1>2. Learnt(b) \in Entry
  BY <1>1 DEF Learnt, Entry, Types, Origins, SaiTypes
<1>3. Learnt(b) # NoEntry
  BY <1>2, NoEntryFacts
<1> QED
  BY <1>1, <1>2, <1>3 DEF KindOk, Pinned, Learnt

LEMMA PartSelf ==
    ASSUME NEW s \in State, NEW m \in Mac
    PROVE  Part(s, s, m, s.ent[m], s.asic[m])
BY DEF Part, Grows, State

LEMMA StateFacts ==
    ASSUME NEW s \in State, NEW m \in Mac
    PROVE  /\ s.ent[m] \in Entry \cup {NoEntry} /\ s.asic[m] \in AsicEntry \cup {NoEntry}
           /\ s.ent = [s.ent EXCEPT ![m] = s.ent[m]] /\ s.asic = [s.asic EXCEPT ![m] = s.asic[m]]
BY DEF State

LEMMA CountVlanPart ==
    ASSUME NEW s \in State, NEW m \in Mac, NEW d \in Int
    PROVE  Part(s, CountVlan(s, d), m, s.ent[m], s.asic[m])
<1> PICK t : t = CountVlan(s, d)
  OBVIOUS
<1> PICK n : n = s.vlan + d
  OBVIOUS
<1>1. n \in Int
  BY DEF State
<1>2. t = [s EXCEPT !.vlan = n]
  BY DEF CountVlan, State
<1>3. t \in State
  BY <1>1, <1>2 DEF State
<1>4. t.ent = s.ent /\ t.asic = s.asic /\ t.events = s.events /\ t.bp = s.bp /\ t.members = s.members /\ t.saved = s.saved /\ t.excused = s.excused
  BY <1>2 DEF State
<1>5. t.ent = [s.ent EXCEPT ![m] = s.ent[m]] /\ t.asic = [s.asic EXCEPT ![m] = s.asic[m]]
  BY <1>4 DEF State
<1>6. Grows(s, t)
  BY <1>4 DEF Grows
<1> QED
  BY <1>3, <1>4, <1>5, <1>6 DEF Part

LEMMA CountAtPart ==
    ASSUME NEW s \in State, NEW m \in Mac, NEW b, NEW d \in Int
    PROVE  Part(s, CountAt(s, b, d), m, s.ent[m], s.asic[m])
<1>1. CASE b[1] = Tunnel
  <2> PICK t : t = CountAt(s, b, d)
    OBVIOUS
  <2> PICK n : n = s.tunnel + d
    OBVIOUS
  <2>1. n \in Int
    BY DEF State
  <2>2. t = [s EXCEPT !.tunnel = n]
    BY <1>1 DEF CountAt, State
  <2>3. t \in State
    BY <2>1, <2>2 DEF State
  <2>4. t.ent = s.ent /\ t.asic = s.asic /\ t.events = s.events /\ t.bp = s.bp /\ t.members = s.members /\ t.saved = s.saved /\ t.excused = s.excused
    BY <2>2 DEF State
  <2>5. t.ent = [s.ent EXCEPT ![m] = s.ent[m]] /\ t.asic = [s.asic EXCEPT ![m] = s.asic[m]]
    BY <2>4 DEF State
  <2>6. Grows(s, t)
    BY <2>4 DEF Grows
  <2> QED
    BY <2>3, <2>4, <2>5, <2>6 DEF Part
<1>2. CASE b[1] # Tunnel
  BY <1>2, PartSelf DEF CountAt
<1> QED
  BY <1>1, <1>2

LEMMA StoreLearntPart ==
    ASSUME NEW s \in State, NEW m \in Mac, NEW b \in PhyBps
    PROVE  LET old == s.ent[m]
           IN  Part(s, StoreLearnt(s, m, b), m,
                    IF old.bp = b /\ old.origin # "mclag" THEN old ELSE Learnt(b), s.asic[m])
<1> PICK old : old = s.ent[m]
  OBVIOUS
<1>1. CASE old.bp = b /\ old.origin # "mclag"
  BY <1>1, PartSelf DEF StoreLearnt
<1>2. CASE ~(old.bp = b /\ old.origin # "mclag")
  <2> PICK t : t = StoreLearnt(s, m, b)
    OBVIOUS
  <2> PICK f : f = [s.ent EXCEPT ![m] = Learnt(b)]
    OBVIOUS
  <2> PICK mc : mc = [s.mclag EXCEPT ![m] = IF old.origin = "mclag" THEN NoPort ELSE s.mclag[m]]
    OBVIOUS
  <2> PICK st : st = [s.state EXCEPT ![m] = b[1]]
    OBVIOUS
  <2> PICK k : k = IF old = NoEntry THEN s.crm + 1 ELSE s.crm
    OBVIOUS
  <2>1. f \in [Mac -> Entry \cup {NoEntry}] /\ mc \in [Mac -> Port \cup {NoPort}] /\ st \in [Mac -> Port \cup {NoPort}] /\ k \in Int
    BY LearntType DEF State
  <2>2. t = [s EXCEPT !.ent = f, !.mclag = mc, !.state = st, !.crm = k]
    BY <1>2 DEF StoreLearnt, State, Learnt
  <2>3. t \in State
    BY <2>1, <2>2 DEF State
  <2>4. t.ent = f /\ t.asic = s.asic /\ t.events = s.events /\ t.bp = s.bp /\ t.members = s.members /\ t.saved = s.saved /\ t.excused = s.excused
    BY <2>2 DEF State
  <2>5. t.ent = [s.ent EXCEPT ![m] = Learnt(b)] /\ t.asic = [s.asic EXCEPT ![m] = s.asic[m]]
    BY <2>4 DEF State
  <2>6. Grows(s, t)
    BY <2>4 DEF Grows
  <2> QED
    BY <2>3, <2>4, <2>5, <2>6, <1>2 DEF Part
<1> QED
  BY <1>1, <1>2

LEMMA StoreRemovedPart ==
    ASSUME NEW s \in State, NEW m \in Mac
    PROVE  Part(s, StoreRemoved(s, m), m, NoEntry, s.asic[m])
<1> PICK t : t = StoreRemoved(s, m)
  OBVIOUS
<1> PICK f : f = [s.ent EXCEPT ![m] = NoEntry]
  OBVIOUS
<1> PICK mc : mc = [s.mclag EXCEPT ![m] = IF s.ent[m].origin = "mclag" THEN NoPort ELSE s.mclag[m]]
  OBVIOUS
<1> PICK st : st = [s.state EXCEPT ![m] = IF Local(s.ent[m].origin) THEN NoPort ELSE s.state[m]]
  OBVIOUS
<1> PICK k : k = s.crm - 1
  OBVIOUS
<1>1. f \in [Mac -> Entry \cup {NoEntry}] /\ mc \in [Mac -> Port \cup {NoPort}] /\ st \in [Mac -> Port \cup {NoPort}] /\ k \in Int
  BY DEF State
<1>2. t = [s EXCEPT !.ent = f, !.mclag = mc, !.state = st, !.crm = k]
  BY DEF StoreRemoved, State
<1>3. t \in State
  BY <1>1, <1>2 DEF State
<1>4. t.ent = f /\ t.asic = s.asic /\ t.events = s.events /\ t.bp = s.bp /\ t.members = s.members /\ t.saved = s.saved /\ t.excused = s.excused
  BY <1>2 DEF State
<1>5. t.ent = [s.ent EXCEPT ![m] = NoEntry] /\ t.asic = [s.asic EXCEPT ![m] = s.asic[m]]
  BY <1>4 DEF State
<1>6. Grows(s, t)
  BY <1>4 DEF Grows
<1> QED
  BY <1>3, <1>4, <1>5, <1>6 DEF Part

LEMMA DroppedPart ==
    ASSUME NEW s \in State, NEW m \in Mac
    PROVE  Part(s, Dropped(s, m), m, NoEntry, s.asic[m])
<1> PICK t : t = Dropped(s, m)
  OBVIOUS
<1> PICK f : f = [s.ent EXCEPT ![m] = NoEntry]
  OBVIOUS
<1>1. f \in [Mac -> Entry \cup {NoEntry}]
  BY DEF State
<1>2. t = [s EXCEPT !.ent = f]
  BY DEF Dropped, State
<1>3. t \in State
  BY <1>1, <1>2 DEF State
<1>4. t.ent = f /\ t.asic = s.asic /\ t.events = s.events /\ t.bp = s.bp /\ t.members = s.members /\ t.saved = s.saved /\ t.excused = s.excused
  BY <1>2 DEF State
<1>5. t.ent = [s.ent EXCEPT ![m] = NoEntry] /\ t.asic = [s.asic EXCEPT ![m] = s.asic[m]]
  BY <1>4 DEF State
<1>6. Grows(s, t)
  BY <1>4 DEF Grows
<1> QED
  BY <1>3, <1>4, <1>5, <1>6 DEF Part

LEMMA DeletedPart ==
    ASSUME NEW s \in State, NEW m \in Mac
    PROVE  Part(s, Deleted(s, m), m, NoEntry, s.asic[m])
<1> PICK t : t = Deleted(s, m)
  OBVIOUS
<1> PICK f : f = [s.ent EXCEPT ![m] = NoEntry]
  OBVIOUS
<1> PICK k : k = s.crm - 1
  OBVIOUS
<1> PICK st : st = [s.state EXCEPT ![m] = IF Local(s.ent[m].origin) THEN NoPort ELSE s.state[m]]
  OBVIOUS
<1>1. f \in [Mac -> Entry \cup {NoEntry}] /\ k \in Int /\ st \in [Mac -> Port \cup {NoPort}]
  BY DEF State
<1>2. t = [s EXCEPT !.ent = f, !.crm = k, !.state = st]
  BY DEF Deleted, State
<1>3. t \in State
  BY <1>1, <1>2 DEF State
<1>4. t.ent = f /\ t.asic = s.asic /\ t.events = s.events /\ t.bp = s.bp /\ t.members = s.members /\ t.saved = s.saved /\ t.excused = s.excused
  BY <1>2 DEF State
<1>5. t.ent = [s.ent EXCEPT ![m] = NoEntry] /\ t.asic = [s.asic EXCEPT ![m] = s.asic[m]]
  BY <1>4 DEF State
<1>6. Grows(s, t)
  BY <1>4 DEF Grows
<1> QED
  BY <1>3, <1>4, <1>5, <1>6 DEF Part

LEMMA StoreAddedPart ==
    ASSUME NEW s \in State, NEW m \in Mac, NEW d, d.port \in Port, d \in SavedData(d.port),
           s.bp[d.port] # NoBp, NEW old
    PROVE  Part(s, StoreAdded(s, m, d, old), m, StoredEntry(d, s.bp[d.port]), s.asic[m])
<1> PICK e : e = StoredEntry(d, s.bp[d.port])
  OBVIOUS
<1>0. e \in Entry
  BY StoredEntryType DEF State
<1> PICK t : t = StoreAdded(s, m, d, old)
  OBVIOUS
<1> PICK f : f = [s.ent EXCEPT ![m] = e]
  OBVIOUS
<1> PICK st : st = [s.state EXCEPT ![m] = IF Local(d.origin) \/ Own(d) THEN d.port
                                          ELSE IF Local(old.origin) THEN NoPort ELSE s.state[m]]
  OBVIOUS
<1> PICK mc : mc = [s.mclag EXCEPT ![m] = IF d.origin = "mclag" /\ ~Own(d) THEN d.port
                                          ELSE IF old.origin = "mclag" /\ d.origin # "mclag" THEN NoPort
                                          ELSE s.mclag[m]]
  OBVIOUS
<1> PICK k : k = IF old = NoEntry THEN s.crm + 1 ELSE s.crm
  OBVIOUS
<1>1. f \in [Mac -> Entry \cup {NoEntry}] /\ st \in [Mac -> Port \cup {NoPort}] /\ mc \in [Mac -> Port \cup {NoPort}] /\ k \in Int
  BY <1>0 DEF State
<1>2. t = [s EXCEPT !.ent = f, !.state = st, !.mclag = mc, !.crm = k]
  BY DEF StoreAdded, State
<1>3. t \in State
  BY ZenonT(60), <1>1, <1>2 DEF State
<1>4. t.ent = f /\ t.asic = s.asic /\ t.events = s.events /\ t.bp = s.bp /\ t.members = s.members /\ t.saved = s.saved /\ t.excused = s.excused
  BY <1>2 DEF State
<1>5. t.ent = [s.ent EXCEPT ![m] = e] /\ t.asic = [s.asic EXCEPT ![m] = s.asic[m]]
  BY <1>4 DEF State
<1>6. Grows(s, t)
  BY <1>4 DEF Grows
<1> QED
  BY <1>3, <1>4, <1>5, <1>6 DEF Part

LEMMA RetypedPart ==
    ASSUME NEW s \in State, NEW m \in Mac, s.ent[m] # NoEntry
    PROVE  \E e : Part(s, Retyped(s, m), m, e, s.asic[m])
<1> PICK e : e = [s.ent[m] EXCEPT !.type = "dynamic", !.origin = "vxlan"]
  OBVIOUS
<1>0. e \in Entry
  <2>1. s.ent[m] \in Entry
    BY StateFacts
  <2> QED
    BY <2>1 DEF Entry, Types, Origins
<1> PICK t : t = Retyped(s, m)
  OBVIOUS
<1> PICK f : f = [s.ent EXCEPT ![m] = e]
  OBVIOUS
<1> PICK st : st = [s.state EXCEPT ![m] = NoPort]
  OBVIOUS
<1>1. f \in [Mac -> Entry \cup {NoEntry}] /\ st \in [Mac -> Port \cup {NoPort}]
  BY <1>0 DEF State
<1>2. t = [s EXCEPT !.ent = f, !.state = st]
  BY DEF Retyped, State
<1>3. t \in State
  BY <1>1, <1>2 DEF State
<1>4. t.ent = f /\ t.asic = s.asic /\ t.events = s.events /\ t.bp = s.bp /\ t.members = s.members /\ t.saved = s.saved /\ t.excused = s.excused
  BY <1>2 DEF State
<1>5. t.ent = [s.ent EXCEPT ![m] = e] /\ t.asic = [s.asic EXCEPT ![m] = s.asic[m]]
  BY <1>4 DEF State
<1>6. Grows(s, t)
  BY <1>4 DEF Grows
<1> QED
  BY <1>3, <1>4, <1>5, <1>6 DEF Part

LEMMA SetTypePart ==
    ASSUME NEW s \in State, NEW m \in Mac, s.ent[m] # NoEntry, NEW type \in Types
    PROVE  Part(s, SetType(s, m, type), m, [s.ent[m] EXCEPT !.type = type], s.asic[m])
<1> PICK e : e = [s.ent[m] EXCEPT !.type = type]
  OBVIOUS
<1>0. e \in Entry
  BY DEF State, Entry
<1> PICK t : t = SetType(s, m, type)
  OBVIOUS
<1> PICK f : f = [s.ent EXCEPT ![m] = e]
  OBVIOUS
<1>1. f \in [Mac -> Entry \cup {NoEntry}]
  BY <1>0 DEF State
<1>2. t = [s EXCEPT !.ent = f]
  BY DEF SetType, State
<1>3. t \in State
  BY <1>1, <1>2 DEF State
<1>4. t.ent = f /\ t.asic = s.asic /\ t.events = s.events /\ t.bp = s.bp /\ t.members = s.members /\ t.saved = s.saved /\ t.excused = s.excused
  BY <1>2 DEF State
<1>5. t.ent = [s.ent EXCEPT ![m] = e] /\ t.asic = [s.asic EXCEPT ![m] = s.asic[m]]
  BY <1>4 DEF State
<1>6. Grows(s, t)
  BY <1>4 DEF Grows
<1> QED
  BY <1>3, <1>4, <1>5, <1>6 DEF Part

LEMMA PeerRowGonePart ==
    ASSUME NEW s \in State, NEW m \in Mac
    PROVE  Part(s, PeerRowGone(s, m), m, s.ent[m], s.asic[m])
<1> PICK t : t = PeerRowGone(s, m)
  OBVIOUS
<1> PICK mc : mc = [s.mclag EXCEPT ![m] = NoPort]
  OBVIOUS
<1>1. mc \in [Mac -> Port \cup {NoPort}]
  BY DEF State
<1>2. t = [s EXCEPT !.mclag = mc]
  BY DEF PeerRowGone, State
<1>3. t \in State
  BY <1>1, <1>2 DEF State
<1>4. t.ent = s.ent /\ t.asic = s.asic /\ t.events = s.events /\ t.bp = s.bp /\ t.members = s.members /\ t.saved = s.saved /\ t.excused = s.excused
  BY <1>2 DEF State
<1>5. t.ent = [s.ent EXCEPT ![m] = s.ent[m]] /\ t.asic = [s.asic EXCEPT ![m] = s.asic[m]]
  BY <1>4 DEF State
<1>6. Grows(s, t)
  BY <1>4 DEF Grows
<1> QED
  BY <1>3, <1>4, <1>5, <1>6 DEF Part

LEMMA SetAttributesPart ==
    ASSUME NEW s \in State, NEW m \in Mac, NEW b \in BridgePorts, NEW sai \in SaiTypes,
           NEW allow \in BOOLEAN
    PROVE  \E a : /\ Part(s, SetAttributes(s, m, b, sai, allow), m, s.ent[m], a)
                  /\ s.asic[m] = NoEntry => a = NoEntry
                  /\ s.asic[m] # NoEntry => a # NoEntry /\ a.bp = b /\ a.sai = sai /\ a.allow = allow
<1>1. CASE s.asic[m] = NoEntry
  BY <1>1, PartSelf DEF SetAttributes
<1>2. CASE s.asic[m] # NoEntry
  <2> PICK a : a = [s.asic[m] EXCEPT !.bp = b, !.sai = sai, !.allow = allow]
    OBVIOUS
  <2>0. a \in AsicEntry /\ a.bp = b /\ a.sai = sai /\ a.allow = allow /\ a # NoEntry
    BY <1>2, NoEntryFacts DEF State, AsicEntry
  <2> PICK t : t = SetAttributes(s, m, b, sai, allow)
    OBVIOUS
  <2> PICK g : g = [s.asic EXCEPT ![m] = a]
    OBVIOUS
  <2>1. g \in [Mac -> AsicEntry \cup {NoEntry}]
    BY <2>0 DEF State
  <2>2. t = [s EXCEPT !.asic = g]
    BY <1>2 DEF SetAttributes, State
  <2>3. t \in State
    BY <2>1, <2>2 DEF State
  <2>4. t.asic = g /\ t.ent = s.ent /\ t.events = s.events /\ t.bp = s.bp /\ t.members = s.members /\ t.saved = s.saved /\ t.excused = s.excused
    BY <2>2 DEF State
  <2>5. t.ent = [s.ent EXCEPT ![m] = s.ent[m]] /\ t.asic = [s.asic EXCEPT ![m] = a]
    BY <2>4 DEF State
  <2>6. Grows(s, t)
    BY <2>4 DEF Grows
  <2>7. Part(s, t, m, s.ent[m], a)
    BY <2>3, <2>4, <2>5, <2>6 DEF Part
  <2> QED
    BY <1>2, <2>0, <2>7
<1> QED
  BY <1>1, <1>2

LEMMA CreatePart ==
    ASSUME NEW s \in State, NEW m \in Mac, NEW b \in BridgePorts, NEW sai \in SaiTypes,
           NEW allow \in BOOLEAN
    PROVE  \E a : /\ Part(s, Create(s, m, b, sai, allow), m, s.ent[m], a)
                  /\ s.asic[m] = NoEntry /\ b \in Range(s.bp)
                     => a # NoEntry /\ a.bp = b /\ a.sai = sai /\ a.allow = allow
<1>1. CASE s.asic[m] # NoEntry \/ b \notin Range(s.bp)
  BY <1>1, PartSelf DEF Create
<1>2. CASE ~(s.asic[m] # NoEntry \/ b \notin Range(s.bp))
  <2> PICK a : a = [origin |-> "asic", bp |-> b, sai |-> sai, allow |-> allow]
    OBVIOUS
  <2>0. a \in AsicEntry /\ a.bp = b /\ a.sai = sai /\ a.allow = allow /\ a # NoEntry
    BY NoEntryFacts DEF AsicEntry
  <2> PICK t : t = Create(s, m, b, sai, allow)
    OBVIOUS
  <2> PICK g : g = [s.asic EXCEPT ![m] = a]
    OBVIOUS
  <2>1. g \in [Mac -> AsicEntry \cup {NoEntry}]
    BY <2>0 DEF State
  <2>2. t = [s EXCEPT !.asic = g]
    BY <1>2 DEF Create, State
  <2>3. t \in State
    BY <2>1, <2>2 DEF State
  <2>4. t.asic = g /\ t.ent = s.ent /\ t.events = s.events /\ t.bp = s.bp /\ t.members = s.members /\ t.saved = s.saved /\ t.excused = s.excused
    BY <2>2 DEF State
  <2>5. t.ent = [s.ent EXCEPT ![m] = s.ent[m]] /\ t.asic = [s.asic EXCEPT ![m] = a]
    BY <2>4 DEF State
  <2>6. Grows(s, t)
    BY <2>4 DEF Grows
  <2>7. Part(s, t, m, s.ent[m], a)
    BY <2>3, <2>4, <2>5, <2>6 DEF Part
  <2> QED
    BY <2>0, <2>7
<1> QED
  BY <1>1, <1>2

LEMMA RemoveEntryPart ==
    ASSUME NEW s \in State, NEW m \in Mac
    PROVE  Part(s, RemoveEntry(s, m), m, s.ent[m], NoEntry)
<1> PICK t : t = RemoveEntry(s, m)
  OBVIOUS
<1> PICK g : g = [s.asic EXCEPT ![m] = NoEntry]
  OBVIOUS
<1>1. g \in [Mac -> AsicEntry \cup {NoEntry}]
  BY DEF State
<1>2. t = [s EXCEPT !.asic = g]
  BY DEF RemoveEntry, State
<1>3. t \in State
  BY <1>1, <1>2 DEF State
<1>4. t.asic = g /\ t.ent = s.ent /\ t.events = s.events /\ t.bp = s.bp /\ t.members = s.members /\ t.saved = s.saved /\ t.excused = s.excused
  BY <1>2 DEF State
<1>5. t.ent = [s.ent EXCEPT ![m] = s.ent[m]] /\ t.asic = [s.asic EXCEPT ![m] = NoEntry]
  BY <1>4 DEF State
<1>6. Grows(s, t)
  BY <1>4 DEF Grows
<1> QED
  BY <1>3, <1>4, <1>5, <1>6 DEF Part

Excusing(s, t, x, M) ==
    /\ t \in State /\ Grows(s, t) /\ t.ent = s.ent /\ t.asic = s.asic /\ t.events = s.events
    /\ t.bp = s.bp /\ t.members = s.members /\ t.saved = s.saved /\ t.excused[x] = s.excused[x] \cup M

LEMMA ExcuseIs ==
    ASSUME NEW s \in State, NEW x \in Excuses, NEW M \in SUBSET (Mac \cup (Mac \X Nat)), NEW t, t = Excuse(s, x, M)
    PROVE  Excusing(s, t, x, M)
<1>1. t \in State /\ t = [s EXCEPT !.excused = [s.excused EXCEPT ![x] = s.excused[x] \cup M]]
  BY ExcuseType
<1>2. /\ t.ent = s.ent /\ t.asic = s.asic /\ t.events = s.events /\ t.bp = s.bp /\ t.members = s.members
      /\ t.saved = s.saved /\ t.excused = [s.excused EXCEPT ![x] = s.excused[x] \cup M]
  BY <1>1 DEF State
<1>3. Grows(s, t) /\ t.excused[x] = s.excused[x] \cup M
  BY <1>2 DEF Grows, State
<1> QED
  BY <1>1, <1>2, <1>3 DEF Excusing

LEMMA ExcusePart ==
    ASSUME NEW s \in State, NEW x \in Excuses, NEW M \in SUBSET (Mac \cup (Mac \X Nat)), NEW m \in Mac
    PROVE  /\ Part(s, Excuse(s, x, M), m, s.ent[m], s.asic[m])
           /\ Excuse(s, x, M).excused[x] = s.excused[x] \cup M
<1> PICK t : t = Excuse(s, x, M)
  OBVIOUS
<1>1. Excusing(s, t, x, M)
  BY ExcuseIs
<1> QED
  BY <1>1, StateFacts DEF Part, Excusing

LEMMA RacesPart ==
    ASSUME NEW s \in State, NEW m \in Mac
    PROVE  /\ Part(s, Races(s, m), m, s.ent[m], s.asic[m])
           /\ m \in Lost(Races(s, m)) \/ (Of(s.events, m) = {} /\ \A f \in Ev(s.events) : f.mac # AnyMac)
<1>1. CASE OnTheWay(s) \cap {m, AnyMac} # {}
  <2>1. Races(s, m) = Excuse(s, "raced", {m})
    BY <1>1 DEF Races
  <2>2. "raced" \in Excuses /\ {m} \in SUBSET (Mac \cup (Mac \X Nat))
    BY DEF Excuses
  <2> QED
    BY <2>1, <2>2, ExcusePart DEF Lost
<1>2. CASE OnTheWay(s) \cap {m, AnyMac} = {}
  <2>1. Races(s, m) = s
    BY <1>2 DEF Races
  <2> QED
    BY <1>2, <2>1, PartSelf DEF OnTheWay, Of, Ev
<1> QED
  BY <1>1, <1>2

-----------------------------------------------------------------------------
(* Flushes                                                                 *)

\* For x the queue r is as good as q: the same notifications about it in the
\* same order, and the same flushes before them.
SameFor(q, r, x) ==
    /\ Of(r, x) = Of(q, x)
    /\ \A y, z \in Of(q, x) : Before(r, y, z) <=> Before(q, y, z)
    /\ \A f : f.mac = AnyMac => (f \in Ev(r) <=> f \in Ev(q))
    /\ \A y \in Of(q, x), f \in Ev(q) : f.mac = AnyMac => (Before(r, y, f) <=> Before(q, y, f))

LEMMA SameGoing ==
    ASSUME NEW q, NEW r, NEW c, Going(c, q), q \in Seq(Notifications),
           \A f : f.mac = AnyMac /\ f \in Ev(q) => f \in Ev(r)
    PROVE  Going(c, r)
<1>1. PICK f \in Ev(q) : f.type = "FLUSHED" /\ f.bp \in {NoBp, c.bp}
  BY DEF Going
<1>2. f \in Notifications
  BY DEF Ev
<1>3. f.mac = AnyMac
  BY <1>1, <1>2 DEF Notifications
<1> QED
  BY <1>1, <1>3 DEF Going

\* Nor more flushes, and none behind one about x.
FewerFor(q, r, x) ==
    /\ Of(r, x) = Of(q, x)
    /\ \A y, z \in Of(q, x) : Before(r, y, z) <=> Before(q, y, z)
    /\ \A f : f.mac = AnyMac /\ f \in Ev(r) => f \in Ev(q)
    /\ \A y \in Of(q, x), f \in Ev(q) : f.mac = AnyMac /\ Before(r, y, f) => Before(q, y, f)

LEMMA SameQueueOk ==
    ASSUME NEW q, NEW r, NEW x, FewerFor(q, r, x), NEW a, NEW B, QueueOk(a, q, B, x)
    PROVE  QueueOk(a, r, B, x)
<1>1. \A e : Final(r, x, e) <=> Final(q, x, e)
  BY DEF FewerFor, Final
<1>2. \A y \in Of(q, x) : AgedLater(r, x, y) <=> AgedLater(q, x, y)
  BY DEF FewerFor, AgedLater
<1>3. Of(r, x) = Of(q, x) /\ \A y, z \in Of(q, x) : Before(r, y, z) <=> Before(q, y, z)
  BY DEF FewerFor
<1>4. \A y \in Of(r, x), f \in Ev(r) : f.mac = AnyMac => ~Before(r, y, f)
  BY DEF FewerFor, QueueOk
<1>5. a = NoEntry => \A y \in Of(r, x) : AgedLater(r, x, y)
  BY <1>2, <1>3 DEF QueueOk
<1>6. a # NoEntry => \E e : /\ Final(r, x, e) /\ e.type \in {"LEARNED", "MOVE"}
                             /\ e.bp = a.bp /\ a.sai = "dynamic" /\ ~a.allow
  BY <1>1 DEF QueueOk
<1>7. \A y, z \in Of(r, x) : z.type = "LEARNED" /\ Before(r, y, z) => AgedLater(r, x, y)
  BY <1>2, <1>3 DEF QueueOk
<1>8. \A y \in Of(r, x) : y.bp \in B
  BY <1>3 DEF QueueOk
<1>9. ASSUME NEW e \in Of(r, x), NEW z \in Of(r, x), e.type = "AGED", Final(r, x, e), z # e,
             \A y \in Of(r, x) \ {e, z} : Before(r, y, z)
      PROVE  z.bp = e.bp /\ z.type # "AGED"
  <2>1. \A y \in Of(q, x) \ {e, z} : Before(q, y, z)
    BY <1>3, <1>9
  <2> QED
    BY <1>1, <1>3, <1>9, <2>1 DEF QueueOk
<1> QED
  BY <1>4, <1>5, <1>6, <1>7, <1>8, <1>9 DEF QueueOk

LEMMA FewerMac ==
    ASSUME NEW q, NEW r, NEW x, FewerFor(q, r, x), NEW c, NEW a, NEW B, Going(c, q) => Going(c, r)
    PROVE  /\ InStep(c, a, q, B, x) => InStep(c, a, r, B, x)
           /\ Fixed(c, a, q, x) => Fixed(c, a, r, x)
<1>1. Of(r, x) = Of(q, x) /\ \A y, z \in Of(q, x) : Before(r, y, z) <=> Before(q, y, z)
  BY DEF FewerFor
<1>3. \A y \in Of(q, x) : AgedBefore(r, x, y) <=> AgedBefore(q, x, y)
  BY <1>1 DEF AgedBefore
<1>4. Busy(c, q, B, x) => Busy(c, r, B, x)
  BY <1>1, <1>3 DEF Busy
<1>5. Idle(c, a, q) => Idle(c, a, r)
  BY DEF Idle
<1>6. InStep(c, a, q, B, x) => InStep(c, a, r, B, x)
  BY <1>1, <1>4, <1>5, SameQueueOk DEF InStep
<1>7. Fixed(c, a, q, x) => Fixed(c, a, r, x)
  BY <1>1, <1>3 DEF Fixed
<1> QED
  BY <1>6, <1>7

LEMMA SameMac ==
    ASSUME NEW q \in Seq(Notifications), NEW r \in Seq(Notifications), NEW x, SameFor(q, r, x), NEW c, NEW a, NEW B
    PROVE  /\ InStep(c, a, q, B, x) => InStep(c, a, r, B, x)
           /\ Fixed(c, a, q, x) => Fixed(c, a, r, x)
<1>1. Going(c, q) => Going(c, r)
  BY SameGoing DEF SameFor
<1>2. FewerFor(q, r, x)
  BY DEF SameFor, FewerFor
<1> QED
  BY <1>1, <1>2, FewerMac

\* The queue after e, for the others.
LEMMA QueuedSame ==
    ASSUME NEW q \in Seq(Notifications), Distinct(q), NEW e \in Notifications, NEW x \in Mac, e.mac # x, e.mac # AnyMac
    PROVE  SameFor(q, Queued(q, e), x)
<1> PICK r : r = Queued(q, e)
  OBVIOUS
<1>1. QueuedAs(q, e, r)
  BY QueuedOrder
<1>2. Ev(r) = Ev(q) \cup {e}
  BY <1>1 DEF QueuedAs
<1>3. Of(r, x) = Of(q, x) /\ e \notin Of(q, x)
  BY <1>2 DEF Of
<1>4. \A y, z : y # e /\ z # e => (Before(r, y, z) <=> Before(q, y, z))
  BY <1>1 DEF QueuedAs
<1> QED
  BY <1>2, <1>3, <1>4 DEF SameFor

LEMMA TailSame ==
    ASSUME NEW q \in Seq(Notifications), Distinct(q), NEW x \in Mac, q # <<>>, Head(q).mac # x, Head(q).mac # AnyMac
    PROVE  SameFor(q, Tail(q), x)
<1> PICK r, h : r = Tail(q) /\ h = Head(q)
  OBVIOUS
<1>1. TailAs(q, h, r)
  BY TailOrder
<1>2. Ev(r) = Ev(q) \ {h}
  BY <1>1 DEF TailAs
<1>3. Of(r, x) = Of(q, x) /\ h \notin Of(q, x)
  BY <1>2 DEF Of
<1>4. \A y, z : y # h => (Before(r, y, z) <=> Before(q, y, z))
  BY <1>1 DEF TailAs
<1> QED
  BY <1>2, <1>3, <1>4 DEF SameFor

LEMMA QueuedType ==
    ASSUME NEW q \in Seq(Notifications), NEW e \in Notifications
    PROVE  Queued(q, e) \in Seq(Notifications)
<1>1. RemoveFirst(q, e) \in Seq(Notifications)
  BY RemoveFirstType
<1> QED
  BY <1>1 DEF Queued

\* What flush_fdb_entries does to a MAC.
Flush(b) == Event("FLUSHED", AnyMac, b)
Swept(a, b) == IF At(a, b) /\ a.sai = "dynamic" THEN NoEntry ELSE a

LEMMA flush_fdb_entriesFacts ==
    ASSUME NEW s, Typed(s), NEW b \in BridgePorts \cup {NoBp}
    PROVE  LET t == flush_fdb_entries(s, b)
           IN  /\ Typed(t) /\ Grows(s, t) /\ t.ent = s.ent /\ t.bp = s.bp /\ t.saved = s.saved
               /\ t.members = s.members
               /\ \A x \in Mac : t.asic[x] = Swept(s.asic[x], b)
               /\ \A x \in Mac : Of(s.events, x) # {} => x \in Lost(t)
               /\ \A x \in Mac : Of(s.events, x) = {} => Of(t.events, x) = {}
               /\ Ev(t.events) = Ev(s.events) \cup {Flush(b)}
<1> PICK t : t = flush_fdb_entries(s, b)
  OBVIOUS
<1> PICK c : c = Crosses(s)
  OBVIOUS
<1> PICK M : M = OnTheWay(s) \cap Mac
  OBVIOUS
<1>0. s \in State /\ s.events \in Seq(Notifications) /\ Distinct(s.events) /\ "raced" \in Excuses
  BY DEF Typed, State, Excuses
<1>1. Excusing(s, c, "raced", M)
  <2>1. M \in SUBSET (Mac \cup (Mac \X Nat)) /\ c = Excuse(s, "raced", M)
    BY DEF Crosses
  <2> QED
    BY <1>0, <2>1, ExcuseIs
<1>2. /\ c \in State /\ Grows(s, c) /\ c.ent = s.ent /\ c.bp = s.bp /\ c.saved = s.saved /\ c.members = s.members
      /\ c.events = s.events /\ c.asic = s.asic /\ c.excused["raced"] = s.excused["raced"] \cup M
  BY <1>1 DEF Excusing
<1> PICK a : a = [m \in Mac |-> IF At(c.asic[m], b) /\ c.asic[m].sai = "dynamic" THEN NoEntry ELSE c.asic[m]]
  OBVIOUS
<1> PICK q : q = Queued(s.events, Flush(b))
  OBVIOUS
<1>3. t = [c EXCEPT !.asic = a, !.events = q]
  BY <1>2 DEF flush_fdb_entries, Notify, Queued, Flush, State
<1>4. /\ t.ent = s.ent /\ t.bp = s.bp /\ t.saved = s.saved /\ t.members = s.members /\ t.events = q
      /\ t.asic = a /\ t.excused = c.excused
  BY <1>2, <1>3 DEF State
<1>5. t \in State
  BY <1>0, flush_fdb_entriesSilent DEF Silent, Calm
<1>6. Flush(b) \in Notifications
  BY DEF Flush, Event, Notifications
<1>7. QueuedAs(s.events, Flush(b), q)
  BY <1>0, QueuedOrder
<1>8. Grows(s, t) /\ t.excused["raced"] = s.excused["raced"] \cup M
  BY <1>2, <1>4 DEF Grows
<1>9. Typed(t)
  BY <1>4, <1>5, <1>7 DEF Typed, PortNames, QueuedAs
<1>10. \A x \in Mac : t.asic[x] = Swept(s.asic[x], b)
  BY <1>2, <1>4 DEF Swept
<1>11. \A x \in Mac : Of(s.events, x) # {} => x \in Lost(t)
  BY <1>8 DEF Lost, Of, Ev, OnTheWay
<1>12. Ev(t.events) = Ev(s.events) \cup {Flush(b)}
  BY <1>4, <1>7 DEF QueuedAs
<1>13. \A x \in Mac : Of(s.events, x) = {} => Of(t.events, x) = {}
  BY <1>12, PortsAssumption DEF Of, Flush, Event
<1> QED
  BY <1>4, <1>8, <1>9, <1>10, <1>11, <1>12, <1>13

\* What a flush does to the cached entry.
Mark(c, b) == IF At(c, b) THEN [c EXCEPT !.flush = TRUE] ELSE c

LEMMA MarkFacts ==
    ASSUME NEW c \in Entry \cup {NoEntry}, NEW b
    PROVE  LET n == Mark(c, b)
           IN  /\ n \in Entry \cup {NoEntry} /\ (n = NoEntry <=> c = NoEntry)
               /\ n.bp = c.bp /\ n.origin = c.origin /\ n.sai = c.sai
               /\ c # NoEntry => n.type = c.type /\ n.dest = c.dest /\ Data(n) = Data(c)
               /\ At(c, b) => n.flush = TRUE
               /\ ~At(c, b) => n = c
               /\ c # NoEntry /\ c.flush => n.flush
<1>1. CASE At(c, b)
  <2>1. c \in Entry
    BY <1>1 DEF At
  <2>2. Mark(c, b) = [c EXCEPT !.flush = TRUE]
    BY <1>1 DEF Mark
  <2>3. /\ Mark(c, b) \in Entry /\ Mark(c, b).bp = c.bp /\ Mark(c, b).origin = c.origin
        /\ Mark(c, b).sai = c.sai /\ Mark(c, b).type = c.type /\ Mark(c, b).dest = c.dest
        /\ Mark(c, b).flush = TRUE
    BY <2>1, <2>2 DEF Entry
  <2> QED
    BY <1>1, <2>1, <2>3, NoEntryFacts DEF Data
<1>2. CASE ~At(c, b)
  BY <1>2 DEF Mark
<1> QED
  BY <1>1, <1>2

LEMMA FlushIdle ==
    ASSUME NEW c \in Entry \cup {NoEntry}, NEW a \in AsicEntry \cup {NoEntry}, NEW q, NEW r, NEW B, NEW x, NEW b,
           Of(q, x) = {}, Of(r, x) = {}, Ev(r) = Ev(q) \cup {Flush(b)}, InStep(c, a, q, B, x),
           NEW n, \/ n = Mark(c, b)
                  \/ n = c /\ (c = NoEntry \/ ~c.flush => Swept(a, b) = a)
    PROVE  InStep(n, Swept(a, b), r, B, x)
<1>1. /\ (n = NoEntry <=> c = NoEntry) /\ n.bp = c.bp /\ n.origin = c.origin /\ n.sai = c.sai
      /\ c # NoEntry => n.type = c.type
      /\ c # NoEntry /\ c.flush => n.flush
  BY ZenonT(60), MarkFacts
<1>2. Going(c, q) => Going(n, r)
  BY <1>1 DEF Going
<1>3. KindOk(n)
  BY <1>1 DEF KindOk, InStep
<1>4. n # NoEntry => n.bp \in B \/ Going(n, r)
  BY <1>1, <1>2 DEF InStep
<1>5. Idle(c, a, q)
  BY DEF InStep
<1>6. Flush(b).type = "FLUSHED" /\ Flush(b).bp = b /\ Flush(b) \in Ev(r)
  BY DEF Flush, Event
<1>7. Idle(n, Swept(a, b), r)
  <2>1. CASE a = NoEntry
    <3>1. Swept(a, b) = NoEntry
      BY <2>1 DEF Swept
    <3> QED
      BY <1>1, <1>2, <1>5, <2>1, <3>1 DEF Idle
  <2>2. CASE a # NoEntry
    <3>1. c # NoEntry /\ a.bp = c.bp /\ a.sai = c.sai /\ ~(c.sai = "dynamic" /\ c.flush)
      BY <1>5, <2>2 DEF Idle
    <3>2. CASE At(a, b) /\ a.sai = "dynamic"
      <4>1. Swept(a, b) = NoEntry /\ At(c, b) /\ b \in {NoBp, c.bp}
        BY <3>1, <3>2 DEF Swept, At
      <4>2. n = Mark(c, b)
        BY <2>2, <3>1, <3>2, <4>1
      <4>3. n # NoEntry /\ n.sai = "dynamic" /\ n.flush /\ n.bp = c.bp
        BY <1>1, <3>1, <3>2, <4>1, <4>2, MarkFacts
      <4>4. Going(n, r)
        BY <1>6, <4>1, <4>3 DEF Going
      <4> QED
        BY <4>1, <4>4 DEF Idle
    <3>3. CASE ~(At(a, b) /\ a.sai = "dynamic")
      <4>1. Swept(a, b) = a
        BY <3>3 DEF Swept
      <4>2. ~(n.sai = "dynamic" /\ n.flush)
        <5>1. CASE n = Mark(c, b) /\ At(c, b)
          BY <1>1, <2>2, <3>1, <3>3, <5>1 DEF At
        <5>2. CASE ~(n = Mark(c, b) /\ At(c, b))
          <6>1. n = c
            BY <5>2, MarkFacts
          <6> QED
            BY <3>1, <6>1
        <5> QED
          BY <5>1, <5>2
      <4> QED
        BY <1>1, <2>2, <3>1, <4>1, <4>2 DEF Idle
    <3> QED
      BY <3>2, <3>3
  <2> QED
    BY <2>1, <2>2
<1> QED
  BY <1>3, <1>4, <1>7 DEF InStep

\* A flush is safe for a MAC whose ghost it does not leave.
LEMMA FlushedMac ==
    ASSUME NEW s, Typed(s), NEW b \in BridgePorts \cup {NoBp}, NEW t, NEW u, u = flush_fdb_entries(s, b),
           t \in State, Grows(u, t), t.bp = s.bp, t.saved = s.saved, t.events = u.events, t.asic = u.asic,
           NEW x \in Mac,
           \/ x \in Lost(t)
           \/ t.ent[x] = Mark(s.ent[x], b)
           \/ t.ent[x] = s.ent[x] /\ (s.ent[x] = NoEntry \/ ~s.ent[x].flush => t.asic[x] = s.asic[x]),
           t.ent[x] \in {s.ent[x], Mark(s.ent[x], b)}
    PROVE  Safe(s, t, x)
<1>0. s \in State /\ s.ent[x] \in Entry \cup {NoEntry} /\ s.asic[x] \in AsicEntry \cup {NoEntry}
  BY DEF Typed, State
<1>1. /\ Grows(s, u)
      /\ \A y \in Mac : u.asic[y] = Swept(s.asic[y], b)
      /\ \A y \in Mac : Of(s.events, y) # {} => y \in Lost(u)
      /\ \A y \in Mac : Of(s.events, y) = {} => Of(u.events, y) = {}
      /\ Ev(u.events) = Ev(s.events) \cup {Flush(b)}
  BY flush_fdb_entriesFacts
<1>2. Lost(u) \subseteq Lost(t)
  BY GrowsFacts
<1>3. /\ Lost(s) \subseteq Lost(u) /\ Loose(s) \subseteq Loose(u) /\ Loose(u) \subseteq Loose(t)
  BY <1>1, GrowsFacts
<1>4. /\ (t.ent[x] = NoEntry <=> s.ent[x] = NoEntry) /\ t.ent[x].bp = s.ent[x].bp
      /\ t.ent[x].origin = s.ent[x].origin
      /\ s.ent[x] # NoEntry => t.ent[x].type = s.ent[x].type /\ Data(t.ent[x]) = Data(s.ent[x])
  <2>1. CASE t.ent[x] = s.ent[x]
    BY <2>1
  <2>2. CASE t.ent[x] = Mark(s.ent[x], b)
    <3>1. PICK c \in Entry \cup {NoEntry} : c = s.ent[x]
      BY <1>0
    <3>2. PICK n : n = Mark(c, b)
      OBVIOUS
    <3>3. /\ (n = NoEntry <=> c = NoEntry) /\ n.bp = c.bp /\ n.origin = c.origin
          /\ c # NoEntry => n.type = c.type /\ Data(n) = Data(c)
      BY <3>2, MarkFacts
    <3> QED
      BY <2>2, <3>1, <3>2, <3>3
  <2> QED
    BY <2>1, <2>2
<1>5. \A d : Cached(s.ent[x], d, s.bp) => Cached(t.ent[x], d, t.bp)
  BY <1>4 DEF Cached
<1>6. CASE x \in Lost(t)
  BY <1>5, <1>6 DEF Safe, MacOk, Loose
<1>7. CASE x \notin Lost(t)
  <2>1. Of(s.events, x) = {} /\ Of(t.events, x) = {} /\ x \notin Lost(s)
    BY <1>1, <1>2, <1>3, <1>7
  <2>2. Ev(t.events) = Ev(s.events) \cup {Flush(b)} /\ t.asic[x] = Swept(s.asic[x], b)
    BY <1>1
  <2>3. ASSUME InStep(s.ent[x], s.asic[x], s.events, Range(s.bp), x)
        PROVE  InStep(t.ent[x], t.asic[x], t.events, Range(t.bp), x)
    BY <1>0, <1>7, <2>1, <2>2, <2>3, FlushIdle
  <2>4. ASSUME Fixed(s.ent[x], s.asic[x], s.events, x)
        PROVE  Fixed(t.ent[x], t.asic[x], t.events, x)
    BY <1>4, <2>1, <2>2, <2>4 DEF Fixed, Swept
  <2>5. MacOk(s, x) => MacOk(t, x)
    BY <1>3, <2>1, <2>3, <2>4 DEF MacOk
  <2> QED
    BY <1>5, <2>5 DEF Safe
<1> QED
  BY <1>6, <1>7

LEMMA flushFDBEntriesSound ==
    ASSUME NEW s, Typed(s), NEW b \in BridgePorts \cup {NoBp}
    PROVE  LET t == flushFDBEntries(s, b)
           IN  /\ Sound(s, t, {}) /\ t.saved = s.saved /\ t.bp = s.bp /\ t.members = s.members
               /\ \A x \in Mac : t.ent[x] = Mark(s.ent[x], b)
               /\ \A x \in Mac : s.asic[x] # NoEntry /\ At(s.asic[x], b) /\ s.asic[x].sai = "dynamic" /\ ~At(s.ent[x], b)
                                 => x \in Lost(t)
               /\ \A x \in Mac : Of(s.events, x) # {} => x \in Lost(t)
               /\ \A x \in Mac : Of(s.events, x) = {} => Of(t.events, x) = {}
               /\ \A x \in Mac : s.asic[x] = NoEntry => t.asic[x] = NoEntry
<1> PICK t : t = flushFDBEntries(s, b)
  OBVIOUS
<1> PICK u : u = flush_fdb_entries(s, b)
  OBVIOUS
<1> PICK v : v = Marked(u, b)
  OBVIOUS
<1> PICK G : G = {m \in Flushed(s, u) : ~At(s.ent[m], b)}
  OBVIOUS
<1>0. s \in State
  BY DEF Typed
<1>1. /\ Typed(u) /\ Grows(s, u) /\ u.ent = s.ent /\ u.bp = s.bp /\ u.saved = s.saved /\ u.members = s.members
      /\ \A x \in Mac : u.asic[x] = Swept(s.asic[x], b)
      /\ \A x \in Mac : Of(s.events, x) # {} => x \in Lost(u)
      /\ \A x \in Mac : Of(s.events, x) = {} => Of(u.events, x) = {}
  BY SMTT(30), flush_fdb_entriesFacts
<1>2. u \in State
  BY <1>1 DEF Typed
<1> PICK f : f = [m \in Mac |-> IF At(u.ent[m], b) THEN [u.ent[m] EXCEPT !.flush = TRUE] ELSE u.ent[m]]
  OBVIOUS
<1>3. v = [u EXCEPT !.ent = f]
  BY <1>2 DEF Marked, State
<1>4. v \in State
  BY <1>2, MarkedCalm DEF Calm
<1>5. "ghosts" \in Excuses /\ G \in SUBSET (Mac \cup (Mac \X Nat))
  BY DEF Excuses, Flushed
<1>6. t = Excuse(v, "ghosts", G)
  BY DEF flushFDBEntries
<1>7. Excusing(v, t, "ghosts", G)
  BY <1>4, <1>5, <1>6, ExcuseIs
<1>8. v.excused = u.excused /\ v.bp = u.bp /\ v.saved = u.saved /\ v.members = u.members /\ v.asic = u.asic
      /\ v.events = u.events /\ v.ent = f
  BY <1>2, <1>3 DEF State
<1>9. /\ t \in State /\ t.bp = u.bp /\ t.saved = u.saved /\ t.members = u.members /\ t.asic = u.asic
      /\ t.events = u.events /\ t.ent = f
  BY <1>7, <1>8 DEF Excusing
<1>10. Grows(u, t) /\ t.excused["ghosts"] = u.excused["ghosts"] \cup G
  BY <1>7, <1>8 DEF Grows, Excusing
<1>11. Grows(s, t) /\ Lost(u) \subseteq Lost(t) /\ G \subseteq Lost(t)
  BY <1>1, <1>10, GrowsFacts DEF Grows, Lost
<1>12. ASSUME NEW x \in Mac PROVE t.ent[x] = Mark(s.ent[x], b)
  <2>1. f[x] = IF At(s.ent[x], b) THEN [s.ent[x] EXCEPT !.flush = TRUE] ELSE s.ent[x]
    BY <1>1
  <2> QED
    BY <1>9, <2>1 DEF Mark
<1>13. \A x \in Mac : s.asic[x] # NoEntry /\ At(s.asic[x], b) /\ s.asic[x].sai = "dynamic" /\ ~At(s.ent[x], b)
                      => x \in Lost(t)
  BY <1>1, <1>11 DEF Flushed, Swept
<1>14. Typed(t)
  BY <1>1, <1>9 DEF Typed, PortNames
<1>15. \A x \in Mac : Safe(s, t, x)
  BY <1>1, <1>9, <1>10, <1>12, FlushedMac
<1>16. \A x \in Mac : s.asic[x] = NoEntry => t.asic[x] = NoEntry
  BY <1>1, <1>9 DEF Swept
<1> QED
  BY <1>1, <1>9, <1>11, <1>12, <1>13, <1>14, <1>15, <1>16 DEF Sound

LEMMA flushFdbByVlanSound ==
    ASSUME NEW s, Typed(s)
    PROVE  Sound(s, flushFdbByVlan(s), {}) /\ flushFdbByVlan(s).saved = s.saved
<1> PICK t : t = flushFdbByVlan(s)
  OBVIOUS
<1> PICK u : u = flush_fdb_entries(s, NoBp)
  OBVIOUS
<1> PICK G : G = {m \in Flushed(s, u) : s.ent[m] = NoEntry \/ ~s.ent[m].flush}
  OBVIOUS
<1>1. /\ Typed(u) /\ Grows(s, u) /\ u.ent = s.ent /\ u.bp = s.bp /\ u.saved = s.saved /\ u.members = s.members
      /\ \A x \in Mac : u.asic[x] = Swept(s.asic[x], NoBp)
  BY flush_fdb_entriesFacts
<1>2. u \in State
  BY <1>1 DEF Typed
<1>5. "ghosts" \in Excuses /\ G \in SUBSET (Mac \cup (Mac \X Nat))
  BY DEF Excuses, Flushed
<1>6. t = Excuse(u, "ghosts", G)
  BY DEF flushFdbByVlan
<1>7. Excusing(u, t, "ghosts", G)
  BY <1>2, <1>5, <1>6, ExcuseIs
<1>9. /\ t \in State /\ t.bp = u.bp /\ t.saved = u.saved /\ t.members = u.members /\ t.asic = u.asic
      /\ t.events = u.events /\ t.ent = u.ent
  BY <1>7 DEF Excusing
<1>10. Grows(u, t) /\ t.excused["ghosts"] = u.excused["ghosts"] \cup G
  BY <1>7 DEF Excusing
<1>11. Grows(s, t) /\ G \subseteq Lost(t)
  BY <1>1, <1>10 DEF Grows, Lost
<1>12. \A x \in Mac : x \in Lost(t) \/ (s.ent[x] = NoEntry \/ ~s.ent[x].flush => t.asic[x] = s.asic[x])
  BY <1>1, <1>9, <1>11 DEF Flushed, Swept, At
<1>14. Typed(t)
  BY <1>1, <1>9 DEF Typed, PortNames
<1>15. \A x \in Mac : Safe(s, t, x)
  BY <1>1, <1>9, <1>10, <1>12, FlushedMac
<1> QED
  BY <1>1, <1>9, <1>11, <1>14, <1>15 DEF Sound

\* A bridge port goes when no entry of the ASIC is at it.
LEMMA BridgePortGoneSound ==
    ASSUME NEW s, Typed(s), NEW p \in Port, \A x \in Mac : s.asic[x].bp # s.bp[p],
           \A x \in Mac : Of(s.events, x) # {} => x \in Lost(s),
           NEW t, t = [s EXCEPT !.bp[p] = NoBp]
    PROVE  Sound(s, t, {})
<1> PICK f : f = [s.bp EXCEPT ![p] = NoBp]
  OBVIOUS
<1>0. s \in State /\ s.bp \in [Port -> BridgePorts \cup {NoBp}]
  BY DEF Typed, State
<1>1. f \in [Port -> BridgePorts \cup {NoBp}] /\ f[p] = NoBp /\ \A o \in Port \ {p} : f[o] = s.bp[o]
  BY <1>0
<1>2. t = [s EXCEPT !.bp = f]
  BY <1>0 DEF State
<1>3. t \in State
  BY <1>0, <1>1, <1>2 DEF State
<1>4. /\ t.bp = f /\ t.ent = s.ent /\ t.asic = s.asic /\ t.events = s.events /\ t.saved = s.saved
      /\ t.excused = s.excused
  BY <1>0, <1>2 DEF State
<1>5. Typed(t)
  BY <1>1, <1>3, <1>4 DEF Typed, PortNames
<1>6. Grows(s, t) /\ Lost(t) = Lost(s) /\ Loose(t) = Loose(s) /\ Waived(t) = Waived(s)
  BY <1>4 DEF Grows, Lost, Loose, Waived
<1>7. \A b \in Range(s.bp) : b = s.bp[p] \/ b \in Range(t.bp)
  BY <1>0, <1>1, <1>4 DEF Range
<1>8. ASSUME NEW x \in Mac PROVE Safe(s, t, x)
  <2>1. CASE x \in Lost(t)
    <3>1. x \in Waived(t) /\ x \in Loose(t)
      BY <2>1 DEF Waived, Loose
    <3> QED
      BY <2>1, <3>1 DEF Safe, MacOk
  <2>2. CASE x \notin Lost(t)
    <3> SUFFICES ASSUME MacOk(s, x)
                 PROVE  /\ MacOk(t, x)
                        /\ \A d : Static(d) /\ Cached(s.ent[x], d, s.bp)
                                  => x \in Waived(t) \/ Cached(t.ent[x], d, t.bp)
      BY DEF Safe
    <3> PICK c, a, q : c = s.ent[x] /\ a = s.asic[x] /\ q = s.events
      OBVIOUS
    <3>1. Of(q, x) = {} /\ InStep(c, a, q, Range(s.bp), x) /\ NotLearnt(s.saved, x)
      BY <1>6, <2>2 DEF MacOk
    <3>2. a.bp # s.bp[p]
      OBVIOUS
    <3>3. c # NoEntry => c.bp # s.bp[p] \/ Going(c, q)
      BY <3>1, <3>2 DEF InStep, Idle
    <3>4. InStep(c, a, q, Range(t.bp), x)
      BY <1>7, <3>1, <3>3 DEF InStep
    <3>5. MacOk(t, x)
      BY <1>4, <1>6, <3>1, <3>4 DEF MacOk
    <3>6. ASSUME NEW d, Static(d), Cached(c, d, s.bp) PROVE Cached(c, d, t.bp)
      <4>1. d.port \in Port /\ c # NoEntry /\ c.bp = s.bp[d.port] /\ c.type = "static"
        BY <3>6 DEF Static, Cached, Data
      <4>2. c.sai # "dynamic"
        BY <3>1, <4>1 DEF InStep, KindOk
      <4>3. c.bp # s.bp[p]
        BY <3>3, <4>1, <4>2 DEF Going
      <4>4. t.bp[d.port] = s.bp[d.port]
        BY <1>1, <1>4, <4>1, <4>3
      <4> QED
        BY <3>6, <4>1, <4>4 DEF Cached
    <3> QED
      BY <1>4, <3>5, <3>6
  <2> QED
    BY <2>1, <2>2
<1> QED
  BY <1>5, <1>6, <1>8 DEF Sound

LEMMA removeBridgePortSound ==
    ASSUME NEW s, Typed(s), NEW p \in Port
    PROVE  LET t == removeBridgePort(s, p)
           IN  Sound(s, t, {}) /\ t.saved = s.saved /\ t.members = s.members
<1> PICK t : t = removeBridgePort(s, p)
  OBVIOUS
<1> PICK u : u = flushFDBEntries(s, s.bp[p])
  OBVIOUS
<1>0. s \in State /\ s.bp[p] \in BridgePorts \cup {NoBp}
  BY DEF Typed, State
<1>1. /\ Sound(s, u, {}) /\ u.saved = s.saved /\ u.bp = s.bp /\ u.members = s.members
      /\ \A x \in Mac : Of(s.events, x) # {} => x \in Lost(u)
      /\ \A x \in Mac : Of(s.events, x) = {} => Of(u.events, x) = {}
  BY <1>0, flushFDBEntriesSound
<1>2. CASE s.bp[p] = NoBp
  BY <1>2, SoundSelf DEF removeBridgePort
<1>3. CASE s.bp[p] # NoBp /\ \E m \in Mac : u.asic[m].bp = s.bp[p]
  BY <1>1, <1>3 DEF removeBridgePort
<1>4. CASE s.bp[p] # NoBp /\ ~(\E m \in Mac : u.asic[m].bp = s.bp[p])
  <2>1. t = [u EXCEPT !.bp[p] = NoBp]
    BY <1>4 DEF removeBridgePort
  <2>2. Typed(u) /\ u \in State
    BY <1>1 DEF Sound, Typed
  <2>3. \A x \in Mac : Of(u.events, x) # {} => x \in Lost(u)
    BY <1>1
  <2>4. Sound(u, t, {})
    BY <1>1, <1>4, <2>1, <2>2, <2>3, BridgePortGoneSound
  <2>5. t.saved = u.saved /\ t.members = u.members
    BY <2>1, <2>2 DEF State
  <2> QED
    BY <1>1, <2>4, <2>5, SoundTransitive
<1> QED
  BY <1>2, <1>3, <1>4

LEMMA notifyTunnelOrchSound ==
    ASSUME NEW s, Typed(s), NEW p
    PROVE  LET t == notifyTunnelOrch(s, p)
           IN  /\ Sound(s, t, {}) /\ t.saved = s.saved /\ t.members = s.members
               /\ Tunnel \in s.members => t = s
<1>1. CASE p = Tunnel /\ s.tunnel = 0 /\ Tunnel \notin s.members
  <2>1. notifyTunnelOrch(s, p) = removeBridgePort(s, Tunnel)
    BY <1>1 DEF notifyTunnelOrch
  <2>2. Tunnel \in Port
    BY DEF Port
  <2> QED
    BY <1>1, <2>1, <2>2, removeBridgePortSound
<1>2. CASE ~(p = Tunnel /\ s.tunnel = 0 /\ Tunnel \notin s.members)
  BY <1>2, SoundSelf DEF notifyTunnelOrch
<1> QED
  BY <1>1, <1>2

-----------------------------------------------------------------------------
(* Handling a notification about a MAC                                     *)

\* What is known of cache c, ASIC a and the rest r of the queue when notification
\* h about m was taken from it.
Alone(c, a, h) ==
    /\ h.type = "AGED" => a = NoEntry /\ (c = NoEntry \/ c.type # "static" \/ c.bp = h.bp)
    /\ h.type # "AGED" => a # NoEntry /\ a.bp = h.bp /\ a.sai = "dynamic" /\ ~a.allow
    /\ h.type = "LEARNED" => c = NoEntry
    /\ h.type = "MOVE" => c = NoEntry \/ c.bp # h.bp \/ c.sai = "dynamic"
Behind(c, r, m, h) ==
    /\ (\E x \in Of(r, m) : x.type = "LEARNED") /\ (\A x \in Of(r, m) : x.type # "AGED") => h.type = "AGED"
    /\ \A e : Of(r, m) = {e} /\ e.type = "MOVE" =>
          (h.type = "LEARNED" => c = NoEntry) /\ (h.type = "MOVE" => e.bp # h.bp)
    /\ \A e : Of(r, m) = {e} /\ e.type = "AGED" => h.bp = e.bp /\ h.type # "AGED"
    /\ c # NoEntry /\ c.type = "static" /\ h.type # "AGED" =>
          \A x \in Of(r, m) : x.type = "LEARNED" => AgedBefore(r, m, x)
Popped(c, a, r, B, m, h) ==
    /\ KindOk(c) /\ h.bp \in B
    /\ c # NoEntry => c.bp \in B /\ ~(c.sai = "dynamic" /\ c.flush)
    /\ h.type = "LEARNED" => c = NoEntry \/ c.type # "static"
    /\ Of(r, m) = {} => Alone(c, a, h)
    /\ Of(r, m) # {} => QueueOk(a, r, B, m) /\ Behind(c, r, m, h)

LEMMA PoppedQueue ==
    ASSUME NEW q \in Seq(Notifications), Distinct(q), NEW r, NEW h, TailAs(q, h, r), NEW m, h.mac = m,
           Of(r, m) # {}, NEW a, NEW B, QueueOk(a, q, B, m)
    PROVE  QueueOk(a, r, B, m)
<1>1. Of(r, m) = Of(q, m) \ {h} /\ h \in Of(q, m) /\ h \notin Of(r, m) /\ Ev(r) \subseteq Ev(q)
  BY DEF TailAs, Of
<1>2. \A x, y : x # h => (Before(r, x, y) <=> Before(q, x, y))
  BY DEF TailAs
<1>3. (\A x : ~Before(q, x, h)) /\ (\A y \in Of(r, m) : Before(q, h, y))
  BY DEF TailAs, Of
<1>4. \A x \in Of(r, m) : AgedLater(q, m, x) => AgedLater(r, m, x)
  BY <1>1, <1>2, <1>3 DEF AgedLater
<1>5. \A e : Final(q, m, e) => Final(r, m, e)
  BY <1>1, <1>2, <1>3 DEF Final
<1>6. \A e : Final(r, m, e) => Final(q, m, e)
  BY <1>1, <1>2, <1>3 DEF Final
<1>7. a = NoEntry => \A x \in Of(r, m) : AgedLater(r, m, x)
  BY <1>1, <1>4 DEF QueueOk
<1>8. a # NoEntry => \E e : /\ Final(r, m, e) /\ e.type \in {"LEARNED", "MOVE"}
                             /\ e.bp = a.bp /\ a.sai = "dynamic" /\ ~a.allow
  BY <1>5 DEF QueueOk
<1>9. \A x, y \in Of(r, m) : y.type = "LEARNED" /\ Before(r, x, y) => AgedLater(r, m, x)
  BY <1>1, <1>2, <1>4 DEF QueueOk
<1>10. \A x \in Of(r, m) : x.bp \in B
  BY <1>1 DEF QueueOk
<1>11. \A x \in Of(r, m), f \in Ev(r) : f.mac = AnyMac => ~Before(r, x, f)
  BY <1>1, <1>2 DEF QueueOk
<1>12. ASSUME NEW e \in Of(r, m), NEW x \in Of(r, m), e.type = "AGED", Final(r, m, e), x # e,
              \A y \in Of(r, m) \ {e, x} : Before(r, y, x)
       PROVE  x.bp = e.bp /\ x.type # "AGED"
  <2>1. \A y \in Of(q, m) \ {e, x} : Before(q, y, x)
    BY <1>1, <1>2, <1>3, <1>12
  <2> QED
    BY <1>1, <1>6, <1>12, <2>1 DEF QueueOk
<1> QED
  BY <1>7, <1>8, <1>9, <1>10, <1>11, <1>12 DEF QueueOk

LEMMA PoppedFacts ==
    ASSUME NEW q \in Seq(Notifications), Distinct(q), NEW r, NEW h \in Notifications, TailAs(q, h, r), NEW m \in Mac,
           h.mac = m, NEW c, NEW a, NEW B, InStep(c, a, q, B, m)
    PROVE  Popped(c, a, r, B, m, h)
<1>0. h.type \in {"LEARNED", "MOVE", "AGED"}
  BY PortsAssumption DEF Notifications
<1>1. Of(r, m) = Of(q, m) \ {h} /\ h \in Of(q, m) /\ h \notin Of(r, m) /\ Ev(r) \subseteq Ev(q)
  BY DEF TailAs, Of
<1>2. \A x, y : x # h => (Before(r, x, y) <=> Before(q, x, y))
  BY DEF TailAs
<1>3. (\A x : ~Before(q, x, h)) /\ (\A y \in Ev(q) : y = h \/ Before(q, h, y)) /\ (\A y \in Of(r, m) : Before(q, h, y))
  BY DEF TailAs, Of
<1>4. QueueOk(a, q, B, m) /\ Busy(c, q, B, m) /\ KindOk(c)
  BY <1>1 DEF InStep
<1>5. \A f \in Ev(q) : f.mac # AnyMac
  BY <1>1, <1>3, <1>4, PortsAssumption DEF QueueOk
<1>6. ~Going(c, q)
  <2> SUFFICES ASSUME NEW f \in Ev(q), f.type = "FLUSHED" PROVE FALSE
    BY DEF Going
  <2>1. f \in Notifications
    BY DEF Ev
  <2>2. f.mac = AnyMac
    BY <2>1 DEF Notifications
  <2> QED
    BY <1>5, <2>2
<1>7. h.bp \in B
  BY <1>1, <1>4 DEF QueueOk
<1>8. c # NoEntry => c.bp \in B /\ ~(c.sai = "dynamic" /\ c.flush)
  BY <1>4, <1>6 DEF InStep, Busy
<1>9. ~AgedBefore(q, m, h)
  BY <1>3 DEF AgedBefore
<1>10. h.type = "LEARNED" => c = NoEntry \/ c.type # "static"
  BY <1>1, <1>4, <1>9 DEF Busy
<1>11. ASSUME Of(r, m) = {} PROVE Alone(c, a, h)
  <2>1. Of(q, m) = {h}
    BY <1>1, <1>11
  <2>2. ASSUME h.type = "AGED" PROVE a = NoEntry /\ (c = NoEntry \/ c.type # "static" \/ c.bp = h.bp)
    <3>1. a = NoEntry
      BY <1>4, <2>1, <2>2 DEF QueueOk, Final
    <3> QED
      BY <1>4, <2>1, <2>2, <3>1 DEF Busy
  <2>3. ASSUME h.type # "AGED" PROVE a # NoEntry /\ a.bp = h.bp /\ a.sai = "dynamic" /\ ~a.allow
    <3>1. ~AgedLater(q, m, h)
      BY <2>1, <2>3 DEF AgedLater
    <3>2. a # NoEntry
      BY <1>1, <1>4, <3>1 DEF QueueOk
    <3> QED
      BY <1>4, <2>1, <3>2 DEF QueueOk, Final
  <2>4. h.type = "LEARNED" => c = NoEntry
    BY <1>4, <1>6, <2>1 DEF Busy
  <2>5. h.type = "MOVE" => c = NoEntry \/ c.bp # h.bp \/ c.sai = "dynamic"
    BY <1>4, <2>1 DEF Busy
  <2> QED
    BY <2>2, <2>3, <2>4, <2>5 DEF Alone
<1>12. ASSUME Of(r, m) # {} PROVE QueueOk(a, r, B, m) /\ Behind(c, r, m, h)
  <2>1. QueueOk(a, r, B, m)
    BY <1>4, <1>12, PoppedQueue
  <2>2. ASSUME NEW x \in Of(r, m), x.type = "LEARNED", \A y \in Of(r, m) : y.type # "AGED" PROVE h.type = "AGED"
    <3>1. AgedLater(q, m, h)
      BY <1>1, <1>3, <1>4, <2>2 DEF QueueOk
    <3> QED
      BY <1>1, <1>3, <2>2, <3>1 DEF AgedLater
  <2>3. ASSUME NEW e, Of(r, m) = {e}, e.type = "MOVE"
        PROVE  (h.type = "LEARNED" => c = NoEntry) /\ (h.type = "MOVE" => e.bp # h.bp)
    <3>1. Of(q, m) = {h, e} /\ e # h /\ e \in Ev(q)
      BY <1>1, <2>3 DEF Of
    <3>2. h.type = "LEARNED" => c = NoEntry
      BY <1>4, <1>6, <2>3, <3>1 DEF Busy
    <3>3. e \in Notifications /\ e.mac = m
      BY <2>3, <3>1 DEF Ev, Of
    <3>4. h.type = "MOVE" => e.bp # h.bp
      BY <2>3, <3>1, <3>3 DEF Notifications
    <3> QED
      BY <3>2, <3>4
  <2>4. ASSUME NEW e, Of(r, m) = {e}, e.type = "AGED" PROVE h.bp = e.bp /\ h.type # "AGED"
    <3>1. Of(q, m) = {h, e} /\ e # h /\ e \in Of(q, m) /\ Before(q, h, e)
      BY <1>1, <1>3, <2>4
    <3>2. Final(q, m, e)
      BY <3>1 DEF Final
    <3> QED
      BY <1>1, <1>4, <2>4, <3>1, <3>2 DEF QueueOk
  <2>5. ASSUME c # NoEntry, c.type = "static", h.type # "AGED", NEW x \in Of(r, m), x.type = "LEARNED"
        PROVE  AgedBefore(r, m, x)
    <3>1. AgedBefore(q, m, x)
      BY <1>1, <1>4, <2>5 DEF Busy
    <3> QED
      BY <1>1, <1>2, <2>5, <3>1 DEF AgedBefore
  <2> QED
    BY <2>1, <2>2, <2>3, <2>4, <2>5 DEF Behind
<1> QED
  BY <1>4, <1>7, <1>8, <1>10, <1>11, <1>12 DEF Popped

\* With it a pinned MAC can only have aged.
LEMMA PoppedFixed ==
    ASSUME NEW q, NEW r, NEW h, TailAs(q, h, r), NEW m, h.mac = m, NEW c, NEW a, Fixed(c, a, q, m), Pinned(c)
    PROVE  h.type = "AGED"
<1>1. h \in Of(q, m) /\ ~AgedBefore(q, m, h)
  BY DEF TailAs, Of, AgedBefore
<1> QED
  BY <1>1 DEF Fixed

\* What the handler may leave in the cache while there are more notifications.
Left(c, n, h) ==
    \/ n = NoEntry
    \/ h.type # "AGED" /\ n.sai = "dynamic" /\ ~n.flush /\ n.type # "static"
    \/ n = c /\ (h.type = "LEARNED" \/ (h.type = "MOVE" /\ c.bp = h.bp))

LEMMA AfterBusy ==
    ASSUME NEW c, NEW a, NEW r, NEW B, NEW m, NEW h, Popped(c, a, r, B, m, h), Of(r, m) # {},
           h.type \in {"LEARNED", "MOVE", "AGED"},
           NEW n, KindOk(n), n # NoEntry => n.bp \in B, Left(c, n, h)
    PROVE  InStep(n, a, r, B, m)
<1>1. QueueOk(a, r, B, m) /\ Behind(c, r, m, h)
  BY DEF Popped
<1>2. CASE n = NoEntry
  BY <1>1, <1>2 DEF InStep, Busy, KindOk
<1>3. CASE n # NoEntry
  <2>1. h.type # "AGED"
    BY <1>3 DEF Left
  <2>2. ~((\E x \in Of(r, m) : x.type = "LEARNED") /\ (\A x \in Of(r, m) : x.type # "AGED"))
    BY <1>1, <2>1 DEF Behind
  <2>3. ASSUME NEW e, Of(r, m) = {e}, e.type = "MOVE" PROVE n.bp # e.bp \/ n.sai = "dynamic"
    BY <1>1, <1>3, <2>3 DEF Behind, Left
  <2>4. ASSUME NEW e, Of(r, m) = {e}, e.type = "AGED" PROVE n.type # "static" \/ n.bp = e.bp
    <3>1. h.bp = e.bp
      BY <1>1, <2>4 DEF Behind
    <3> QED
      BY <1>3, <2>4, <3>1 DEF Left, Popped
  <2>5. ~(n.sai = "dynamic" /\ n.flush)
    BY <1>3 DEF Left, Popped
  <2>6. n.type = "static" => \A x \in Of(r, m) : x.type = "LEARNED" => AgedBefore(r, m, x)
    BY <1>1, <1>3, <2>1 DEF Left, Behind
  <2>7. Busy(n, r, B, m)
    BY <1>3, <2>2, <2>3, <2>4, <2>5, <2>6 DEF Busy
  <2> QED
    BY <1>1, <1>3, <2>7 DEF InStep
<1> QED
  BY <1>2, <1>3

\* The state in which the handler of notification h about m starts.
Taken(s, m, h) ==
    /\ \/ m \in Lost(s)
       \/ Popped(s.ent[m], s.asic[m], s.events, Range(s.bp), m, h) /\ NotLearnt(s.saved, m)
    /\ m \in Loose(s) \/ (Pinned(s.ent[m]) => h.type = "AGED")

\* What it has to leave.
SavedGrows(s, t) ==
    \A x \in Mac : \A d : d.port \in Port /\ SavedFor(s.saved, x, d) => SavedFor(t.saved, x, d)
Handled(s, t, m) ==
    /\ MacOk(t, m)
    /\ \A d : Static(d) /\ Cached(s.ent[m], d, s.bp)
              => m \in Waived(t) \/ Cached(t.ent[m], d, t.bp) \/ SavedFor(t.saved, m, d)
Done(s, t, m) == Sound(s, t, {m}) /\ Handled(s, t, m) /\ SavedGrows(s, t)

LEMMA DoneNotify ==
    ASSUME NEW s, NEW u, NEW m \in Mac, Done(s, u, m), NEW p
    PROVE  Done(s, notifyTunnelOrch(u, p), m)
<1> PICK t : t = notifyTunnelOrch(u, p)
  OBVIOUS
<1>1. Typed(u) /\ Sound(s, u, {m}) /\ Handled(s, u, m) /\ SavedGrows(s, u)
  BY DEF Done, Sound
<1>2. Sound(u, t, {}) /\ t.saved = u.saved
  BY <1>1, notifyTunnelOrchSound
<1>3. Sound(s, t, {m})
  BY <1>1, <1>2, SoundLess, SoundTransitive
<1>4. Safe(u, t, m) /\ Waived(u) \subseteq Waived(t)
  BY <1>2, GrowsFacts DEF Sound
<1>5. Handled(s, t, m)
  BY <1>1, <1>2, <1>4 DEF Handled, Safe
<1>6. SavedGrows(s, t)
  BY <1>1, <1>2 DEF SavedGrows
<1> QED
  BY <1>3, <1>5, <1>6 DEF Done

\* Cache and ASIC have the same entry, which has no leave to move if it is local.
Matched(n, b) ==
    \/ n = NoEntry /\ b = NoEntry
    \/ /\ n # NoEntry /\ b # NoEntry /\ b.bp = n.bp /\ b.sai = n.sai
       /\ ~(n.sai = "dynamic" /\ n.flush) /\ (Local(n.origin) => ~b.allow)
AllSaved(s, m) == \A d : Static(d) /\ Cached(s.ent[m], d, s.bp) => SavedFor(s.saved, m, d)

LEMMA PartDone ==
    ASSUME NEW s, Typed(s), NEW m \in Mac, NEW h, h.type \in {"LEARNED", "MOVE", "AGED"}, Taken(s, m, h),
           NEW t, NEW n, NEW b, Part(s, t, m, n, b),
           \/ m \in Lost(t)
           \/ /\ KindOk(n) /\ (n # NoEntry => n.bp \in Range(s.bp))
              /\ Of(s.events, m) = {} => Matched(n, b)
              /\ Of(s.events, m) # {} => b = s.asic[m] /\ Left(s.ent[m], n, h)
              /\ h.type = "AGED" => n = s.ent[m] \/ AllSaved(s, m)
    PROVE  Done(s, t, m)
<1>0. s \in State
  BY DEF Typed
<1>1. /\ t.ent[m] = n /\ t.asic[m] = b /\ t.events = s.events /\ t.bp = s.bp /\ t.saved = s.saved
      /\ Lost(s) \subseteq Lost(t) /\ Loose(s) \subseteq Loose(t) /\ Waived(s) \subseteq Waived(t)
  <2>1. t.events = s.events /\ t.bp = s.bp /\ t.saved = s.saved
    BY DEF Part
  <2> QED
    BY <1>0, <2>1, PartFacts
<1>2. Sound(s, t, {m}) /\ SavedGrows(s, t)
  BY <1>1, PartSound DEF SavedGrows
<1>3. CASE m \in Lost(t)
  <2>1. m \in Loose(t) /\ m \in Waived(t)
    BY <1>3 DEF Loose, Waived
  <2> QED
    BY <1>2, <1>3, <2>1 DEF Done, Handled, MacOk
<1>4. CASE m \notin Lost(t)
  <2> PICK c, a, r, B : c = s.ent[m] /\ a = s.asic[m] /\ r = s.events /\ B = Range(s.bp)
    OBVIOUS
  <2>1. Popped(c, a, r, B, m, h) /\ NotLearnt(s.saved, m)
    BY <1>1, <1>4 DEF Taken
  <2>2. /\ KindOk(n) /\ (n # NoEntry => n.bp \in B)
        /\ Of(r, m) = {} => Matched(n, b)
        /\ Of(r, m) # {} => b = a /\ Left(c, n, h)
        /\ h.type = "AGED" => n = c \/ AllSaved(s, m)
    BY <1>4
  <2>3. InStep(n, b, r, B, m)
    <3>1. CASE Of(r, m) = {}
      <4>1. Idle(n, b, r)
        BY <2>2, <3>1 DEF Matched, Idle
      <4> QED
        BY <2>2, <3>1, <4>1 DEF InStep
    <3>2. CASE Of(r, m) # {}
      BY <2>1, <2>2, <3>2, AfterBusy
    <3> QED
      BY <3>1, <3>2
  <2>4. m \in Loose(t) \/ Fixed(n, b, r, m)
    <3> SUFFICES ASSUME m \notin Loose(t) PROVE Fixed(n, b, r, m)
      OBVIOUS
    <3>1. Pinned(c) => h.type = "AGED"
      BY <1>1 DEF Taken
    <3>2. CASE Of(r, m) = {}
      BY <2>2, <3>2 DEF Fixed, Matched
    <3>3. CASE Of(r, m) # {}
      <4>1. ~Pinned(n)
        BY <2>2, <3>1, <3>3 DEF Left, Pinned
      <4> QED
        BY <3>3, <4>1 DEF Fixed
    <3> QED
      BY <3>2, <3>3
  <2>5. MacOk(t, m)
    BY <1>1, <2>1, <2>3, <2>4 DEF MacOk
  <2>6. ASSUME NEW d, Static(d), Cached(c, d, s.bp)
        PROVE  m \in Waived(t) \/ Cached(n, d, t.bp) \/ SavedFor(t.saved, m, d)
    <3>1. Pinned(c)
      BY <2>6 DEF Static, Cached, Data, Pinned
    <3>2. CASE m \in Loose(s)
      BY <1>1, <3>2 DEF Waived
    <3>3. CASE h.type = "AGED"
      BY <1>1, <2>2, <2>6, <3>3 DEF AllSaved
    <3> QED
      BY <3>1, <3>2, <3>3 DEF Taken
  <2>7. Handled(s, t, m)
    BY <1>1, <2>5, <2>6 DEF Handled
  <2> QED
    BY <1>2, <2>7 DEF Done
<1> QED
  BY <1>3, <1>4

LEMMA CountPart ==
    ASSUME NEW s, Fine(s), NEW m \in Mac, NEW x \in Numbered
    PROVE  Part(s, Count(s, x, m), m, s.ent[m], s.asic[m])
<1> PICK M : M = {<<m, Cardinality(s.excused[x])>>}
  OBVIOUS
<1>1. Cardinality(s.excused[x]) \in Nat
  BY FS_CardinalityType DEF Fine, NumberedOk, Numbered
<1>2. M \in SUBSET (Mac \cup (Mac \X Nat)) /\ x \in Excuses /\ s \in State
  BY <1>1 DEF Excuses, Fine
<1>3. Part(s, Excuse(s, x, M), m, s.ent[m], s.asic[m])
  BY <1>2, ExcusePart
<1> QED
  BY <1>3 DEF Count

Learnable(s, w, m, a, b) ==
    \/ m \in Lost(w)
    \/ a = s.asic[m] /\ s.ent[m] # NoEntry
    \/ Of(s.events, m) = {} /\ a # NoEntry /\ a.bp = b /\ a.sai = "dynamic" /\ ~a.allow

\* LearnedFromVtep and MovedFrom end in this.
LEMMA LearntFromDone ==
    ASSUME NEW s, Typed(s), NEW m \in Mac, NEW b \in PhyBps, NEW h, h.type \in {"LEARNED", "MOVE"}, h.bp = b,
           Taken(s, m, h), NEW w, NEW a, Part(s, w, m, s.ent[m], a), NEW o, Learnable(s, w, m, a, b)
    PROVE  Done(s, LearntFrom(w, m, b, o), m)
<1> PICK u : u = CountAt(w, o, -1)
  OBVIOUS
<1> PICK t : t = StoreLearnt(u, m, b)
  OBVIOUS
<1> PICK c : c = s.ent[m]
  OBVIOUS
<1> PICK n : n = IF c.bp = b /\ c.origin # "mclag" THEN c ELSE Learnt(b)
  OBVIOUS
<1>0. s \in State /\ w \in State /\ w.ent[m] = c /\ w.asic[m] = a
  BY PartFacts DEF Typed
<1>1. Part(w, u, m, c, a)
  BY <1>0, CountAtPart
<1>2. u \in State /\ u.ent[m] = c /\ u.asic[m] = a
  BY <1>0, <1>1, PartFacts
<1>3. Part(u, t, m, n, a)
  BY <1>2, StoreLearntPart
<1>4. Part(s, u, m, c, a)
  BY <1>0, <1>1, PartTransitive
<1>5. Part(s, t, m, n, a)
  BY <1>0, <1>2, <1>3, <1>4, PartTransitive
<1>6. m \in Lost(w) => m \in Lost(t)
  <2>1. Lost(w) \subseteq Lost(u) /\ Lost(u) \subseteq Lost(t)
    BY <1>1, <1>3, GrowsFacts DEF Part
  <2> QED
    BY <2>1
<1>7. /\ Learnt(b).sai = "dynamic" /\ ~Learnt(b).flush /\ Learnt(b).type # "static" /\ Learnt(b).bp = b
      /\ Learnt(b) # NoEntry /\ KindOk(Learnt(b)) /\ Learnt(b).origin = "learn"
  BY LearntType DEF Learnt
<1>8. ASSUME m \notin Lost(t)
      PROVE  /\ KindOk(n) /\ (n # NoEntry => n.bp \in Range(s.bp))
             /\ Of(s.events, m) = {} => Matched(n, a)
             /\ Of(s.events, m) # {} => a = s.asic[m] /\ Left(c, n, h)
  <2>0. m \notin Lost(w) /\ m \notin Lost(s)
    BY <1>0, <1>5, <1>6, <1>8, PartFacts
  <2>1. Popped(c, s.asic[m], s.events, Range(s.bp), m, h)
    BY <2>0 DEF Taken
  <2>2. KindOk(n) /\ (n # NoEntry => n.bp \in Range(s.bp))
    BY <1>7, <2>1 DEF Popped
  <2>3. ASSUME Of(s.events, m) = {} PROVE Matched(n, a)
    <3>1. Alone(c, s.asic[m], h)
      BY <2>1, <2>3 DEF Popped
    <3>2. a # NoEntry /\ a.bp = b /\ a.sai = "dynamic" /\ ~a.allow
      BY <2>0, <3>1 DEF Alone, Learnable
    <3>3. CASE n = Learnt(b)
      BY <1>7, <3>2, <3>3 DEF Matched
    <3>4. CASE n # Learnt(b)
      <4>1. n = c /\ c.bp = b /\ c # NoEntry
        <5>1. b # NoBp
          BY NoEntryFacts, LearntType
        <5> QED
          BY <3>4, <5>1, NoEntryFacts
      <4>2. c.sai = "dynamic"
        BY <3>1, <4>1 DEF Alone
      <4>3. ~c.flush
        BY <2>1, <4>1, <4>2 DEF Popped
      <4> QED
        BY <3>2, <4>1, <4>2, <4>3 DEF Matched
    <3> QED
      BY <3>3, <3>4
  <2>4. ASSUME Of(s.events, m) # {} PROVE a = s.asic[m] /\ Left(c, n, h)
    <3>1. a = s.asic[m]
      BY <2>0, <2>4 DEF Learnable
    <3>2. Left(c, n, h)
      BY <1>7 DEF Left
    <3> QED
      BY <3>1, <3>2
  <2> QED
    BY <2>2, <2>3, <2>4
<1>9. h.type # "AGED" /\ h.type \in {"LEARNED", "MOVE", "AGED"}
  OBVIOUS
<1>10. Done(s, t, m)
  BY <1>5, <1>8, <1>9, PartDone
<1>11. LearntFrom(w, m, b, o) = notifyTunnelOrch(t, o[1])
  BY DEF LearntFrom
<1> QED
  BY <1>10, <1>11, DoneNotify

LEMMA LearntNewDone ==
    ASSUME NEW s, Typed(s), NEW m \in Mac, NEW b \in PhyBps, NEW h, h.type \in {"LEARNED", "MOVE"}, h.bp = b,
           Taken(s, m, h), s.ent[m] = NoEntry
    PROVE  Done(s, StoreLearnt(CountVlan(s, 1), m, b), m)
<1> PICK u : u = CountVlan(s, 1)
  OBVIOUS
<1> PICK t : t = StoreLearnt(u, m, b)
  OBVIOUS
<1> PICK a : a = s.asic[m]
  OBVIOUS
<1>0. s \in State
  BY DEF Typed
<1>1. Part(s, u, m, NoEntry, a)
  BY <1>0, CountVlanPart
<1>2. u \in State /\ u.ent[m] = NoEntry /\ u.asic[m] = a
  BY <1>0, <1>1, PartFacts
<1>3. NoEntry.bp # b
  BY LearntType, NoEntryFacts
<1>4. Part(u, t, m, Learnt(b), a)
  BY <1>2, <1>3, StoreLearntPart
<1>5. Part(s, t, m, Learnt(b), a)
  BY <1>0, <1>1, <1>4, PartTransitive
<1>7. /\ Learnt(b).sai = "dynamic" /\ ~Learnt(b).flush /\ Learnt(b).type # "static" /\ Learnt(b).bp = b
      /\ Learnt(b) # NoEntry /\ KindOk(Learnt(b)) /\ Learnt(b).origin = "learn"
  BY LearntType DEF Learnt
<1>8. ASSUME m \notin Lost(t)
      PROVE  /\ KindOk(Learnt(b)) /\ Learnt(b).bp \in Range(s.bp)
             /\ Of(s.events, m) = {} => Matched(Learnt(b), a)
             /\ Left(NoEntry, Learnt(b), h)
  <2>0. m \notin Lost(s)
    BY <1>0, <1>5, <1>8, PartFacts
  <2>1. Popped(NoEntry, a, s.events, Range(s.bp), m, h)
    BY <2>0 DEF Taken
  <2>2. ASSUME Of(s.events, m) = {} PROVE Matched(Learnt(b), a)
    <3>1. a # NoEntry /\ a.bp = b /\ a.sai = "dynamic" /\ ~a.allow
      BY <2>1, <2>2 DEF Popped, Alone
    <3> QED
      BY <1>7, <3>1 DEF Matched
  <2> QED
    BY <1>7, <2>1, <2>2 DEF Popped, Left
<1>9. h.type # "AGED" /\ h.type \in {"LEARNED", "MOVE", "AGED"}
  OBVIOUS
<1> QED
  BY <1>5, <1>8, <1>9, PartDone

LEMMA LearnedDone ==
    ASSUME NEW s, Typed(s), Fine(s), NEW m \in Mac, NEW b \in PhyBps, NEW h, h.type = "LEARNED", h.bp = b,
           Taken(s, m, h)
    PROVE  Done(s, Learned(s, m, b), m)
<1> PICK c, a : c = s.ent[m] /\ a = s.asic[m]
  OBVIOUS
<1>0. s \in State /\ b \in BridgePorts /\ h.type \in {"LEARNED", "MOVE", "AGED"} /\ h.type # "AGED"
      /\ h.type \in {"LEARNED", "MOVE"}
  BY LearntType DEF Typed
<1>a. ASSUME m \notin Lost(s) PROVE Popped(c, a, s.events, Range(s.bp), m, h)
  BY <1>a DEF Taken
<1>1. CASE b[1] \notin up
  <2> PICK t : t = flushFDBEntries(s, b)
    OBVIOUS
  <2>1. /\ Sound(s, t, {}) /\ t.saved = s.saved
        /\ a # NoEntry /\ At(a, b) /\ a.sai = "dynamic" /\ ~At(c, b) => m \in Lost(t)
        /\ Of(s.events, m) # {} => m \in Lost(t)
    BY <1>0, flushFDBEntriesSound
  <2>2. m \in Lost(t)
    <3>1. Lost(s) \subseteq Lost(t)
      BY <2>1, GrowsFacts DEF Sound
    <3>2. CASE m \in Lost(s) \/ Of(s.events, m) # {}
      BY <2>1, <3>1, <3>2
    <3>3. CASE m \notin Lost(s) /\ Of(s.events, m) = {}
      <4>1. Alone(c, a, h)
        BY <1>a, <3>3 DEF Popped
      <4>2. c = NoEntry /\ a # NoEntry /\ a.bp = b /\ a.sai = "dynamic"
        BY <4>1 DEF Alone
      <4> QED
        BY <2>1, <4>2 DEF At
    <3> QED
      BY <3>2, <3>3
  <2>3. m \in Loose(t) /\ m \in Waived(t)
    BY <2>2 DEF Loose, Waived
  <2>4. Handled(s, t, m)
    BY <2>2, <2>3 DEF Handled, MacOk
  <2>5. SavedGrows(s, t) /\ Sound(s, t, {m})
    BY <2>1, SoundLess DEF SavedGrows
  <2>6. Learned(s, m, b) = t
    BY <1>1 DEF Learned
  <2> QED
    BY <2>4, <2>5, <2>6 DEF Done
<1>2. CASE b[1] \in up /\ c = NoEntry
  <2>1. Learned(s, m, b) = StoreLearnt(CountVlan(s, 1), m, b)
    BY <1>2, NoEntryFacts DEF Learned
  <2>a. s.ent[m] = NoEntry
    BY <1>2
  <2>2. Done(s, StoreLearnt(CountVlan(s, 1), m, b), m)
    BY <1>0, <2>a, LearntNewDone
  <2> QED
    BY <2>1, <2>2
\* The entry stays as it is.
<1>b. ASSUME NEW t, c # NoEntry, Part(s, t, m, c, a) PROVE Done(s, t, m)
  <2>1. ASSUME m \notin Lost(t)
        PROVE  /\ KindOk(c) /\ (c # NoEntry => c.bp \in Range(s.bp))
               /\ Of(s.events, m) # {} /\ Left(c, c, h)
    <3>1. Popped(c, a, s.events, Range(s.bp), m, h)
      BY ZenonT(60), <1>0, <1>a, <1>b, <2>1, PartFacts
    <3>2. Of(s.events, m) # {}
      BY <1>b, <3>1 DEF Popped, Alone
    <3> QED
      BY <3>1, <3>2 DEF Popped, Left
  <2> QED
    BY <1>0, <1>b, <2>1, PartDone
<1>3. CASE b[1] \in up /\ c # NoEntry /\ c.origin = "mclag" /\ c.bp # b
  <2>1. Learned(s, m, b) = LearnedElsewhere(s, m)
    BY <1>3 DEF Learned
  <2>2. CASE c.bp \notin Range(s.bp)
    <3>1. LearnedElsewhere(s, m) = s
      BY <2>2 DEF LearnedElsewhere
    <3> QED
      BY <1>0, <1>3, <1>b, <2>1, <3>1, PartSelf
  <2>3. CASE c.bp \in Range(s.bp)
    <3> PICK u : u = CountVlan(s, -1)
      OBVIOUS
    <3> PICK v : v = CountAt(u, c.bp, -1)
      OBVIOUS
    <3> PICK t : t = Count(v, "strays", m)
      OBVIOUS
    <3>1. LearnedElsewhere(s, m) = t
      BY <2>3 DEF LearnedElsewhere
    <3>2. Part(s, u, m, c, a) /\ Fine(u)
      BY <1>0, CountVlanPart, CountVlanLedger DEF Ledger
    <3>3. u \in State /\ u.ent[m] = c /\ u.asic[m] = a
      BY <1>0, <3>2, PartFacts
    <3>4. Part(u, v, m, c, a) /\ Fine(v)
      BY <3>2, <3>3, CountAtPart, CountTunnelLedger DEF Ledger
    <3>5. Part(s, v, m, c, a)
      BY <1>0, <3>2, <3>4, PartTransitive
    <3>6. v.ent[m] = c /\ v.asic[m] = a /\ "strays" \in Numbered
      BY <1>0, <3>5, PartFacts DEF Numbered
    <3>7. Part(v, t, m, c, a)
      BY <3>4, <3>6, CountPart
    <3>8. Part(s, t, m, c, a)
      BY <1>0, <3>5, <3>7, PartTransitive
    <3> QED
      BY <1>3, <1>b, <2>1, <3>1, <3>8
  <2> QED
    BY <2>2, <2>3
<1>4. CASE b[1] \in up /\ c # NoEntry /\ c.origin = "mclag" /\ c.bp = b
  <2> PICK allow : allow = (a # NoEntry /\ a.allow)
    OBVIOUS
  <2>1. allow \in BOOLEAN
    <3>1. a \in AsicEntry \cup {NoEntry}
      BY <1>0, StateFacts
    <3> QED
      BY <3>1 DEF AsicEntry
  <2> PICK u : u = Races(s, m)
    OBVIOUS
  <2> PICK sai : sai = "dynamic"
    OBVIOUS
  <2> PICK v : v = SetAttributes(u, m, b, sai, allow)
    OBVIOUS
  <2> PICK t : t = StoreLearnt(v, m, b)
    OBVIOUS
  <2>2. Learned(s, m, b) = t
    BY <1>4 DEF Learned
  <2>3. Part(s, u, m, c, a) /\ (m \in Lost(u) \/ Of(s.events, m) = {})
    BY <1>0, RacesPart
  <2>a. sai \in SaiTypes
    BY DEF SaiTypes
  <2>4. u \in State /\ u.ent[m] = c /\ sai \in SaiTypes
    BY <1>0, <2>3, <2>a, PartFacts
  <2>b. \E f : Part(u, v, m, u.ent[m], f)
    BY <1>0, <2>1, <2>4, SetAttributesPart
  <2>5. PICK f : Part(u, v, m, c, f)
    BY <2>4, <2>b
  <2>6. v \in State /\ v.ent[m] = c /\ v.asic[m] = f
    BY <2>4, <2>5, PartFacts
  <2>7. \E n : Part(v, t, m, n, f)
    BY <2>6, StoreLearntPart
  <2>8. PICK n : Part(v, t, m, n, f)
    BY <2>7
  <2>9. Part(s, t, m, n, f)
    BY <1>0, <2>3, <2>4, <2>5, <2>8, PartTransitive
  <2>10. m \in Lost(t)
    <3>1. Lost(s) \subseteq Lost(t) /\ Lost(u) \subseteq Lost(v) /\ Lost(v) \subseteq Lost(t)
      BY <2>5, <2>8, <2>9, GrowsFacts DEF Part
    <3>2. ASSUME m \notin Lost(s), Of(s.events, m) = {} PROVE FALSE
      BY <1>4, <1>a, <3>2 DEF Popped, Alone
    <3> QED
      BY SMTT(30), <2>3, <3>1, <3>2
  <2> QED
    BY <1>0, <2>2, <2>9, <2>10, PartDone
<1>5. CASE b[1] \in up /\ c # NoEntry /\ c.origin = "vxlan"
  <2>1. Learned(s, m, b) = LearnedFromVtep(s, m, b)
    BY <1>5 DEF Learned
  <2>2. CASE c.bp \notin Range(s.bp)
    <3>1. LearnedFromVtep(s, m, b) = s
      BY <2>2 DEF LearnedFromVtep
    <3> QED
      BY <1>0, <1>5, <1>b, <2>1, <3>1, PartSelf
  <2>3. CASE c.bp \in Range(s.bp)
    <3>1. LearnedFromVtep(s, m, b) = LearntFrom(s, m, b, c.bp)
      BY <2>3 DEF LearnedFromVtep, LearntFrom
    <3>c. Learnable(s, s, m, s.asic[m], b)
      BY <1>5 DEF Learnable
    <3>2. Part(s, s, m, s.ent[m], s.asic[m]) /\ s.ent[m] # NoEntry
      BY <1>0, <1>5, PartSelf
    <3> PICK o : o = c.bp
      OBVIOUS
    <3>3. Done(s, LearntFrom(s, m, b, o), m)
      BY <1>0, <3>2, <3>c, LearntFromDone
    <3> QED
      BY <2>1, <3>1, <3>3
  <2> QED
    BY <2>2, <2>3
<1>6. CASE b[1] \in up /\ c # NoEntry /\ c.origin # "vxlan" /\ c.origin # "mclag"
  <2>1. Learned(s, m, b) = s
    BY <1>6 DEF Learned
  <2> QED
    BY <1>0, <1>6, <1>b, <2>1, PartSelf
<1> QED
  BY <1>1, <1>2, <1>3, <1>4, <1>5, <1>6

LEMMA MovedDone ==
    ASSUME NEW s, Typed(s), NEW m \in Mac, NEW b \in PhyBps, NEW h, h.type = "MOVE", h.bp = b,
           Taken(s, m, h)
    PROVE  Done(s, Moved(s, m, b), m)
<1> PICK c, a : c = s.ent[m] /\ a = s.asic[m]
  OBVIOUS
<1>0. s \in State /\ b \in BridgePorts /\ h.type \in {"LEARNED", "MOVE", "AGED"} /\ h.type \in {"LEARNED", "MOVE"}
      /\ h.type # "AGED"
  BY LearntType DEF Typed
<1>a. ASSUME m \notin Lost(s) PROVE Popped(c, a, s.events, Range(s.bp), m, h)
  BY <1>a DEF Taken
<1>1. CASE c = NoEntry
  <2>1. Moved(s, m, b) = StoreLearnt(CountVlan(s, 1), m, b)
    BY <1>1 DEF Moved
  <2>a. s.ent[m] = NoEntry
    BY <1>1
  <2>2. Done(s, StoreLearnt(CountVlan(s, 1), m, b), m)
    BY <1>0, <2>a, LearntNewDone
  <2> QED
    BY <2>1, <2>2
<1>2. CASE c # NoEntry /\ c.bp \in Range(s.bp)
  <2> PICK o : o = c.bp
    OBVIOUS
  <2>1. Moved(s, m, b) = MovedFrom(s, m, b, o)
    BY <1>2 DEF Moved
  <2>2. CASE c.origin = "mclag" /\ o # b
    <3> PICK u : u = Races(s, m)
      OBVIOUS
    <3> PICK sai, no : sai = "dynamic" /\ no = FALSE
      OBVIOUS
    <3> PICK v : v = SetAttributes(u, m, b, sai, no)
      OBVIOUS
    <3>1. MovedFrom(s, m, b, o) = LearntFrom(v, m, b, o)
      BY <2>2 DEF MovedFrom, LearntFrom
    <3>2. Part(s, u, m, c, a) /\ (m \in Lost(u) \/ Of(s.events, m) = {})
      BY <1>0, RacesPart
    <3>a. sai \in SaiTypes /\ no \in BOOLEAN
      BY DEF SaiTypes
    <3>3. u \in State /\ u.ent[m] = c /\ u.asic[m] = a /\ sai \in SaiTypes /\ no \in BOOLEAN
      BY <1>0, <3>2, <3>a, PartFacts
    <3>4. PICK f : /\ Part(u, v, m, c, f)
                   /\ a # NoEntry => f # NoEntry /\ f.bp = b /\ f.sai = sai /\ f.allow = no
      BY <1>0, <3>3, SetAttributesPart
    <3>5. Part(s, v, m, c, f)
      BY <1>0, <3>2, <3>3, <3>4, PartTransitive
    <3>6. Lost(s) \subseteq Lost(v) /\ Lost(u) \subseteq Lost(v)
      <4>1. Grows(s, v) /\ Grows(u, v)
        BY <3>4, <3>5 DEF Part
      <4> QED
        BY <4>1, GrowsFacts
    <3>7. \/ m \in Lost(v)
          \/ Of(s.events, m) = {} /\ f # NoEntry /\ f.bp = b /\ f.sai = "dynamic" /\ ~f.allow
      <4> SUFFICES ASSUME m \notin Lost(v)
                   PROVE  Of(s.events, m) = {} /\ f # NoEntry /\ f.bp = b /\ f.sai = "dynamic" /\ ~f.allow
        OBVIOUS
      <4>1. Of(s.events, m) = {} /\ m \notin Lost(s)
        BY <3>2, <3>6
      <4>2. a # NoEntry
        BY <1>0, <1>a, <4>1 DEF Popped, Alone
      <4> QED
        BY <3>4, <4>1, <4>2
    <3>b. Part(s, v, m, s.ent[m], f)
      BY <3>5
    <3>c. Learnable(s, v, m, f, b)
      BY <3>7 DEF Learnable
    <3>8. Done(s, LearntFrom(v, m, b, o), m)
      BY <1>0, <3>c, <3>b, LearntFromDone
    <3> QED
      BY <2>1, <3>1, <3>8
  <2>3. CASE ~(c.origin = "mclag" /\ o # b)
    <3>1. MovedFrom(s, m, b, o) = LearntFrom(s, m, b, o)
      BY <2>3 DEF MovedFrom, LearntFrom
    <3>c. Learnable(s, s, m, s.asic[m], b)
      BY <1>2 DEF Learnable
    <3>2. Part(s, s, m, s.ent[m], s.asic[m]) /\ s.ent[m] # NoEntry
      BY <1>0, <1>2, PartSelf
    <3>3. Done(s, LearntFrom(s, m, b, o), m)
      BY <1>0, <3>2, <3>c, LearntFromDone
    <3> QED
      BY <2>1, <3>1, <3>3
  <2> QED
    BY <2>2, <2>3
<1>3. CASE c # NoEntry /\ c.bp \notin Range(s.bp)
  <2>1. Moved(s, m, b) = s
    BY <1>3 DEF Moved
  <2>2. m \in Lost(s)
    BY <1>3, <1>a DEF Popped
  <2>3. Part(s, s, m, c, a)
    BY <1>0, PartSelf
  <2> QED
    BY <1>0, <2>1, <2>2, <2>3, PartDone
<1> QED
  BY <1>1, <1>2, <1>3

-----------------------------------------------------------------------------
(* Saved entries                                                           *)

SameButSaved(s, t) ==
    /\ t \in State /\ t.ent = s.ent /\ t.asic = s.asic /\ t.events = s.events /\ t.bp = s.bp
    /\ t.members = s.members /\ t.excused = s.excused

LEMMA SaveFacts ==
    ASSUME NEW s \in State, NEW p \in Port, NEW m \in Mac, NEW D \in SavedData(p), NEW t, t = Save(s, p, m, D)
    PROVE  /\ SameButSaved(s, t) /\ SavedGrows(s, t) /\ SavedFor(t.saved, m, D)
           /\ \A x \in Mac : NotLearnt(s.saved, x) /\ (x # m \/ D.origin # "learn") => NotLearnt(t.saved, x)
<1> PICK y : y = [mac |-> m, data |-> D]
  OBVIOUS
<1> PICK q : q = s.saved[p]
  OBVIOUS
<1> PICK v : v = [s.saved EXCEPT ![p] = Append(q, y)]
  OBVIOUS
<1>1. y \in UNION {Saved(o) : o \in Port} /\ D.port = p /\ y.mac = m /\ y.data = D
  BY DEF Saved, SavedData
<1>2. q \in Seq(UNION {Saved(o) : o \in Port})
  BY DEF State
<1>3. Append(q, y) \in Seq(UNION {Saved(o) : o \in Port})
  BY <1>1, <1>2
<1>4. v \in [Port -> Seq(UNION {Saved(o) : o \in Port})]
  BY <1>3 DEF State
<1>5. t = [s EXCEPT !.saved = v]
  BY DEF Save, State
<1>6. t.saved = v /\ SameButSaved(s, t)
  BY <1>4, <1>5 DEF State, SameButSaved
<1>7. v[p] = Append(q, y) /\ \A o \in Port \ {p} : v[o] = s.saved[o]
  BY DEF State
<1> PICK n \in Nat : n = Len(q)
  BY <1>2
<1>8. /\ DOMAIN v[p] = 1 .. n + 1 /\ DOMAIN q = 1 .. n /\ v[p][n + 1] = y
      /\ \A i \in 1 .. n : v[p][i] = q[i] /\ i \in 1 .. n + 1
      /\ n + 1 \in 1 .. n + 1 /\ \A i \in 1 .. n + 1 : i = n + 1 \/ i \in 1 .. n
  BY <1>2, <1>7
<1>9. SavedFor(v, m, D)
  BY <1>1, <1>8 DEF SavedFor
<1>10. ASSUME NEW x \in Mac, NEW d, d.port \in Port, SavedFor(s.saved, x, d) PROVE SavedFor(v, x, d)
  <2>1. PICK i \in DOMAIN s.saved[d.port] : s.saved[d.port][i] = [mac |-> x, data |-> d]
    BY <1>10 DEF SavedFor
  <2>2. CASE d.port = p
    <3>1. i \in DOMAIN v[p] /\ v[p][i] = [mac |-> x, data |-> d]
      BY <1>8, <2>1, <2>2
    <3> QED
      BY <2>2, <3>1 DEF SavedFor
  <2>3. CASE d.port # p
    BY <1>7, <1>10, <2>1, <2>3 DEF SavedFor
  <2> QED
    BY <2>2, <2>3
<1>11. ASSUME NEW x \in Mac, NotLearnt(s.saved, x), x # m \/ D.origin # "learn" PROVE NotLearnt(v, x)
  <2> SUFFICES ASSUME NEW o \in Port, NEW i \in DOMAIN v[o], v[o][i].mac = x PROVE v[o][i].data.origin # "learn"
    BY DEF NotLearnt
  <2>1. CASE o = p /\ i \in 1 .. n
    <3>1. i \in DOMAIN s.saved[p] /\ v[o][i] = s.saved[p][i]
      BY <1>8, <2>1
    <3> QED
      BY <1>11, <3>1 DEF NotLearnt
  <2>2. CASE o = p /\ i = n + 1
    BY <1>1, <1>8, <1>11, <2>2
  <2>3. CASE o # p
    BY <1>7, <1>11, <2>3 DEF NotLearnt
  <2> QED
    BY <1>8, <2>1, <2>2, <2>3
<1> QED
  BY ZenonT(60), <1>6, <1>9, <1>10, <1>11 DEF SavedGrows

LEMMA SaveSound ==
    ASSUME NEW s, Typed(s), NEW p \in Port, NEW m \in Mac, NEW D \in SavedData(p), NEW t, t = Save(s, p, m, D)
    PROVE  Sound(s, t, {m}) /\ (D.origin # "learn" \/ m \in Lost(s) => Sound(s, t, {}))
<1>1. s \in State
  BY DEF Typed
<1>2. /\ SameButSaved(s, t)
      /\ \A x \in Mac : NotLearnt(s.saved, x) /\ (x # m \/ D.origin # "learn") => NotLearnt(t.saved, x)
  BY <1>1, SaveFacts
<1>3. Typed(t) /\ Grows(s, t) /\ Lost(t) = Lost(s) /\ Loose(t) = Loose(s) /\ Waived(t) = Waived(s)
  BY <1>2 DEF SameButSaved, Typed, PortNames, Grows, Lost, Loose, Waived
<1>4. ASSUME NEW x \in Mac, x # m \/ D.origin # "learn" \/ m \in Lost(s) PROVE Safe(s, t, x)
  <2>1. MacOk(s, x) => MacOk(t, x)
    BY <1>2, <1>3, <1>4 DEF MacOk, SameButSaved
  <2> QED
    BY <1>2, <2>1 DEF Safe, SameButSaved
<1> QED
  BY <1>3, <1>4 DEF Sound

-----------------------------------------------------------------------------
(* Ageing                                                                  *)

LEMMA DoneAfter ==
    ASSUME NEW s, NEW u, NEW t, NEW m \in Mac, Sound(s, u, {m}), SavedGrows(s, u), u.ent[m] = s.ent[m], u.bp = s.bp,
           Done(u, t, m)
    PROVE  Done(s, t, m)
<1>1. Sound(s, t, {m})
  BY SoundTransitive DEF Done
<1>2. Handled(s, t, m)
  BY DEF Done, Handled
<1>3. SavedGrows(s, t)
  BY DEF Done, SavedGrows
<1> QED
  BY <1>1, <1>2, <1>3 DEF Done

\* A static entry goes back to the ASIC.
LEMMA RecreateDone ==
    ASSUME NEW s, Typed(s), NEW m \in Mac, NEW h, h.type = "AGED", Taken(s, m, h), NEW b \in BridgePorts,
           NEW allow \in BOOLEAN,
           m \in Lost(s) \/ s.ent[m].sai = "static",
           s.ent[m] # NoEntry,
           m \in Lost(s) \/ s.ent[m].bp = b \/ (s.ent[m].type = "static" /\ b = h.bp),
           allow => ~Local(s.ent[m].origin)
    PROVE  Done(s, Recreate(s, m, b, allow), m)
<1> PICK c, a : c = s.ent[m] /\ a = s.asic[m]
  OBVIOUS
<1>0. s \in State /\ h.type \in {"LEARNED", "MOVE", "AGED"}
  BY DEF Typed
<1> PICK u : u = Races(s, m)
  OBVIOUS
<1> PICK sai : sai = "static"
  OBVIOUS
<1> PICK t : t = Create(u, m, b, sai, allow)
  OBVIOUS
<1>1. Part(s, u, m, c, a) /\ (m \in Lost(u) \/ Of(s.events, m) = {})
  BY <1>0, RacesPart
<1>2. u \in State /\ u.ent[m] = c /\ u.asic[m] = a
  BY <1>0, <1>1, PartFacts
<1>3. u.bp = s.bp
  BY <1>1 DEF Part
<1>4. sai \in SaiTypes
  BY DEF SaiTypes
<1>5. PICK f : /\ Part(u, t, m, u.ent[m], f)
               /\ u.asic[m] = NoEntry /\ b \in Range(u.bp)
                  => f # NoEntry /\ f.bp = b /\ f.sai = sai /\ f.allow = allow
  BY <1>2, <1>4, CreatePart
<1>6. Part(u, t, m, c, f)
  BY <1>2, <1>5
<1>7. Part(s, t, m, c, f)
  BY <1>0, <1>1, <1>6, PartTransitive
<1>8. ASSUME m \notin Lost(t)
      PROVE  KindOk(c) /\ c.bp \in Range(s.bp) /\ Of(s.events, m) = {} /\ Matched(c, f)
  <2>1. m \notin Lost(s) /\ m \notin Lost(u)
    <3>1. Lost(u) \subseteq Lost(t) /\ Lost(s) \subseteq Lost(t)
      BY <1>0, <1>2, <1>6, <1>7, PartFacts
    <3> QED
      BY <1>8, <3>1
  <2>2. Of(s.events, m) = {} /\ Popped(c, a, s.events, Range(s.bp), m, h)
    BY <1>1, <2>1 DEF Taken
  <2>3. a = NoEntry /\ c.bp = b /\ b \in Range(s.bp) /\ KindOk(c)
    BY <2>1, <2>2 DEF Popped, Alone
  <2>4. f # NoEntry /\ f.bp = b /\ f.sai = "static" /\ f.allow = allow
    BY <1>2, <1>3, <1>5, <2>3
  <2>5. Matched(c, f)
    BY <2>1, <2>3, <2>4 DEF Matched
  <2> QED
    BY <2>2, <2>3, <2>5
<1>9. Done(s, t, m)
  BY <1>0, <1>7, <1>8, PartDone
<1> QED
  BY <1>9 DEF Recreate

LEMMA AgedOutDone ==
    ASSUME NEW s, Typed(s), NEW m \in Mac, NEW h, h.type = "AGED", Taken(s, m, h), NEW b \in BridgePorts, NEW at,
           s.ent[m] # NoEntry, m \in Lost(s) \/ AllSaved(s, m)
    PROVE  Done(s, AgedOut(s, m, b, at), m)
<1> PICK c, a : c = s.ent[m] /\ a = s.asic[m]
  OBVIOUS
<1>0. s \in State /\ h.type \in {"LEARNED", "MOVE", "AGED"}
  BY DEF Typed
<1>a. c \in Entry /\ s.ent[m] # NoEntry
  BY <1>0, StateFacts
<1>b. ASSUME m \notin Lost(s) PROVE Popped(c, a, s.events, Range(s.bp), m, h) /\ AllSaved(s, m)
  BY <1>b DEF Taken
<1>1. CASE c.origin \in {"mclag", "vxlan"}
  <2>1. AgedOut(s, m, b, at) = Recreate(s, m, c.bp, TRUE)
    BY <1>1 DEF AgedOut
  <2> PICK e, yes : e = c.bp /\ yes = TRUE
    OBVIOUS
  <2>2. e \in BridgePorts /\ yes \in BOOLEAN /\ s.ent[m].bp = e
    BY <1>a DEF Entry
  <2>3. m \in Lost(s) \/ s.ent[m].sai = "static"
    BY <1>1, <1>a, <1>b DEF Popped, KindOk
  <2>4. ~Local(s.ent[m].origin)
    BY <1>1 DEF Local
  <2>5. Done(s, Recreate(s, m, e, yes), m)
    BY <1>a, <2>2, <2>3, <2>4, RecreateDone
  <2> QED
    BY <2>1, <2>5
<1>2. CASE c.origin = "learn" /\ c.dest[1] = "IFNAME" /\ c.type = "dynamic_control_learn"
  <2> PICK x, M : x = "retyped" /\ M = {m}
    OBVIOUS
  <2> PICK w : w = Excuse(s, x, M)
    OBVIOUS
  <2> PICK v : v = Retyped(w, m)
    OBVIOUS
  <2> PICK u : u = Races(v, m)
    OBVIOUS
  <2> PICK sai, no : sai = "static" /\ no = FALSE
    OBVIOUS
  <2> PICK t : t = Create(u, m, b, sai, no)
    OBVIOUS
  <2>1. AgedOut(s, m, b, at) = t
    <3>1. w \in State /\ w.ent[m] = c
      BY <1>0, ExcusePart, PartFacts DEF Excuses, Numbered
    <3>2. v = [Excuse(s, x, M) EXCEPT !.ent[m] = [@ EXCEPT !.type = "dynamic", !.origin = "vxlan"], !.state[m] = NoPort]
      BY DEF Retyped
    <3> QED
      BY <1>2, <3>2 DEF AgedOut, Recreate
  <2>2. x \in Excuses /\ M \in SUBSET (Mac \cup (Mac \X Nat)) /\ sai \in SaiTypes /\ no \in BOOLEAN
    BY DEF Excuses, Numbered, SaiTypes
  <2>3. Part(s, w, m, c, a) /\ w.excused[x] = s.excused[x] \cup M
    BY <1>0, <2>2, ExcusePart
  <2>4. w \in State /\ w.ent[m] = c /\ w.asic[m] = a
    BY <1>0, <2>3, PartFacts
  <2>5. w.ent[m] # NoEntry
    BY <1>a, <2>4
  <2>6. PICK e : Part(w, v, m, e, w.asic[m])
    BY <2>4, <2>5, RetypedPart
  <2>7. v \in State
    BY <2>6 DEF Part
  <2>8. PICK g, f : Part(v, u, m, g, f)
    BY <2>7, RacesPart
  <2>9. u \in State
    BY <2>8 DEF Part
  <2>10. PICK l, k : Part(u, t, m, l, k)
    BY <2>2, <2>9, CreatePart
  <2>11. Part(s, v, m, e, w.asic[m])
    BY <1>0, <2>3, <2>6, PartTransitive
  <2>12. Part(s, u, m, g, f)
    BY <1>0, <2>8, <2>11, PartTransitive
  <2>13. Part(s, t, m, l, k)
    BY <1>0, <2>10, <2>12, PartTransitive
  <2>14. m \in Lost(t)
    <3>1. m \in Lost(w)
      BY <2>3 DEF Lost
    <3>2. Grows(w, v) /\ Grows(v, u) /\ Grows(u, t)
      BY <2>6, <2>8, <2>10 DEF Part
    <3>3. Lost(w) \subseteq Lost(v) /\ Lost(v) \subseteq Lost(u) /\ Lost(u) \subseteq Lost(t)
      BY <3>2, GrowsFacts
    <3> QED
      BY <3>1, <3>3
  <2>15. Done(s, t, m)
    BY <1>0, <2>13, <2>14, PartDone
  <2> QED
    BY <2>1, <2>15
<1>3. CASE /\ c.origin \notin {"mclag", "vxlan"}
           /\ ~(c.origin = "learn" /\ c.dest[1] = "IFNAME" /\ c.type = "dynamic_control_learn")
  <2> PICK w : w = CountVlan(s, -1)
    OBVIOUS
  <2> PICK v : v = CountAt(w, at, -1)
    OBVIOUS
  <2> PICK t : t = StoreRemoved(v, m)
    OBVIOUS
  <2>1. AgedOut(s, m, b, at) = notifyTunnelOrch(t, at[1])
    BY <1>3 DEF AgedOut
  <2>2. Part(s, w, m, c, a)
    BY <1>0, CountVlanPart
  <2>3. w \in State /\ w.ent[m] = c /\ w.asic[m] = a
    BY <1>0, <2>2, PartFacts
  <2>4. Part(w, v, m, c, a)
    BY <2>3, CountAtPart
  <2>5. v \in State /\ v.asic[m] = a
    BY <2>3, <2>4, PartFacts
  <2>6. Part(v, t, m, NoEntry, a)
    BY <2>5, StoreRemovedPart
  <2>7. Part(s, v, m, c, a)
    BY <1>0, <2>2, <2>4, PartTransitive
  <2>8. Part(s, t, m, NoEntry, a)
    BY <1>0, <2>6, <2>7, PartTransitive
  <2>9. ASSUME m \notin Lost(t)
        PROVE  /\ KindOk(NoEntry) /\ AllSaved(s, m) /\ Left(c, NoEntry, h)
               /\ Of(s.events, m) = {} => Matched(NoEntry, a)
    <3>1. m \notin Lost(s)
      BY <1>0, <2>8, <2>9, PartFacts
    <3>2. Of(s.events, m) = {} => a = NoEntry
      BY <1>b, <3>1 DEF Popped, Alone
    <3> QED
      BY <1>b, <3>1, <3>2 DEF Left, Matched, KindOk
  <2>10. Done(s, t, m)
    BY <1>0, <2>8, <2>9, PartDone
  <2> QED
    BY <2>1, <2>10, DoneNotify
<1> QED
  BY <1>1, <1>2, <1>3

LEMMA AgedAtDone ==
    ASSUME NEW s, Typed(s), NEW m \in Mac, NEW h, h.type = "AGED", Taken(s, m, h), NEW b \in BridgePorts, b = h.bp,
           NEW at \in BridgePorts, s.ent[m] # NoEntry, m \in Lost(s) \/ at = s.ent[m].bp
    PROVE  Done(s, AgedAt(s, m, b, at), m)
<1> PICK c, a : c = s.ent[m] /\ a = s.asic[m]
  OBVIOUS
<1>0. s \in State /\ PortNames(s)
  BY DEF Typed
<1>a. c \in Entry /\ s.ent[m] # NoEntry
  BY <1>0, StateFacts
<1>b. ASSUME m \notin Lost(s) PROVE KindOk(c)
  BY <1>b DEF Taken, Popped
<1>1. CASE c.type = "static" /\ at[1] \in s.members
  <2>1. AgedAt(s, m, b, at) = Recreate(s, m, b, FALSE)
    BY <1>1 DEF AgedAt
  <2> PICK no : no = FALSE
    OBVIOUS
  <2>2. no \in BOOLEAN /\ ~no /\ s.ent[m].type = "static"
    BY <1>1
  <2>3. m \in Lost(s) \/ s.ent[m].sai = "static"
    BY <1>1, <1>a, <1>b DEF KindOk
  <2>4. Done(s, Recreate(s, m, b, no), m)
    BY <1>a, <2>2, <2>3, RecreateDone
  <2> QED
    BY <2>1, <2>4
<1>2. CASE c.type = "static" /\ at[1] \notin s.members
  <2> PICK p : p = at[1]
    OBVIOUS
  <2> PICK D : D = [port |-> p, type |-> c.type, origin |-> c.origin, dest |-> c.dest]
    OBVIOUS
  <2> PICK u : u = Save(s, p, m, D)
    OBVIOUS
  <2>1. AgedAt(s, m, b, at) = AgedOut(u, m, b, at)
    BY <1>2 DEF AgedAt
  <2>2. p \in Port /\ D \in SavedData(p)
    BY <1>a DEF BridgePorts, SavedData, Entry
  <2>3. /\ SameButSaved(s, u) /\ SavedGrows(s, u) /\ SavedFor(u.saved, m, D)
        /\ NotLearnt(s.saved, m) /\ D.origin # "learn" => NotLearnt(u.saved, m)
    BY <1>0, <2>2, SaveFacts
  <2>4. Sound(s, u, {m})
    BY <2>2, SaveSound
  <2>5. u.ent = s.ent /\ u.asic = s.asic /\ u.events = s.events /\ u.bp = s.bp /\ u.excused = s.excused
    BY <2>3 DEF SameButSaved
  <2>6. m \in Lost(s) \/ D.origin # "learn"
    BY <1>2, <1>a, <1>b DEF KindOk
  <2>7. Taken(u, m, h)
    <3>1. Lost(u) = Lost(s) /\ Loose(u) = Loose(s)
      BY Zenon, <2>5 DEF Lost, Loose
    <3> QED
      BY <2>3, <2>5, <2>6, <3>1 DEF Taken
  <2>8. ASSUME m \notin Lost(s), NEW d, Static(d), Cached(c, d, s.bp) PROVE SavedFor(u.saved, m, d)
    <3>1. d.port \in Port /\ Data(c) = Data(d) /\ c.bp = s.bp[d.port] /\ at = c.bp
      BY <2>8 DEF Static, Cached
    <3>2. c.type = d.type /\ c.origin = d.origin /\ c.dest = d.dest
      BY <3>1 DEF Data
    <3>3. s.bp[d.port] # NoBp
      BY <3>1, NoEntryFacts
    <3>4. p = d.port
      BY <1>0, <3>1, <3>3 DEF PortNames
    <3>5. D = d
      BY <2>8, <3>2, <3>4 DEF Static
    <3> QED
      BY <2>3, <3>5
  <2>9. m \in Lost(u) \/ AllSaved(u, m)
    <3>1. Lost(u) = Lost(s)
      BY Zenon, <2>5 DEF Lost
    <3> QED
      BY <2>5, <2>8, <3>1 DEF AllSaved
  <2>10. Typed(u)
    BY <2>4 DEF Sound
  <2>11. u.ent[m] # NoEntry
    BY <1>a, <2>5
  <2>12. Done(u, AgedOut(u, m, b, at), m)
    BY <2>7, <2>9, <2>10, <2>11, AgedOutDone
  <2>13. Done(s, AgedOut(u, m, b, at), m)
    BY <2>3, <2>4, <2>5, <2>12, DoneAfter
  <2> QED
    BY <2>1, <2>13
<1>3. CASE c.type # "static"
  <2>1. AgedAt(s, m, b, at) = AgedOut(s, m, b, at)
    BY <1>3 DEF AgedAt
  <2>2. AllSaved(s, m)
    BY <1>3 DEF AllSaved, Static, Cached, Data
  <2> QED
    BY <2>1, <2>2, AgedOutDone
<1> QED
  BY <1>1, <1>2, <1>3

LEMMA AgedDone ==
    ASSUME NEW s, Typed(s), NEW m \in Mac, NEW h, h.type = "AGED", Taken(s, m, h), NEW b \in BridgePorts, b = h.bp
    PROVE  Done(s, Aged(s, m, b), m)
<1> PICK c, a : c = s.ent[m] /\ a = s.asic[m]
  OBVIOUS
<1>0. s \in State /\ h.type \in {"LEARNED", "MOVE", "AGED"}
  BY DEF Typed
<1>a. c # NoEntry => c \in Entry
  BY <1>0, StateFacts
<1>b. ASSUME m \notin Lost(s) PROVE Popped(c, a, s.events, Range(s.bp), m, h)
  BY <1>b DEF Taken
<1>1. CASE c = NoEntry
  <2>1. Aged(s, m, b) = s
    BY <1>1 DEF Aged
  <2>2. Part(s, s, m, c, a)
    BY <1>0, PartSelf
  <2>3. ASSUME m \notin Lost(s)
        PROVE  KindOk(c) /\ Left(c, c, h) /\ (Of(s.events, m) = {} => Matched(c, a))
    BY <1>1, <1>b, <2>3 DEF Popped, Alone, Left, Matched
  <2>4. KindOk(NoEntry) /\ NoEntry = s.ent[m]
    BY <1>1 DEF KindOk
  <2>5. Part(s, s, m, NoEntry, a)
    BY <1>1, <2>2
  <2>6. m \in Lost(s) \/ (Left(NoEntry, NoEntry, h) /\ (Of(s.events, m) = {} => Matched(NoEntry, a)))
    BY <1>1, <2>3
  <2>7. Done(s, s, m)
    BY <1>0, <2>4, <2>5, <2>6, PartDone
  <2> QED
    BY <2>1, <2>7
<1>2. CASE c # NoEntry /\ c.bp \in Range(s.bp)
  <2> PICK at : at = c.bp
    OBVIOUS
  <2>1. Aged(s, m, b) = AgedAt(s, m, b, at)
    BY <1>2 DEF Aged
  <2>2. at \in BridgePorts /\ s.ent[m] # NoEntry /\ at = s.ent[m].bp
    BY <1>2, <1>a DEF Entry
  <2>3. Done(s, AgedAt(s, m, b, at), m)
    BY <2>2, AgedAtDone
  <2> QED
    BY <2>1, <2>3
<1>3. CASE c # NoEntry /\ c.bp \notin Range(s.bp)
  <2>0. m \in Lost(s) /\ s.ent[m] # NoEntry
    BY <1>3, <1>b DEF Popped
  <2> PICK x, M : x = "stale" /\ M = {m}
    OBVIOUS
  <2> PICK u : u = IF b[1] = Tunnel THEN Excuse(s, x, M) ELSE s
    OBVIOUS
  <2>1. Aged(s, m, b) = AgedAt(u, m, b, b)
    BY <1>3 DEF Aged
  <2>2. x \in Excuses /\ M \in SUBSET (Mac \cup (Mac \X Nat))
    BY DEF Excuses, Numbered
  <2>3. Part(s, u, m, c, a)
    <3>1. CASE b[1] = Tunnel
      BY <1>0, <2>2, <3>1, ExcusePart
    <3>2. CASE b[1] # Tunnel
      BY <1>0, <3>2, PartSelf
    <3> QED
      BY <3>1, <3>2
  <2>4. Sound(s, u, {m})
    BY <2>3, PartSound
  <2>a. Part(s, u, m, s.ent[m], s.asic[m])
    BY <2>3
  <2>b. Lost(s) \subseteq Lost(u) /\ Loose(s) \subseteq Loose(u)
    BY <2>a, GrowsFacts DEF Part
  <2>c. u.ent[m] = s.ent[m]
    BY <1>0, <2>a, PartFacts
  <2>5. u.ent[m] = c /\ Lost(s) \subseteq Lost(u) /\ Loose(s) \subseteq Loose(u)
    BY <2>b, <2>c
  <2>6. u.bp = s.bp /\ u.saved = s.saved
    BY <2>3 DEF Part
  <2>7. Typed(u) /\ m \in Lost(u) /\ m \in Loose(u)
    BY <2>0, <2>4, <2>5 DEF Sound, Loose
  <2>8. Taken(u, m, h)
    BY <2>7 DEF Taken
  <2>9. u.ent[m] # NoEntry
    BY <1>3, <2>5
  <2>10. Done(u, AgedAt(u, m, b, b), m)
    BY <2>7, <2>8, <2>9, AgedAtDone
  <2>11. SavedGrows(s, u)
    BY <2>6 DEF SavedGrows
  <2>12. u.ent[m] = s.ent[m]
    BY <2>5
  <2>13. Done(s, AgedAt(u, m, b, b), m)
    BY <2>4, <2>6, <2>10, <2>11, <2>12, DoneAfter
  <2> QED
    BY <2>1, <2>13
<1> QED
  BY <1>1, <1>2, <1>3

-----------------------------------------------------------------------------
(* The notification of a flush                                             *)

\* The entry of x may leave the cache.
Clearable(s, x) ==
    x \in Lost(s) \/ (InStep(NoEntry, s.asic[x], s.events, Range(s.bp), x) /\ NotLearnt(s.saved, x))

LEMMA NothingIdle ==
    ASSUME NEW q, NEW x, Of(q, x) = {}, NEW B
    PROVE  InStep(NoEntry, NoEntry, q, B, x)
BY DEF InStep, KindOk, Idle

LEMMA notifyTunnelOrchClearable ==
    ASSUME NEW s, Typed(s), NEW p, NEW x \in Mac, Clearable(s, x)
    PROVE  Clearable(notifyTunnelOrch(s, p), x)
<1>0. Tunnel \in Port /\ s \in State
  BY DEF Typed, Port
<1> PICK b : b = s.bp[Tunnel]
  OBVIOUS
<1> PICK u : u = flushFDBEntries(s, b)
  OBVIOUS
<1> PICK t : t = notifyTunnelOrch(s, p)
  OBVIOUS
<1>1. b \in BridgePorts \cup {NoBp}
  BY <1>0 DEF State
<1>2. /\ Sound(s, u, {}) /\ u.saved = s.saved
      /\ Of(s.events, x) # {} => x \in Lost(u)
      /\ Of(s.events, x) = {} => Of(u.events, x) = {}
      /\ s.asic[x] = NoEntry => u.asic[x] = NoEntry
  BY <1>1, flushFDBEntriesSound
<1> PICK v : v = [u EXCEPT !.bp[Tunnel] = NoBp]
  OBVIOUS
<1>3. v.saved = u.saved /\ v.events = u.events /\ v.asic = u.asic /\ v.excused = u.excused
  BY <1>2 DEF Sound, Typed, State
<1>4. t \in {s, u, v}
  BY DEF notifyTunnelOrch, removeBridgePort
<1>5. ASSUME NEW w, w.saved = u.saved, w.events = u.events, w.asic = u.asic, w.excused = u.excused PROVE Clearable(w, x)
  <2>1. Lost(w) = Lost(u) /\ Lost(s) \subseteq Lost(u)
    BY <1>2, <1>5, GrowsFacts DEF Sound, Lost
  <2>2. CASE x \in Lost(s) \/ Of(s.events, x) # {}
    BY <1>2, <2>1, <2>2 DEF Clearable
  <2>3. CASE x \notin Lost(s) /\ Of(s.events, x) = {}
    <3>1. Idle(NoEntry, s.asic[x], s.events) /\ NotLearnt(s.saved, x)
      BY <2>3 DEF Clearable, InStep
    <3>2. s.asic[x] = NoEntry
      BY <3>1 DEF Idle
    <3>3. w.asic[x] = NoEntry /\ Of(w.events, x) = {} /\ NotLearnt(w.saved, x)
      BY <1>2, <1>5, <2>3, <3>1, <3>2
    <3>4. InStep(NoEntry, w.asic[x], w.events, Range(w.bp), x)
      BY <3>3, NothingIdle
    <3> QED
      BY <3>3, <3>4 DEF Clearable
  <2> QED
    BY <2>2, <2>3
<1> QED
  BY <1>3, <1>4, <1>5

LEMMA clearFdbEntryClears ==
    ASSUME NEW s, Typed(s), NEW m \in Mac, Clearable(s, m), NEW t, t = clearFdbEntry(s, m)
    PROVE  /\ Sound(s, t, {m}) /\ MacOk(t, m) /\ t.saved = s.saved
           /\ \A x \in Mac \ {m} : Clearable(s, x) => Clearable(t, x)
<1> PICK c, a, b : c = s.ent[m] /\ a = s.asic[m] /\ b = s.ent[m].bp
  OBVIOUS
<1>0. s \in State
  BY DEF Typed
<1> PICK w : w = CountVlan(s, -1)
  OBVIOUS
<1> PICK v : v = StoreRemoved(w, m)
  OBVIOUS
<1> PICK u : u = CountAt(v, b, -1)
  OBVIOUS
<1>1. t = notifyTunnelOrch(u, b[1])
  BY DEF clearFdbEntry
<1>2. Part(s, w, m, c, a)
  BY <1>0, CountVlanPart
<1>3. w \in State /\ w.asic[m] = a
  BY <1>0, <1>2, PartFacts
<1>4. Part(w, v, m, NoEntry, a)
  BY <1>3, StoreRemovedPart
<1>5. v \in State /\ v.ent[m] = NoEntry /\ v.asic[m] = a
  BY <1>3, <1>4, PartFacts
<1>6. Part(v, u, m, NoEntry, a)
  BY <1>5, CountAtPart
<1>7. Part(s, v, m, NoEntry, a)
  BY <1>0, <1>2, <1>4, PartTransitive
<1>8. Part(s, u, m, NoEntry, a)
  BY <1>0, <1>6, <1>7, PartTransitive
<1>9. /\ u.ent[m] = NoEntry /\ u.asic[m] = a /\ Lost(s) \subseteq Lost(u)
      /\ \A x \in Mac \ {m} : u.ent[x] = s.ent[x] /\ u.asic[x] = s.asic[x]
  BY SMTT(30), <1>0, <1>8, PartFacts
<1>10. u.events = s.events /\ u.bp = s.bp /\ u.saved = s.saved
  BY <1>8 DEF Part
<1>11. Sound(s, u, {m}) /\ Typed(u)
  BY <1>8, PartSound DEF Sound
<1>12. MacOk(u, m)
  <2>1. Fixed(NoEntry, a, u.events, m)
    BY DEF Fixed, Pinned
  <2> QED
    BY <1>9, <1>10, <2>1 DEF Clearable, MacOk
<1>13. Sound(u, t, {}) /\ t.saved = u.saved
  BY <1>1, <1>11, notifyTunnelOrchSound
<1>14. MacOk(t, m)
  BY <1>12, <1>13 DEF Sound, Safe
<1>15. Sound(s, t, {m})
  BY <1>11, <1>13, SoundLess, SoundTransitive
<1>16. ASSUME NEW x \in Mac \ {m}, Clearable(s, x) PROVE Clearable(t, x)
  <2>1. Clearable(u, x)
    BY <1>9, <1>10, <1>16 DEF Clearable
  <2> QED
    BY <1>1, <1>11, <2>1, notifyTunnelOrchClearable
<1> QED
  BY <1>10, <1>13, <1>14, <1>15, <1>16

\* The entries of M have left it, those of F \ M will.
Cleared(s, t, F, M) ==
    /\ Sound(s, t, F) /\ t.saved = s.saved
    /\ \A x \in M : MacOk(t, x)
    /\ \A x \in F \ M : Clearable(t, x)

LEMMA ClearNext ==
    ASSUME NEW s, NEW F \in SUBSET Mac, NEW N \in SUBSET F, NEW x \in F \ N, NEW a, Cleared(s, a, F, N)
    PROVE  Cleared(s, clearFdbEntry(a, x), F, N \cup {x})
<1> PICK c : c = clearFdbEntry(a, x)
  OBVIOUS
<1>1. Typed(a) /\ Clearable(a, x) /\ x \in Mac /\ Sound(s, a, F)
  BY DEF Cleared, Sound
<1>2. /\ Sound(a, c, {x}) /\ MacOk(c, x) /\ c.saved = a.saved
      /\ \A y \in Mac \ {x} : Clearable(a, y) => Clearable(c, y)
  BY <1>1, clearFdbEntryClears
<1>3. Sound(a, c, F)
  BY <1>2 DEF Sound
<1>4. Sound(s, c, F)
  BY <1>1, <1>3, SoundTransitive
<1>5. ASSUME NEW y \in N \cup {x} PROVE MacOk(c, y)
  <2>1. CASE y = x
    BY <1>2, <2>1
  <2>2. CASE y # x
    <3>1. y \in Mac \ {x} /\ MacOk(a, y)
      BY <2>2 DEF Cleared
    <3> QED
      BY <1>2, <3>1 DEF Sound, Safe
  <2> QED
    BY <2>1, <2>2
<1>6. ASSUME NEW y \in F \ (N \cup {x}) PROVE Clearable(c, y)
  BY <1>2 DEF Cleared
<1> QED
  BY <1>2, <1>4, <1>5, <1>6 DEF Cleared

LEMMA FlushFolded ==
    ASSUME NEW s, Typed(s), NEW F \in SUBSET Mac, IsFiniteSet(F), \A x \in F : Clearable(s, x), NEW h, FlushIs(h, s, F)
    PROVE  Cleared(s, h[F], F, F)
<1> PICK S : S = {M \in SUBSET F : Cleared(s, h[M], F, M)}
  OBVIOUS
<1>1. \A M \in SUBSET F : h[M] = FlushValue(h, s, M)
  BY DEF FlushIs
<1>2. {} \in S
  <2>1. h[{}] = s
    BY <1>1 DEF FlushValue
  <2>2. Sound(s, s, F)
    BY SoundSelf
  <2>3. Cleared(s, s, F, {})
    BY <2>2 DEF Cleared
  <2> QED
    BY <2>1, <2>3
<1>3. ASSUME NEW M \in SUBSET F, M # {}, FlushRest(M) \in S PROVE M \in S
  <2>1. \E x : x = (CHOOSE y \in M : TRUE) /\ x \in M
    BY <1>3
  <2>2. PICK x : x = (CHOOSE y \in M : TRUE) /\ x \in M
    BY <2>1
  <2>3. PICK N : N = FlushRest(M)
    OBVIOUS
  <2>4. N = M \ {x}
    BY <2>2, <2>3 DEF FlushRest
  <2>5. x \in F \ N /\ M = N \cup {x} /\ N \in SUBSET F
    BY <2>2, <2>4
  <2>6. Cleared(s, h[N], F, N)
    BY <1>3, <2>3
  <2>7. Cleared(s, clearFdbEntry(h[N], x), F, N \cup {x})
    BY <2>5, <2>6, ClearNext
  <2>8. h[M] = clearFdbEntry(h[N], x)
    BY <1>1, <1>3, <2>2, <2>3 DEF FlushValue
  <2>9. Cleared(s, h[M], F, M)
    BY <2>5, <2>7, <2>8
  <2> QED
    BY <2>9
<1>4. ASSUME NEW M \in SUBSET F, \A N \in SUBSET M : N # M => N \in S PROVE M \in S
  <2>1. CASE M = {}
    BY <1>2, <2>1
  <2>2. CASE M # {}
    <3>1. FlushRest(M) \in SUBSET M /\ FlushRest(M) # M
      BY <2>2 DEF FlushRest
    <3> QED
      BY <1>3, <1>4, <2>2, <3>1
  <2> QED
    BY <2>1, <2>2
<1>5. S \in SUBSET (SUBSET F)
  OBVIOUS
<1>6. F \in S
  BY <1>4, <1>5, FiniteInduct
<1> QED
  BY <1>6

\* What a flush notification for b removes.
FlushSet(s, b) == {x \in Mac : At(s.ent[x], b) /\ s.ent[x].sai = "dynamic" /\ s.ent[x].flush}

LEMMA FlushNotified ==
    ASSUME NEW s, Typed(s), NEW b, NEW F, F = FlushSet(s, b), \A x \in F : Clearable(s, x)
    PROVE  LET t == handleSyncdFlushNotif(s, b)
           IN  Sound(s, t, F) /\ t.saved = s.saved /\ \A x \in F : MacOk(t, x)
<1>1. F \in SUBSET Mac
  BY DEF FlushSet
<1>2. IsFiniteSet(F)
  BY <1>1, FS_Subset, PortsAssumption
<1>3. \E h : FlushIs(h, s, F)
  BY <1>2, FlushFold
<1>4. PICK h : h = CHOOSE g : FlushIs(g, s, F)
  OBVIOUS
<1>5. FlushIs(h, s, F)
  BY <1>3, <1>4
<1>6. handleSyncdFlushNotif(s, b) = h[F]
  BY <1>4 DEF FlushSet, FlushIs, handleSyncdFlushNotif, FoldSet, MapThenFoldSet, FlushValue, FlushRest
<1>7. Cleared(s, h[F], F, F)
  BY <1>1, <1>2, <1>5, FlushFolded
<1> QED
  BY <1>6, <1>7 DEF Cleared

-----------------------------------------------------------------------------
(* A notification is taken and handled                                     *)

\* What a step has to keep.
Preserves(s, t) ==
    /\ Typed(t) /\ Grows(s, t) /\ SavedGrows(s, t)
    /\ \A x \in Mac : MacOk(s, x) => Handled(s, t, x)

LEMMA SoundPreserves ==
    ASSUME NEW s, NEW t, Sound(s, t, {}), t.saved = s.saved
    PROVE  Preserves(s, t)
<1>1. SavedGrows(s, t)
  BY DEF SavedGrows
<1> QED
  BY <1>1 DEF Sound, Safe, Preserves, Handled

LEMMA HeardFacts ==
    ASSUME NEW s, Typed(s), s.events # <<>>
    PROVE  LET u == Heard(s)
           IN  /\ Typed(u) /\ u.ent = s.ent /\ u.asic = s.asic /\ u.bp = s.bp /\ u.saved = s.saved
               /\ u.excused = s.excused /\ u.events = Tail(s.events)
               /\ TailAs(s.events, Head(s.events), u.events) /\ Head(s.events) \in Notifications
               /\ Grows(s, u) /\ Lost(u) = Lost(s) /\ Loose(u) = Loose(s)
<1> PICK q, r, u : q = s.events /\ r = Tail(q) /\ u = Heard(s)
  OBVIOUS
<1>1. q \in Seq(Notifications) /\ Distinct(q) /\ q # <<>>
  BY DEF Typed, State
<1>2. TailAs(q, Head(q), r)
  BY <1>1, TailOrder
<1>3. r \in Seq(Notifications) /\ Distinct(r) /\ Head(q) \in Notifications
  BY <1>1, <1>2 DEF TailAs
<1>4. u = [s EXCEPT !.events = r] /\ s \in State
  BY DEF Heard, Typed, State
<1>5. u \in State
  BY <1>3, <1>4 DEF State
<1>6. /\ u.ent = s.ent /\ u.asic = s.asic /\ u.bp = s.bp /\ u.saved = s.saved
      /\ u.excused = s.excused /\ u.events = r
  BY <1>4 DEF State
<1>7. Typed(u)
  BY <1>3, <1>5, <1>6 DEF Typed, PortNames
<1>8. Grows(s, u) /\ Lost(u) = Lost(s) /\ Loose(u) = Loose(s)
  BY <1>6 DEF Grows, Lost, Loose
<1> QED
  BY <1>2, <1>3, <1>6, <1>7, <1>8

LEMMA HeardOther ==
    ASSUME NEW s, Typed(s), s.events # <<>>, NEW x \in Mac, MacOk(s, x), Head(s.events).mac # x,
           Head(s.events).mac # AnyMac
    PROVE  MacOk(Heard(s), x)
<1> PICK u : u = Heard(s)
  OBVIOUS
<1>1. /\ Typed(u) /\ u.ent = s.ent /\ u.asic = s.asic /\ u.bp = s.bp /\ u.saved = s.saved
      /\ u.events = Tail(s.events) /\ Lost(u) = Lost(s) /\ Loose(u) = Loose(s)
  BY HeardFacts
<1>2. s.events \in Seq(Notifications) /\ u.events \in Seq(Notifications) /\ Distinct(s.events)
  BY <1>1 DEF Typed, State
<1>3. SameFor(s.events, u.events, x)
  BY <1>1, <1>2, TailSame
<1> PICK c, a, B : c = s.ent[x] /\ a = s.asic[x] /\ B = Range(s.bp)
  OBVIOUS
<1>4. /\ InStep(c, a, s.events, B, x) => InStep(c, a, u.events, B, x)
      /\ Fixed(c, a, s.events, x) => Fixed(c, a, u.events, x)
  BY <1>2, <1>3, SameMac
<1> QED
  BY <1>1, <1>4 DEF MacOk

LEMMA HeardTaken ==
    ASSUME NEW s, Typed(s), s.events # <<>>, NEW m \in Mac, MacOk(s, m), Head(s.events).mac = m
    PROVE  Taken(Heard(s), m, Head(s.events))
<1> PICK u, h : u = Heard(s) /\ h = Head(s.events)
  OBVIOUS
<1>1. /\ Typed(u) /\ u.ent = s.ent /\ u.asic = s.asic /\ u.bp = s.bp /\ u.saved = s.saved
      /\ TailAs(s.events, h, u.events) /\ h \in Notifications /\ Lost(u) = Lost(s) /\ Loose(u) = Loose(s)
  BY HeardFacts
<1>2. s.events \in Seq(Notifications) /\ Distinct(s.events)
  BY DEF Typed, State
<1> PICK c, a, B : c = s.ent[m] /\ a = s.asic[m] /\ B = Range(s.bp)
  OBVIOUS
<1>3. InStep(c, a, s.events, B, m) => Popped(c, a, u.events, B, m, h)
  BY <1>1, <1>2, PoppedFacts
<1>4. Fixed(c, a, s.events, m) /\ Pinned(c) => h.type = "AGED"
  BY <1>1, PoppedFixed
<1> QED
  BY <1>1, <1>3, <1>4 DEF MacOk, Taken

LEMMA HeardFlush ==
    ASSUME NEW s, Typed(s), s.events # <<>>, NEW x \in Mac, MacOk(s, x), Head(s.events).mac = AnyMac,
           NEW c, c = s.ent[x]
    PROVE  IF At(c, Head(s.events).bp) /\ c.sai = "dynamic" /\ c.flush
           THEN Clearable(Heard(s), x) ELSE MacOk(Heard(s), x)
<1> PICK u, h, q, r : u = Heard(s) /\ h = Head(s.events) /\ q = s.events /\ r = Heard(s).events
  OBVIOUS
<1>1. /\ Typed(u) /\ u.ent = s.ent /\ u.asic = s.asic /\ u.bp = s.bp /\ u.saved = s.saved
      /\ TailAs(q, h, r) /\ h \in Notifications /\ Lost(u) = Lost(s) /\ Loose(u) = Loose(s)
  BY HeardFacts
<1>2. h \notin Of(q, x) /\ Of(r, x) = Of(q, x)
  BY <1>1, PortsAssumption DEF TailAs, Of
<1>3. FewerFor(q, r, x)
  <2>1. Ev(r) = Ev(q) \ {h} /\ \A y, z : y # h => (Before(r, y, z) <=> Before(q, y, z))
    BY <1>1 DEF TailAs
  <2> QED
    BY <1>2, <2>1 DEF FewerFor
<1> PICK a, B : a = s.asic[x] /\ B = Range(s.bp)
  OBVIOUS
<1>4. CASE At(c, h.bp) /\ c.sai = "dynamic" /\ c.flush
  <2> SUFFICES ASSUME x \notin Lost(s) PROVE Clearable(u, x)
    BY <1>1, <1>4 DEF Clearable
  <2>1. InStep(c, a, q, B, x) /\ NotLearnt(s.saved, x)
    BY DEF MacOk
  <2>2. c # NoEntry
    BY <1>4 DEF At
  <2>3. InStep(NoEntry, a, r, B, x)
    <3>1. CASE Of(q, x) = {}
      <4>1. Idle(c, a, q)
        BY <2>1, <3>1 DEF InStep
      <4>2. a = NoEntry
        BY <1>4, <2>2, <4>1 DEF Idle
      <4> QED
        BY <1>2, <3>1, <4>2, NothingIdle
    <3>2. CASE Of(q, x) # {}
      <4>1. QueueOk(a, q, B, x)
        BY <2>1, <3>2 DEF InStep
      <4>2. QueueOk(a, r, B, x)
        BY <1>3, <4>1, SameQueueOk
      <4>3. Busy(NoEntry, r, B, x) /\ KindOk(NoEntry)
        BY DEF Busy, KindOk
      <4> QED
        BY <1>2, <3>2, <4>2, <4>3 DEF InStep
    <3> QED
      BY <3>1, <3>2
  <2> QED
    BY <1>1, <2>1, <2>3 DEF Clearable
<1>5. CASE ~(At(c, h.bp) /\ c.sai = "dynamic" /\ c.flush)
  <2>1. Going(c, q) => Going(c, r)
    <3> SUFFICES ASSUME Going(c, q) PROVE Going(c, r)
      OBVIOUS
    <3>1. PICK f \in Ev(q) : f.type = "FLUSHED" /\ f.bp \in {NoBp, c.bp}
      BY DEF Going
    <3>2. f # h
      BY <1>5, <3>1 DEF Going, At
    <3>3. f \in Ev(r)
      BY <1>1, <3>2 DEF TailAs
    <3> QED
      BY <3>1, <3>3 DEF Going
  <2>2. /\ InStep(c, a, q, B, x) => InStep(c, a, r, B, x)
        /\ Fixed(c, a, q, x) => Fixed(c, a, r, x)
    BY <1>3, <2>1, FewerMac
  <2>3. MacOk(u, x)
    BY <1>1, <2>2 DEF MacOk
  <2> QED
    BY <1>5, <2>3
<1> QED
  BY <1>4, <1>5

LEMMA UpdatePreserves ==
    ASSUME NEW s, Typed(s), Good(s), s.events # <<>>, \A x \in Mac : MacOk(s, x)
    PROVE  Preserves(s, Update(Heard(s), Head(s.events)))
<1> PICK u, h : u = Heard(s) /\ h = Head(s.events)
  OBVIOUS
<1> PICK t : t = Update(u, h)
  OBVIOUS
<1>1. /\ Typed(u) /\ u.ent = s.ent /\ u.asic = s.asic /\ u.bp = s.bp /\ u.saved = s.saved
      /\ h \in Notifications /\ Grows(s, u)
  BY HeardFacts
<1>2. CASE h.type = "FLUSHED"
  <2>1. h.mac = AnyMac /\ t = handleSyncdFlushNotif(u, h.bp)
    BY <1>1, <1>2 DEF Notifications, Update
  <2>2. PICK F : F = FlushSet(u, h.bp)
    OBVIOUS
  <2>3. ASSUME NEW x \in Mac
        PROVE  /\ x \in F => Clearable(u, x) /\ s.ent[x].sai = "dynamic" /\ s.ent[x] # NoEntry
               /\ x \notin F => MacOk(u, x)
    <3> PICK c : c = s.ent[x]
      OBVIOUS
    <3>1. IF At(c, h.bp) /\ c.sai = "dynamic" /\ c.flush THEN Clearable(u, x) ELSE MacOk(u, x)
      BY <2>1, HeardFlush
    <3>2. x \in F <=> At(c, h.bp) /\ c.sai = "dynamic" /\ c.flush
      BY <1>1, <2>2 DEF FlushSet
    <3> QED
      BY <3>1, <3>2 DEF At
  <2>4. \A x \in F : Clearable(u, x)
    BY <2>2, <2>3 DEF FlushSet
  <2>5. Sound(u, t, F) /\ t.saved = u.saved /\ \A x \in F : MacOk(t, x)
    BY <1>1, <2>1, <2>2, <2>4, FlushNotified
  <2>6. Typed(t) /\ Grows(s, t) /\ SavedGrows(s, t)
    BY <1>1, <2>5 DEF Sound, Grows, SavedGrows
  <2>7. ASSUME NEW x \in Mac PROVE Handled(s, t, x)
    <3>1. CASE x \in F
      <4>1. MacOk(t, x)
        BY <2>5, <3>1
      <4>2. ASSUME NEW d, Static(d), Cached(s.ent[x], d, s.bp) PROVE x \in Waived(t)
        <5>1. s.ent[x].type = "static" /\ s.ent[x].sai = "dynamic" /\ s.ent[x] # NoEntry
          BY <2>3, <3>1, <4>2 DEF Static, Cached, Data
        <5>2. x \in Lost(s)
          BY <5>1 DEF MacOk, InStep, KindOk
        <5>3. Waived(s) \subseteq Waived(t)
          BY <2>6, GrowsFacts
        <5> QED
          BY <5>2, <5>3 DEF Waived, Loose
      <4> QED
        BY <4>1, <4>2 DEF Handled
    <3>2. CASE x \notin F
      <4>1. Safe(u, t, x) /\ MacOk(u, x)
        BY <2>3, <2>5, <3>2 DEF Sound
      <4> QED
        BY <1>1, <4>1 DEF Safe, Handled
    <3> QED
      BY <3>1, <3>2
  <2> QED
    BY <2>6, <2>7 DEF Preserves
<1>3. CASE h.type # "FLUSHED"
  <2> PICK m, b : m = h.mac /\ b = h.bp
    OBVIOUS
  <2>1. m \in Mac /\ h.type \in {"LEARNED", "MOVE", "AGED"} /\ b \in BridgePorts /\ (h.type # "AGED" => b \in PhyBps)
    BY <1>1, <1>3 DEF Notifications, PhyBps, BridgePorts, Port
  <2>2. Taken(u, m, h)
    BY <2>1, HeardTaken
  <2>3. Good(u)
    <3>1. s \in State
      BY DEF Typed
    <3> QED
      BY <3>1, HeardSilent, CalmGood DEF Silent
  <2>4. Done(u, t, m)
    <3>1. CASE b \notin Range(u.bp)
      <4>1. t = u
        BY <1>3, <3>1 DEF Update
      <4>2. m \in Lost(u)
        BY <2>2, <3>1 DEF Taken, Popped
      <4>3. Part(u, u, m, u.ent[m], u.asic[m])
        BY <1>1, <2>1, PartSelf DEF Typed
      <4>4. Done(u, u, m)
        BY <1>1, <2>1, <2>2, <4>2, <4>3, PartDone
      <4> QED
        BY <4>1, <4>4
    <3>2. CASE b \in Range(u.bp) /\ h.type = "LEARNED"
      <4>1. t = Learned(u, m, b) /\ b \in PhyBps /\ Fine(u)
        BY <2>1, <2>3, <3>2 DEF Update, Good
      <4> QED
        BY <1>1, <2>1, <2>2, <3>2, <4>1, LearnedDone
    <3>3. CASE b \in Range(u.bp) /\ h.type = "MOVE"
      <4>1. t = Moved(u, m, b) /\ b \in PhyBps
        BY <2>1, <3>3 DEF Update
      <4> QED
        BY <1>1, <2>1, <2>2, <3>3, <4>1, MovedDone
    <3>4. CASE b \in Range(u.bp) /\ h.type = "AGED"
      <4>1. t = Aged(u, m, b)
        BY <3>4 DEF Update
      <4> QED
        BY <1>1, <2>1, <2>2, <3>4, <4>1, AgedDone
    <3> QED
      BY <2>1, <3>1, <3>2, <3>3, <3>4
  <2>5. Sound(u, t, {m}) /\ Handled(u, t, m) /\ SavedGrows(u, t)
    BY <2>4 DEF Done
  <2>6. Typed(t) /\ Grows(s, t) /\ SavedGrows(s, t)
    BY <1>1, <2>5 DEF Sound, Grows, SavedGrows
  <2>7. ASSUME NEW x \in Mac PROVE Handled(s, t, x)
    <3>1. CASE x = m
      BY <1>1, <2>5, <3>1 DEF Handled
    <3>2. CASE x # m
      <4>0. h.mac # AnyMac
        BY <2>1, PortsAssumption
      <4>1. MacOk(u, x)
        BY <3>2, <4>0, HeardOther
      <4>2. Safe(u, t, x)
        BY <2>5, <3>2 DEF Sound
      <4> QED
        BY <1>1, <4>1, <4>2 DEF Safe, Handled
    <3> QED
      BY <3>1, <3>2
  <2> QED
    BY <2>6, <2>7 DEF Preserves
<1> QED
  BY <1>2, <1>3

-----------------------------------------------------------------------------
(* What the ASIC does by itself                                            *)

\* Notification e about m was put to the end of queue q, which made r.
Sent(q, e, r, m) ==
    /\ Of(r, m) = Of(q, m) \cup {e} /\ Ev(r) = Ev(q) \cup {e}
    /\ \A x, y : x # e /\ y # e => (Before(r, x, y) <=> Before(q, x, y))
    /\ \A x \in Of(q, m) : x # e => Before(r, x, e)
    /\ \A y : ~Before(r, e, y)
    /\ \A f : Final(r, m, f) <=> f = e
    /\ \A c : Going(c, q) => Going(c, r)

LEMMA SentFacts ==
    ASSUME NEW q, NEW e, NEW r, QueuedAs(q, e, r), NEW m \in Mac, e.mac = m
    PROVE  Sent(q, e, r, m)
<1>1. Of(r, m) = Of(q, m) \cup {e} /\ Ev(r) = Ev(q) \cup {e}
  BY DEF QueuedAs, Of
<1>2. /\ \A x, y : x # e /\ y # e => (Before(r, x, y) <=> Before(q, x, y))
      /\ \A x \in Of(q, m) : x # e => Before(r, x, e)
      /\ \A y : ~Before(r, e, y)
  BY DEF QueuedAs, Of
<1>3. \A f : Final(r, m, f) <=> f = e
  BY <1>1, <1>2 DEF Final
<1>4. \A c : Going(c, q) => Going(c, r)
  BY <1>1 DEF Going
<1> QED
  BY <1>1, <1>2, <1>3, <1>4 DEF Sent

\* The conditions on the queue that do not depend on what was sent.
LEMMA SentQueue ==
    ASSUME NEW q, NEW e, NEW r, QueuedAs(q, e, r), NEW m \in Mac, e.mac = m, NEW a, NEW B,
           Of(q, m) # {} => QueueOk(a, q, B, m), e.bp \in B
    PROVE  /\ \A x \in Of(r, m) : x.bp \in B
           /\ \A x \in Of(r, m), f \in Ev(r) : f.mac = AnyMac => ~Before(r, x, f)
<1>0. Sent(q, e, r, m)
  BY SentFacts
<1>1. /\ Of(r, m) = Of(q, m) \cup {e} /\ Ev(r) = Ev(q) \cup {e}
      /\ \A x, y : x # e /\ y # e => (Before(r, x, y) <=> Before(q, x, y))
      /\ \A y : ~Before(r, e, y)
  BY <1>0 DEF Sent
<1>2. \A x \in Of(r, m) : x.bp \in B
  BY <1>1 DEF QueueOk
<1>3. ASSUME NEW x \in Of(r, m), NEW f \in Ev(r), f.mac = AnyMac PROVE ~Before(r, x, f)
  <2>1. f # e /\ f \in Ev(q)
    BY <1>1, <1>3, PortsAssumption
  <2>2. CASE x = e
    BY <1>1, <2>2
  <2>3. CASE x # e
    BY <1>1, <1>3, <2>1, <2>3 DEF QueueOk
  <2> QED
    BY <2>2, <2>3
<1> QED
  BY <1>2, <1>3

LEMMA LearntInStep ==
    ASSUME NEW q, NEW e, NEW r, QueuedAs(q, e, r), NEW m \in Mac, e.mac = m, NEW B, NEW c, InStep(c, NoEntry, q, B, m),
           e.type = "LEARNED", e.bp \in B,
           NEW n, n # NoEntry, n.bp = e.bp, n.sai = "dynamic", ~n.allow
    PROVE  InStep(c, n, r, B, m) /\ (Fixed(c, NoEntry, q, m) => Fixed(c, n, r, m))
<1>0. Sent(q, e, r, m)
  BY SentFacts
<1>1. /\ Of(r, m) = Of(q, m) \cup {e} /\ Ev(r) = Ev(q) \cup {e}
      /\ \A x, y : x # e /\ y # e => (Before(r, x, y) <=> Before(q, x, y))
      /\ \A x \in Of(q, m) : x # e => Before(r, x, e)
      /\ \A y : ~Before(r, e, y)
      /\ \A f : Final(r, m, f) <=> f = e
      /\ Going(c, q) => Going(c, r)
  BY <1>0 DEF Sent
<1>2. Of(q, m) # {} => QueueOk(NoEntry, q, B, m) /\ Busy(c, q, B, m)
  BY DEF InStep
<1>3. Of(q, m) = {} => c = NoEntry \/ Going(c, q)
  BY DEF InStep, Idle
<1>4. \A x \in Of(q, m) : AgedLater(q, m, x)
  BY <1>2 DEF QueueOk
<1>5. \A x \in Of(q, m) : x # e => AgedLater(r, m, x)
  <2> SUFFICES ASSUME NEW x \in Of(q, m), x # e PROVE AgedLater(r, m, x)
    OBVIOUS
  <2>1. PICK z \in Of(q, m) : z.type = "AGED" /\ (z = x \/ Before(q, x, z))
    BY <1>4 DEF AgedLater
  <2>2. z # e /\ z \in Of(r, m)
    BY <1>1, <2>1
  <2> QED
    BY <1>1, <2>1, <2>2 DEF AgedLater
<1>6. Of(q, m) # {} => AgedBefore(r, m, e)
  <2> SUFFICES ASSUME NEW x \in Of(q, m) PROVE AgedBefore(r, m, e)
    OBVIOUS
  <2>1. PICK z \in Of(q, m) : z.type = "AGED"
    BY <1>4 DEF AgedLater
  <2> QED
    BY <1>1, <2>1 DEF AgedBefore
<1>7. \A x \in Of(q, m) : x # e /\ AgedBefore(q, m, x) => AgedBefore(r, m, x)
  BY <1>1 DEF AgedBefore
<1>8. c # NoEntry /\ c.type = "static" => Of(q, m) # {}
  BY <1>3 DEF InStep, KindOk, Going
<1>9. QueueOk(n, r, B, m)
  <2>1. /\ \A x \in Of(r, m) : x.bp \in B
        /\ \A x \in Of(r, m), f \in Ev(r) : f.mac = AnyMac => ~Before(r, x, f)
    BY <1>2, SentQueue
  <2>2. Final(r, m, e)
    BY <1>1
  <2>3. \A x, y \in Of(r, m) : y.type = "LEARNED" /\ Before(r, x, y) => AgedLater(r, m, x)
    BY <1>1, <1>5
  <2>4. \A f, x \in Of(r, m) : f.type = "AGED" => ~Final(r, m, f)
    BY <1>1
  <2> QED
    BY <2>1, <2>2, <2>3, <2>4 DEF QueueOk
<1>10. Busy(c, r, B, m)
  <2>1. ASSUME \A x \in Of(r, m) : x.type # "AGED" PROVE c = NoEntry \/ Going(c, r)
    <3>1. Of(q, m) = {}
      BY <1>1, <1>4, <2>1 DEF AgedLater
    <3> QED
      BY <1>1, <1>3, <3>1
  <2>2. \A x : Of(r, m) = {x} => x = e
    BY <1>1
  <2>3. ASSUME c # NoEntry, c.sai = "dynamic", c.flush PROVE Going(c, r)
    BY <1>1, <1>2, <1>3, <2>3 DEF Busy
  <2>4. ASSUME c # NoEntry, c.type = "static", NEW x \in Of(r, m), x.type = "LEARNED" PROVE AgedBefore(r, m, x)
    <3>1. CASE x = e
      BY <1>6, <1>8, <2>4, <3>1
    <3>2. CASE x # e
      <4>1. x \in Of(q, m)
        BY <1>1, <3>2
      <4> QED
        BY <1>2, <1>7, <1>8, <2>4, <3>2, <4>1 DEF Busy
    <3> QED
      BY <3>1, <3>2
  <2> QED
    BY <2>1, <2>2, <2>3, <2>4 DEF Busy
<1>11. InStep(c, n, r, B, m)
  BY <1>1, <1>9, <1>10 DEF InStep
<1>12. ASSUME Fixed(c, NoEntry, q, m), Pinned(c), NEW x \in Of(r, m), x.type # "AGED" PROVE AgedBefore(r, m, x)
  <2>1. CASE x = e
    BY <1>6, <1>8, <1>12, <2>1 DEF Pinned
  <2>2. CASE x # e
    <3>1. x \in Of(q, m)
      BY <1>1, <2>2
    <3> QED
      BY <1>7, <1>12, <2>2, <3>1 DEF Fixed
  <2> QED
    BY <2>1, <2>2
<1>13. Fixed(c, NoEntry, q, m) => Fixed(c, n, r, m)
  BY <1>1, <1>12 DEF Fixed
<1> QED
  BY <1>11, <1>13

LEMMA MovedInStep ==
    ASSUME NEW q, NEW e, NEW r, QueuedAs(q, e, r), NEW m \in Mac, e.mac = m, NEW B, NEW c, NEW a, a # NoEntry,
           InStep(c, a, q, B, m), e.type = "MOVE", e.bp \in B, a.bp # e.bp,
           NEW n, n # NoEntry, n.bp = e.bp, n.sai = "dynamic", ~n.allow
    PROVE  /\ InStep(c, n, r, B, m)
           /\ (a.sai = "dynamic" \/ a.allow) /\ Fixed(c, a, q, m) => Fixed(c, n, r, m)
<1>0. Sent(q, e, r, m)
  BY SentFacts
<1>1. /\ Of(r, m) = Of(q, m) \cup {e} /\ Ev(r) = Ev(q) \cup {e}
      /\ \A x, y : x # e /\ y # e => (Before(r, x, y) <=> Before(q, x, y))
      /\ \A x \in Of(q, m) : x # e => Before(r, x, e)
      /\ \A y : ~Before(r, e, y)
      /\ \A f : Final(r, m, f) <=> f = e
      /\ Going(c, q) => Going(c, r)
  BY <1>0 DEF Sent
<1>2. Of(q, m) # {} => QueueOk(a, q, B, m) /\ Busy(c, q, B, m)
  BY DEF InStep
<1>3. Of(q, m) = {} => c # NoEntry /\ a.bp = c.bp /\ a.sai = c.sai /\ ~(c.sai = "dynamic" /\ c.flush)
  BY DEF InStep, Idle
<1>4. Of(q, m) # {} => \E f : Final(q, m, f) /\ f.type \in {"LEARNED", "MOVE"} /\ f.bp = a.bp
  BY <1>2 DEF QueueOk
<1>5. \A x \in Of(q, m) : x # e /\ AgedLater(q, m, x) => AgedLater(r, m, x)
  <2> SUFFICES ASSUME NEW x \in Of(q, m), x # e, AgedLater(q, m, x) PROVE AgedLater(r, m, x)
    OBVIOUS
  <2>1. PICK z \in Of(q, m) : z.type = "AGED" /\ (z = x \/ Before(q, x, z))
    BY DEF AgedLater
  <2>2. z # e /\ z \in Of(r, m)
    BY <1>1, <2>1
  <2> QED
    BY <1>1, <2>1, <2>2 DEF AgedLater
<1>7. \A x \in Of(q, m) : x # e /\ AgedBefore(q, m, x) => AgedBefore(r, m, x)
  BY <1>1 DEF AgedBefore
<1>9. QueueOk(n, r, B, m)
  <2>1. /\ \A x \in Of(r, m) : x.bp \in B
        /\ \A x \in Of(r, m), f \in Ev(r) : f.mac = AnyMac => ~Before(r, x, f)
    BY <1>2, SentQueue
  <2>2. Final(r, m, e)
    BY <1>1
  <2>3. ASSUME NEW x \in Of(r, m), NEW y \in Of(r, m), y.type = "LEARNED", Before(r, x, y) PROVE AgedLater(r, m, x)
    <3>1. x # e /\ y # e /\ x \in Of(q, m) /\ y \in Of(q, m) /\ Before(q, x, y)
      BY <1>1, <2>3
    <3> QED
      BY <1>2, <1>5, <2>3, <3>1 DEF QueueOk
  <2>4. \A f, x \in Of(r, m) : f.type = "AGED" => ~Final(r, m, f)
    BY <1>1
  <2> QED
    BY <2>1, <2>2, <2>3, <2>4 DEF QueueOk
<1>10. Busy(c, r, B, m)
  <2>1. ASSUME NEW x \in Of(r, m), x.type = "LEARNED", \A y \in Of(r, m) : y.type # "AGED" PROVE c = NoEntry \/ Going(c, r)
    <3>1. x \in Of(q, m) /\ \A y \in Of(q, m) : y.type # "AGED"
      BY <1>1, <2>1
    <3> QED
      BY <1>1, <1>2, <2>1, <3>1 DEF Busy
  <2>2. ASSUME NEW x, Of(r, m) = {x} PROVE x = e /\ c.bp # e.bp
    <3>1. x = e /\ (Of(q, m) = {} \/ Of(q, m) = {e})
      BY <1>1, <2>2
    <3>2. Of(q, m) # {e}
      BY <1>4 DEF Final
    <3> QED
      BY <1>3, <3>1, <3>2
  <2>3. ASSUME c # NoEntry, c.sai = "dynamic", c.flush PROVE Going(c, r)
    BY <1>1, <1>2, <1>3, <2>3 DEF Busy
  <2>4. ASSUME c # NoEntry, c.type = "static", NEW x \in Of(r, m), x.type = "LEARNED" PROVE AgedBefore(r, m, x)
    <3>1. x # e /\ x \in Of(q, m)
      BY <1>1, <2>4
    <3> QED
      BY <1>2, <1>7, <2>4, <3>1 DEF Busy
  <2> QED
    BY <2>1, <2>2, <2>3, <2>4 DEF Busy
<1>11. InStep(c, n, r, B, m)
  BY <1>1, <1>9, <1>10 DEF InStep
<1>12. ASSUME a.sai = "dynamic" \/ a.allow, Fixed(c, a, q, m), Pinned(c), NEW x \in Of(r, m), x.type # "AGED"
       PROVE  AgedBefore(r, m, x)
  <2>1. CASE x = e
    <3>1. Of(q, m) # {}
      <4> SUFFICES ASSUME Of(q, m) = {} PROVE FALSE
        OBVIOUS
      <4>1. c.sai = "static"
        BY <1>12 DEF InStep, KindOk, Pinned
      <4> QED
        BY <1>3, <1>12, <4>1 DEF Fixed, Pinned, Local
    <3>2. PICK f : f \in Of(q, m) /\ f.type # "AGED"
      BY <1>4, <3>1 DEF Final
    <3>3. PICK y \in Of(q, m) : y.type = "AGED"
      BY <1>12, <3>2 DEF Fixed, AgedBefore
    <3> QED
      BY <1>1, <2>1, <3>3 DEF AgedBefore
  <2>2. CASE x # e
    <3>1. x \in Of(q, m)
      BY <1>1, <2>2
    <3> QED
      BY <1>7, <1>12, <2>2, <3>1 DEF Fixed
  <2> QED
    BY <2>1, <2>2
<1>13. (a.sai = "dynamic" \/ a.allow) /\ Fixed(c, a, q, m) => Fixed(c, n, r, m)
  BY <1>1, <1>12 DEF Fixed
<1> QED
  BY <1>11, <1>13

\* A static entry ages once.
NotAgain(c, e, q) == c # NoEntry /\ c.type = "static" => e \notin Ev(q)

LEMMA AgedInStep ==
    ASSUME NEW q \in Seq(Notifications), Distinct(q), NEW e, NEW r, QueuedAs(q, e, r), NEW m \in Mac, e.mac = m,
           NEW B, NEW c, NEW a, a # NoEntry,
           InStep(c, a, q, B, m), e.type = "AGED", e.bp = a.bp,
           NotAgain(c, e, q)
    PROVE  InStep(c, NoEntry, r, B, m) /\ (Fixed(c, a, q, m) => Fixed(c, NoEntry, r, m))
<1>0. Sent(q, e, r, m)
  BY SentFacts
<1>1. /\ Of(r, m) = Of(q, m) \cup {e} /\ Ev(r) = Ev(q) \cup {e}
      /\ \A x, y : x # e /\ y # e => (Before(r, x, y) <=> Before(q, x, y))
      /\ \A x \in Of(q, m) : x # e => Before(r, x, e)
      /\ \A y : ~Before(r, e, y)
      /\ \A f : Final(r, m, f) <=> f = e
      /\ Going(c, q) => Going(c, r)
  BY <1>0 DEF Sent
<1>2. Of(q, m) # {} => QueueOk(a, q, B, m) /\ Busy(c, q, B, m)
  BY DEF InStep
<1>3. Of(q, m) = {} => c # NoEntry /\ a.bp = c.bp /\ a.sai = c.sai /\ ~(c.sai = "dynamic" /\ c.flush)
  BY DEF InStep, Idle
<1>4. Of(q, m) # {} => \E f : Final(q, m, f) /\ f.type \in {"LEARNED", "MOVE"} /\ f.bp = a.bp
  BY <1>2 DEF QueueOk
<1>5. e.bp \in B
  <2>1. CASE Of(q, m) = {}
    BY <1>3, <2>1 DEF InStep, Going
  <2>2. CASE Of(q, m) # {}
    BY <1>2, <1>4, <2>2 DEF QueueOk, Final
  <2> QED
    BY <2>1, <2>2
<1>6. \A x \in Of(r, m) : AgedLater(r, m, x)
  BY <1>1 DEF AgedLater
<1>7. ASSUME c # NoEntry, c.type = "static", NEW x \in Of(q, m), x # e, AgedBefore(q, m, x) PROVE AgedBefore(r, m, x)
  <2>1. PICK y \in Of(q, m) : y.type = "AGED" /\ Before(q, y, x)
    BY <1>7 DEF AgedBefore
  <2>2. y # e
    BY <1>7, <2>1 DEF Of, NotAgain
  <2> QED
    BY <1>1, <1>7, <2>1, <2>2 DEF AgedBefore
<1>9. QueueOk(NoEntry, r, B, m)
  <2>1. /\ \A x \in Of(r, m) : x.bp \in B
        /\ \A x \in Of(r, m), f \in Ev(r) : f.mac = AnyMac => ~Before(r, x, f)
    BY <1>2, <1>5, SentQueue
  <2>2. ASSUME NEW f \in Of(r, m), NEW x \in Of(r, m), f.type = "AGED", Final(r, m, f), x # f,
               \A y \in Of(r, m) \ {f, x} : Before(r, y, x)
        PROVE  x.bp = f.bp /\ x.type # "AGED"
    <3>1. f = e /\ x \in Of(q, m) /\ x # e
      BY <1>1, <2>2
    <3>2. PICK g : Final(q, m, g) /\ g.type \in {"LEARNED", "MOVE"} /\ g.bp = a.bp
      BY <1>4, <3>1
    <3>3. g \in Of(q, m) /\ g # e
      BY <3>2 DEF Final
    <3>4. x = g
      <4> SUFFICES ASSUME x # g PROVE FALSE
        OBVIOUS
      <4>1. Before(q, x, g)
        BY <3>1, <3>2 DEF Final
      <4>2. Before(q, g, x)
        BY <1>1, <2>2, <3>1, <3>3
      <4> QED
        BY <4>1, <4>2, BeforeOrder
    <3> QED
      BY <3>1, <3>2, <3>4
  <2>3. \A x, y \in Of(r, m) : y.type = "LEARNED" /\ Before(r, x, y) => AgedLater(r, m, x)
    BY <1>6
  <2> QED
    BY <1>6, <2>1, <2>2, <2>3 DEF QueueOk
<1>10. Busy(c, r, B, m)
  <2>1. ~\A y \in Of(r, m) : y.type # "AGED"
    BY <1>1
  <2>2. ASSUME NEW x, Of(r, m) = {x} PROVE x = e /\ c.bp = e.bp
    <3>1. x = e /\ (Of(q, m) = {} \/ Of(q, m) = {e})
      BY <1>1, <2>2
    <3>2. Of(q, m) # {e}
      BY <1>4 DEF Final
    <3> QED
      BY <1>3, <3>1, <3>2
  <2>3. ASSUME c # NoEntry, c.sai = "dynamic", c.flush PROVE Going(c, r)
    BY <1>1, <1>2, <1>3, <2>3 DEF Busy
  <2>4. ASSUME c # NoEntry, c.type = "static", NEW x \in Of(r, m), x.type = "LEARNED" PROVE AgedBefore(r, m, x)
    <3>1. x # e /\ x \in Of(q, m)
      BY <1>1, <2>4
    <3> QED
      BY <1>2, <1>7, <2>4, <3>1 DEF Busy
  <2>5. \A x : Of(r, m) = {x} => x.type # "MOVE" /\ c.bp = x.bp
    BY <2>2
  <2> QED
    BY <2>1, <2>3, <2>4, <2>5 DEF Busy
<1>11. InStep(c, NoEntry, r, B, m)
  BY <1>1, <1>9, <1>10 DEF InStep
<1>12. ASSUME Fixed(c, a, q, m), Pinned(c), NEW x \in Of(r, m), x.type # "AGED" PROVE AgedBefore(r, m, x)
  <2>1. x # e /\ x \in Of(q, m)
    BY <1>1, <1>12
  <2> QED
    BY <1>7, <1>12, <2>1 DEF Fixed, Pinned
<1>13. Fixed(c, a, q, m) => Fixed(c, NoEntry, r, m)
  BY <1>1, <1>12 DEF Fixed
<1> QED
  BY <1>11, <1>13

LEMMA NotifyFacts ==
    ASSUME NEW s, Typed(s), NEW m \in Mac, NEW u, NEW c, NEW a, Part(s, u, m, c, a), NEW e \in Notifications,
           NEW t, t = Notify(u, e)
    PROVE  /\ Typed(t) /\ Grows(s, t) /\ t.ent = u.ent /\ t.asic = u.asic /\ t.bp = s.bp /\ t.saved = s.saved
           /\ t.excused = u.excused /\ t.events = Queued(s.events, e) /\ QueuedAs(s.events, e, t.events)
           /\ Lost(t) = Lost(u) /\ Loose(t) = Loose(u) /\ s.events \in Seq(Notifications) /\ Distinct(s.events)
<1> PICK q, r : q = s.events /\ r = Queued(s.events, e)
  OBVIOUS
<1>1. q \in Seq(Notifications) /\ Distinct(q)
  BY DEF Typed, State
<1>2. QueuedAs(q, e, r) /\ r \in Seq(Notifications)
  BY <1>1, QueuedOrder, QueuedType
<1>3. u \in State /\ u.events = q /\ u.bp = s.bp /\ u.saved = s.saved /\ Grows(s, u)
  BY DEF Part
<1>4. t = [u EXCEPT !.events = r]
  BY <1>3 DEF Notify, Queued, State
<1>5. t \in State
  BY <1>2, <1>3, <1>4 DEF State
<1>6. /\ t.ent = u.ent /\ t.asic = u.asic /\ t.bp = u.bp /\ t.saved = u.saved
      /\ t.excused = u.excused /\ t.events = r
  BY <1>3, <1>4 DEF State
<1>7. Typed(t)
  BY <1>2, <1>3, <1>5, <1>6 DEF Typed, PortNames, QueuedAs
<1>8. Grows(s, t) /\ Lost(t) = Lost(u) /\ Loose(t) = Loose(u)
  BY <1>3, <1>6 DEF Grows, Lost, Loose
<1> QED
  BY <1>1, <1>2, <1>3, <1>6, <1>7, <1>8

LEMMA NotifyPreserves ==
    ASSUME NEW s, Typed(s), NEW m \in Mac, NEW u, NEW a, Part(s, u, m, s.ent[m], a), NEW e \in Notifications, e.mac = m,
           NEW t, t = Notify(u, e), MacOk(s, m) => MacOk(t, m)
    PROVE  Preserves(s, t)
<1>0. s \in State
  BY DEF Typed
<1>1. /\ Typed(t) /\ Grows(s, t) /\ t.ent = u.ent /\ t.asic = u.asic /\ t.bp = s.bp /\ t.saved = s.saved
      /\ t.events = Queued(s.events, e) /\ s.events \in Seq(Notifications) /\ Distinct(s.events)
  BY NotifyFacts
<1>2. u.ent[m] = s.ent[m] /\ \A x \in Mac \ {m} : u.ent[x] = s.ent[x] /\ u.asic[x] = s.asic[x]
  BY <1>0, PartFacts
<1>3. ASSUME NEW x \in Mac, x # m, MacOk(s, x) PROVE MacOk(t, x)
  <2> PICK c, b, B : c = s.ent[x] /\ b = s.asic[x] /\ B = Range(s.bp)
    OBVIOUS
  <2>1. t.ent[x] = c /\ t.asic[x] = b /\ Lost(s) \subseteq Lost(t) /\ Loose(s) \subseteq Loose(t)
    BY <1>1, <1>2, <1>3, GrowsFacts
  <2>2. SameFor(s.events, t.events, x) /\ t.events \in Seq(Notifications)
    BY <1>1, <1>3, PortsAssumption, QueuedSame, QueuedType
  <2>3. /\ InStep(c, b, s.events, B, x) => InStep(c, b, t.events, B, x)
        /\ Fixed(c, b, s.events, x) => Fixed(c, b, t.events, x)
    BY <1>1, <2>2, SameMac
  <2> QED
    BY <1>1, <1>3, <2>1, <2>3 DEF MacOk
<1>4. ASSUME NEW x \in Mac, MacOk(s, x) PROVE Handled(s, t, x)
  <2>1. MacOk(t, x) /\ t.ent[x] = s.ent[x]
    BY <1>1, <1>2, <1>3, <1>4
  <2> QED
    BY <1>1, <2>1 DEF Handled
<1>5. SavedGrows(s, t)
  BY <1>1 DEF SavedGrows
<1> QED
  BY <1>1, <1>4, <1>5 DEF Preserves

LEMMA EventType ==
    ASSUME NEW m \in Mac
    PROVE  /\ \A b \in PhyBps : Event("LEARNED", m, b) \in Notifications /\ Event("MOVE", m, b) \in Notifications
           /\ \A b \in BridgePorts : Event("AGED", m, b) \in Notifications
           /\ \A ty, b : Event(ty, m, b).mac = m /\ Event(ty, m, b).type = ty /\ Event(ty, m, b).bp = b
BY DEF Event, Notifications, PhyBps

LEMMA LearnsPreserves ==
    ASSUME NEW s, Typed(s), NEW m \in Mac, NEW b \in PhyBps, b \in Range(s.bp), s.asic[m] = NoEntry
    PROVE  Preserves(s, Notify(Create(s, m, b, "dynamic", FALSE), Event("LEARNED", m, b)))
<1> PICK sai, no : sai = "dynamic" /\ no = FALSE
  OBVIOUS
<1> PICK u : u = Create(s, m, b, sai, no)
  OBVIOUS
<1> PICK e : e = Event("LEARNED", m, b)
  OBVIOUS
<1> PICK t : t = Notify(u, e)
  OBVIOUS
<1>0. s \in State /\ b \in BridgePorts
  BY LearntType DEF Typed
<1>1. e \in Notifications /\ e.mac = m /\ e.type = "LEARNED" /\ e.bp = b
  BY EventType
<1>2. sai \in SaiTypes /\ no \in BOOLEAN
  BY DEF SaiTypes
<1>3. PICK f : /\ Part(s, u, m, s.ent[m], f)
               /\ s.asic[m] = NoEntry /\ b \in Range(s.bp)
                  => f # NoEntry /\ f.bp = b /\ f.sai = sai /\ f.allow = no
  BY <1>0, <1>2, CreatePart
<1>4. f # NoEntry /\ f.bp = e.bp /\ f.sai = "dynamic" /\ ~f.allow
  BY <1>1, <1>3
<1> PICK c, B : c = s.ent[m] /\ B = Range(s.bp)
  OBVIOUS
<1>5. /\ t.ent = u.ent /\ t.asic = u.asic /\ t.bp = s.bp /\ t.saved = s.saved /\ Grows(s, t)
      /\ QueuedAs(s.events, e, t.events)
  BY <1>1, <1>3, NotifyFacts
<1>6. t.ent[m] = c /\ t.asic[m] = f
  BY <1>0, <1>3, <1>5, PartFacts
<1>7. e.bp \in B
  BY <1>1
<1>8. InStep(c, NoEntry, s.events, B, m) =>
         InStep(c, f, t.events, B, m) /\ (Fixed(c, NoEntry, s.events, m) => Fixed(c, f, t.events, m))
  BY <1>1, <1>4, <1>5, <1>7, LearntInStep
<1>9. Lost(s) \subseteq Lost(t) /\ Loose(s) \subseteq Loose(t) /\ Lost(s) \subseteq Loose(s)
  BY <1>5, GrowsFacts DEF Loose
<1>10. MacOk(s, m) => MacOk(t, m)
  BY <1>5, <1>6, <1>8, <1>9 DEF MacOk
<1>11. Preserves(s, t)
  BY <1>1, <1>3, <1>10, NotifyPreserves
<1> QED
  BY <1>11

LEMMA MovesPreserves ==
    ASSUME NEW s, Typed(s), NEW m \in Mac, NEW b \in PhyBps, b \in Range(s.bp), s.asic[m] # NoEntry, s.asic[m].bp # b,
           s.asic[m].sai = "dynamic" \/ s.asic[m].allow
    PROVE  Preserves(s, Notify(SetAttributes(s, m, b, "dynamic", FALSE), Event("MOVE", m, b)))
<1> PICK sai, no : sai = "dynamic" /\ no = FALSE
  OBVIOUS
<1> PICK u : u = SetAttributes(s, m, b, sai, no)
  OBVIOUS
<1> PICK e : e = Event("MOVE", m, b)
  OBVIOUS
<1> PICK t : t = Notify(u, e)
  OBVIOUS
<1>0. s \in State /\ b \in BridgePorts
  BY LearntType DEF Typed
<1>1. e \in Notifications /\ e.mac = m /\ e.type = "MOVE" /\ e.bp = b
  BY EventType
<1>2. sai \in SaiTypes /\ no \in BOOLEAN
  BY DEF SaiTypes
<1>3. PICK f : /\ Part(s, u, m, s.ent[m], f)
               /\ s.asic[m] # NoEntry => f # NoEntry /\ f.bp = b /\ f.sai = sai /\ f.allow = no
  BY <1>0, <1>2, SetAttributesPart
<1>4. f # NoEntry /\ f.bp = e.bp /\ f.sai = "dynamic" /\ ~f.allow
  BY <1>1, <1>3
<1> PICK c, a, B : c = s.ent[m] /\ B = Range(s.bp) /\ a = s.asic[m]
  OBVIOUS
<1>5. /\ t.ent = u.ent /\ t.asic = u.asic /\ t.bp = s.bp /\ t.saved = s.saved /\ Grows(s, t)
      /\ QueuedAs(s.events, e, t.events)
  BY <1>1, <1>3, NotifyFacts
<1>6. t.ent[m] = c /\ t.asic[m] = f
  BY <1>0, <1>3, <1>5, PartFacts
<1>7. e.bp \in B /\ a.bp # e.bp /\ a # NoEntry /\ (a.sai = "dynamic" \/ a.allow)
  BY <1>1
<1>8. InStep(c, a, s.events, B, m) =>
         InStep(c, f, t.events, B, m) /\ (Fixed(c, a, s.events, m) => Fixed(c, f, t.events, m))
  BY <1>1, <1>4, <1>5, <1>7, MovedInStep
<1>9. Lost(s) \subseteq Lost(t) /\ Loose(s) \subseteq Loose(t) /\ Lost(s) \subseteq Loose(s)
  BY <1>5, GrowsFacts DEF Loose
<1>10. MacOk(s, m) => MacOk(t, m)
  BY <1>5, <1>6, <1>8, <1>9 DEF MacOk
<1>11. Preserves(s, t)
  BY <1>1, <1>3, <1>10, NotifyPreserves
<1> QED
  BY <1>11

LEMMA AgesPreserves ==
    ASSUME NEW s, Typed(s), NEW m \in Mac, s.asic[m] # NoEntry, NEW e, e = Event("AGED", m, s.asic[m].bp)
    PROVE  Preserves(s, Notify(RemoveEntry(Reorders(s, m, e), m), e))
<1> PICK c, a, B : c = s.ent[m] /\ B = Range(s.bp) /\ a = s.asic[m]
  OBVIOUS
<1> PICK w : w = Reorders(s, m, e)
  OBVIOUS
<1> PICK u : u = RemoveEntry(w, m)
  OBVIOUS
<1> PICK t : t = Notify(u, e)
  OBVIOUS
<1>0. s \in State /\ a \in AsicEntry
  BY StateFacts DEF Typed
<1>1. e \in Notifications /\ e.mac = m /\ e.type = "AGED" /\ e.bp = a.bp
  <2>1. a.bp \in BridgePorts
    BY <1>0 DEF AsicEntry
  <2> QED
    BY <2>1, EventType
<1>2. Part(s, w, m, c, a) /\ (m \in Lost(w) \/ (c # NoEntry /\ c.type = "static" => e \notin Ev(s.events)))
  <2> PICK x, M : x = "reordered" /\ M = {m}
    OBVIOUS
  <2>1. x \in Excuses /\ M \in SUBSET (Mac \cup (Mac \X Nat))
    BY DEF Excuses, Numbered
  <2>2. Range(s.events) = Ev(s.events)
    BY DEF Range, Ev
  <2>3. CASE c # NoEntry /\ c.type = "static" /\ e \in Ev(s.events)
    <3>1. w = Excuse(s, x, M)
      BY <2>2, <2>3 DEF Reorders
    <3>2. Part(s, w, m, c, a) /\ w.excused[x] = s.excused[x] \cup M
      BY <1>0, <2>1, <3>1, ExcusePart
    <3>3. m \in Lost(w)
      BY <3>2 DEF Lost
    <3> QED
      BY <3>2, <3>3
  <2>4. CASE ~(c # NoEntry /\ c.type = "static" /\ e \in Ev(s.events))
    <3>1. w = s
      BY <2>2, <2>4 DEF Reorders
    <3> QED
      BY <1>0, <2>4, <3>1, PartSelf
  <2> QED
    BY <2>3, <2>4
<1>3. w \in State /\ w.ent[m] = c
  BY <1>0, <1>2, PartFacts
<1>4. Part(w, u, m, c, NoEntry)
  BY <1>3, RemoveEntryPart
<1>5. Part(s, u, m, c, NoEntry)
  BY <1>0, <1>2, <1>4, PartTransitive
<1>6. /\ t.ent = u.ent /\ t.asic = u.asic /\ t.bp = s.bp /\ t.saved = s.saved /\ Grows(s, t)
      /\ QueuedAs(s.events, e, t.events) /\ Lost(t) = Lost(u) /\ s.events \in Seq(Notifications) /\ Distinct(s.events)
  BY <1>1, <1>5, NotifyFacts
<1>7. t.ent[m] = c /\ t.asic[m] = NoEntry
  BY SMTT(30), <1>0, <1>5, <1>6, PartFacts
<1>8. Lost(s) \subseteq Lost(t) /\ Loose(s) \subseteq Loose(t) /\ Lost(s) \subseteq Loose(s) /\ Lost(t) \subseteq Loose(t)
  BY <1>6, GrowsFacts DEF Loose
<1>9. Lost(w) \subseteq Lost(t)
  BY SMTT(30), <1>4, <1>6, GrowsFacts DEF Part
<1>10. ASSUME MacOk(s, m), m \notin Lost(t) PROVE MacOk(t, m)
  <2>1. InStep(c, a, s.events, B, m) /\ NotLearnt(s.saved, m) /\ NotAgain(c, e, s.events)
    BY <1>2, <1>8, <1>9, <1>10 DEF MacOk, NotAgain
  <2>2. a # NoEntry
    OBVIOUS
  <2>3. InStep(c, NoEntry, t.events, B, m) /\ (Fixed(c, a, s.events, m) => Fixed(c, NoEntry, t.events, m))
    BY ZenonT(60), <1>1, <1>6, <2>1, <2>2, AgedInStep
  <2> QED
    BY <1>6, <1>7, <1>8, <1>10, <2>1, <2>3 DEF MacOk
<1>11. MacOk(s, m) => MacOk(t, m)
  BY <1>8, <1>10 DEF MacOk
<1>12. Part(s, u, m, s.ent[m], NoEntry)
  BY <1>5
<1>13. Preserves(s, t)
  BY <1>1, <1>11, <1>12, NotifyPreserves
<1> QED
  BY <1>13

-----------------------------------------------------------------------------
(* Requests                                                                *)

\* No notification that a request for m could cross is on the way.
Undisturbed(s, m) ==
    m \in Lost(s) \/ (Of(s.events, m) = {} /\ \A f \in Ev(s.events) : f.mac # AnyMac)

\* Cached entry n and entry b of the ASIC are the same.
Paired(n, b) ==
    \/ n = NoEntry /\ b = NoEntry
    \/ n # NoEntry /\ b # NoEntry /\ b.bp = n.bp /\ b.sai = n.sai /\ ~(n.sai = "dynamic" /\ n.flush)

\* What a request for m may do with the static entry that FDB_TABLE asks for.
StaysPut(s, t, m) ==
    \A D : Static(D) /\ Cached(s.ent[m], D, s.bp) => m \in Waived(t) \/ Cached(t.ent[m], D, t.bp)

LEMMA UndisturbedFacts ==
    ASSUME NEW s, Typed(s), NEW m \in Mac, MacOk(s, m), Undisturbed(s, m), m \notin Lost(s)
    PROVE  /\ Of(s.events, m) = {} /\ Paired(s.ent[m], s.asic[m]) /\ KindOk(s.ent[m])
           /\ s.ent[m] # NoEntry => s.ent[m].bp \in Range(s.bp)
           /\ NotLearnt(s.saved, m)
           /\ m \in Loose(s) \/ (s.ent[m] # NoEntry /\ Local(s.ent[m].origin) => ~s.asic[m].allow)
<1> PICK c, a, q : c = s.ent[m] /\ a = s.asic[m] /\ q = s.events
  OBVIOUS
<1>1. InStep(c, a, q, Range(s.bp), m) /\ NotLearnt(s.saved, m) /\ (m \in Loose(s) \/ Fixed(c, a, q, m))
  BY DEF MacOk
<1>2. Of(q, m) = {} /\ \A f \in Ev(q) : f.mac # AnyMac
  BY DEF Undisturbed
<1>3. ~Going(c, q)
  <2>1. q \in Seq(Notifications)
    BY DEF Typed, State
  <2>2. \A f \in Ev(q) : f \in Notifications
    BY <2>1, ElementOfSeq, LenProperties DEF Ev
  <2>3. \A f \in Notifications : f.type = "FLUSHED" => f.mac = AnyMac
    BY DEF Notifications
  <2> QED
    BY <1>2, <2>2, <2>3 DEF Going
<1>4. Idle(c, a, q)
  BY <1>1, <1>2 DEF InStep
<1>5. Paired(c, a)
  BY <1>3, <1>4 DEF Idle, Paired
<1>6. KindOk(c) /\ (c # NoEntry => c.bp \in Range(s.bp))
  BY <1>1, <1>3 DEF InStep
<1>7. m \in Loose(s) \/ (c # NoEntry /\ Local(c.origin) => ~a.allow)
  BY <1>1, <1>2, <1>5 DEF Fixed, Paired
<1> QED
  BY <1>1, <1>2, <1>5, <1>6, <1>7

\* A part of a request that leaves cache and ASIC with the same entry.
LEMMA PartPaired ==
    ASSUME NEW s, Typed(s), NEW m \in Mac, MacOk(s, m), m \in Lost(s) \/ Of(s.events, m) = {},
           NEW t, NEW n, NEW b, Part(s, t, m, n, b),
           \/ m \in Lost(t)
           \/ /\ KindOk(n) /\ (n # NoEntry => n.bp \in Range(s.bp)) /\ Paired(n, b)
              /\ m \in Loose(t) \/ (n # NoEntry /\ Local(n.origin) => ~b.allow)
    PROVE  Sound(s, t, {m}) /\ MacOk(t, m) /\ SavedGrows(s, t)
<1>0. s \in State
  BY DEF Typed
<1>1. t.ent[m] = n /\ t.asic[m] = b /\ Lost(s) \subseteq Lost(t) /\ Loose(s) \subseteq Loose(t)
  BY <1>0, PartFacts
<1>2. t.events = s.events /\ t.bp = s.bp /\ t.saved = s.saved
  BY DEF Part
<1>3. Sound(s, t, {m}) /\ SavedGrows(s, t)
  BY <1>2, PartSound DEF SavedGrows
<1>4. CASE m \in Lost(t)
  BY <1>3, <1>4 DEF MacOk, Loose
<1>5. CASE m \notin Lost(t)
  <2>1. Of(s.events, m) = {} /\ NotLearnt(s.saved, m)
    BY <1>1, <1>5 DEF MacOk
  <2>2. Idle(n, b, s.events)
    BY <1>5 DEF Idle, Paired
  <2>3. InStep(n, b, s.events, Range(s.bp), m)
    BY <1>5, <2>1, <2>2 DEF InStep
  <2>4. m \in Loose(t) \/ Fixed(n, b, s.events, m)
    BY <1>5, <2>1 DEF Fixed
  <2> QED
    BY <1>1, <1>2, <1>3, <2>1, <2>3, <2>4 DEF MacOk
<1> QED
  BY <1>4, <1>5

\* A request for m with data d, and what it has to leave; ok: it is done.
Request(s, m, d) ==
    /\ d.port \in Port /\ d \in SavedData(d.port)
    /\ d.origin # "learn" \/ m \in Lost(s)
Answered(s, t, m, d, ok) ==
    /\ Sound(s, t, {m}) /\ SavedGrows(s, t) /\ MacOk(t, m)
    /\ d.origin # "provisioned" => StaysPut(s, t, m)
    /\ ok /\ Static(d) => m \in Waived(t) \/ Cached(t.ent[m], d, t.bp) \/ SavedFor(t.saved, m, d)

LEMMA StoredEntryFacts ==
    ASSUME NEW d, NEW p \in Port, d \in SavedData(p), NEW b \in BridgePorts, NEW n, n = StoredEntry(d, b)
    PROVE  /\ n # NoEntry /\ n.bp = b /\ n.sai = SaiType(d) /\ ~n.flush
           /\ d.origin # "learn" => KindOk(n)
           /\ Local(n.origin) => ~AllowMacMove(d) /\ d.origin # "vxlan"
           /\ Static(d) => Data(n) = Data(d)
           /\ n.origin = "learn" => Own(d) \/ d.origin = "learn"
<1>1. n \in Entry /\ n # NoEntry
  BY StoredEntryType, NoEntryFacts
<1>2. /\ n.bp = b /\ n.sai = SaiType(d) /\ ~n.flush /\ n.dest = d.dest
      /\ n.origin = (IF Own(d) THEN "learn" ELSE d.origin) /\ n.type = (IF Own(d) THEN "dynamic" ELSE d.type)
  BY DEF StoredEntry
<1>3. ASSUME d.origin # "learn" PROVE KindOk(n)
  BY <1>2, <1>3 DEF KindOk, Own, SaiType
<1>4. Local(n.origin) => ~AllowMacMove(d) /\ d.origin # "vxlan"
  BY <1>2 DEF Own, Local, AllowMacMove
<1>5. Static(d) => Data(n) = Data(d)
  BY <1>2 DEF Static, Own, Data
<1> QED
  BY <1>1, <1>2, <1>3, <1>4, <1>5

LEMMA NotPinnedStays ==
    ASSUME NEW s, NEW t, NEW m, ~Pinned(s.ent[m])
    PROVE  StaysPut(s, t, m)
BY DEF StaysPut, Static, Cached, Pinned, Data

\* The entry of d is stored, with the same one in the ASIC.
LEMMA StoredAnswered ==
    ASSUME NEW s, Typed(s), NEW m \in Mac, MacOk(s, m), m \in Lost(s) \/ Of(s.events, m) = {},
           NEW d, Request(s, m, d), s.bp[d.port] # NoBp,
           d.origin = "provisioned" \/ ~Pinned(s.ent[m]),
           NEW t, NEW a, Part(s, t, m, StoredEntry(d, s.bp[d.port]), a),
           \/ m \in Lost(t)
           \/ /\ a # NoEntry /\ a.bp = s.bp[d.port] /\ a.sai = SaiType(d)
              /\ m \in Loose(t) \/ AllowMacMove(d) \/ d.origin = "vxlan" \/ ~a.allow
    PROVE  Answered(s, t, m, d, TRUE)
<1> PICK b : b = s.bp[d.port]
  OBVIOUS
<1> PICK n : n = StoredEntry(d, b)
  OBVIOUS
<1>0. s \in State /\ b \in BridgePorts /\ b \in Range(s.bp)
  BY DEF Typed, State, Range, Request
<1>1. /\ n # NoEntry /\ n.bp = b /\ n.sai = SaiType(d) /\ ~n.flush
      /\ d.origin # "learn" => KindOk(n)
      /\ Local(n.origin) => ~AllowMacMove(d) /\ d.origin # "vxlan"
      /\ Static(d) => Data(n) = Data(d)
  BY <1>0, StoredEntryFacts DEF Request
<1>2. t.ent[m] = n /\ Lost(s) \subseteq Lost(t) /\ t.bp = s.bp
  <2>1. t.bp = s.bp
    BY DEF Part
  <2> QED
    BY <1>0, <2>1, PartFacts
<1>3. \/ m \in Lost(t)
      \/ /\ KindOk(n) /\ (n # NoEntry => n.bp \in Range(s.bp)) /\ Paired(n, a)
         /\ m \in Loose(t) \/ (n # NoEntry /\ Local(n.origin) => ~a.allow)
  BY <1>0, <1>1, <1>2 DEF Request, Paired
<1>4. Sound(s, t, {m}) /\ MacOk(t, m) /\ SavedGrows(s, t)
  BY <1>3, PartPaired
<1>5. Static(d) => Cached(t.ent[m], d, t.bp)
  BY <1>1, <1>2 DEF Cached
<1>6. d.origin # "provisioned" => StaysPut(s, t, m)
  BY NotPinnedStays
<1> QED
  BY <1>4, <1>5, <1>6 DEF Answered

LEMMA PartGrows ==
    ASSUME NEW s \in State, NEW t, NEW m \in Mac, NEW c, NEW a, Part(s, t, m, c, a)
    PROVE  t \in State /\ Lost(s) \subseteq Lost(t) /\ Loose(s) \subseteq Loose(t)
BY PartFacts

\* The last calls of UpdateMac.
StoredAt(w, o, b, m, d, old) == StoreAdded(CountAt(CountAt(w, o, -1), b, 1), m, d, old)

LEMMA CountedStored ==
    ASSUME NEW s \in State, NEW m \in Mac, NEW w, NEW c, NEW a, Part(s, w, m, c, a), NEW o,
           NEW d, d.port \in Port, d \in SavedData(d.port), NEW b, b = s.bp[d.port], b # NoBp, NEW old,
           NEW n, n = StoredEntry(d, b)
    PROVE  LET t == StoredAt(w, o, b, m, d, old)
           IN  Part(s, t, m, n, a) /\ Lost(w) \subseteq Lost(t) /\ Loose(w) \subseteq Loose(t)
<1> PICK t : t = StoredAt(w, o, b, m, d, old)
  OBVIOUS
<1>0. -1 \in Int /\ 1 \in Int
  OBVIOUS
<1>1. w \in State /\ w.ent[m] = c /\ w.asic[m] = a
  BY PartFacts
<1> PICK w1 : w1 = CountAt(w, o, -1)
  OBVIOUS
<1>2. Part(w, w1, m, c, a)
  BY <1>0, <1>1, CountAtPart
<1>3. w1 \in State /\ w1.ent[m] = c /\ w1.asic[m] = a /\ Lost(w) \subseteq Lost(w1) /\ Loose(w) \subseteq Loose(w1)
  BY <1>1, <1>2, PartFacts
<1> PICK w2 : w2 = CountAt(w1, b, 1)
  OBVIOUS
<1>4. Part(w1, w2, m, c, a)
  BY <1>0, <1>3, CountAtPart
<1>5. w2 \in State /\ w2.asic[m] = a /\ Lost(w1) \subseteq Lost(w2) /\ Loose(w1) \subseteq Loose(w2)
  <2>1. w1 \in State /\ Part(w1, w2, m, c, a)
    BY <1>3, <1>4
  <2> QED
    BY ONLY <2>1, PartFacts, m \in Mac
<1>6. Part(s, w1, m, c, a)
  BY <1>2, PartTransitive
<1>7. Part(s, w2, m, c, a)
  BY <1>4, <1>6, PartTransitive
<1>8. w2.bp = s.bp
  BY <1>7 DEF Part
<1>9. t = StoreAdded(w2, m, d, old)
  BY DEF StoredAt
<1>10. Part(w2, t, m, n, a)
  BY <1>5, <1>8, <1>9, StoreAddedPart
<1>11. Lost(w2) \subseteq Lost(t) /\ Loose(w2) \subseteq Loose(t)
  BY <1>5, <1>10, PartGrows
<1>12. Part(s, t, m, n, a)
  BY <1>7, <1>10, PartTransitive
<1> QED
  BY <1>3, <1>5, <1>11, <1>12

\* The attributes of the entry in the ASIC are set, if it has one.
Attributed(s, v, w, m, c, a, b, sai, allow) ==
    /\ Part(s, w, m, c, a) /\ Lost(v) \subseteq Lost(w) /\ Loose(v) \subseteq Loose(w)
    /\ s.asic[m] # NoEntry => a # NoEntry /\ a.bp = b /\ a.sai = sai /\ a.allow = allow

LEMMA AttributesSet ==
    ASSUME NEW s \in State, NEW m \in Mac, NEW v, NEW c, Part(s, v, m, c, s.asic[m]), NEW b \in BridgePorts,
           NEW sai \in SaiTypes, NEW allow \in BOOLEAN, NEW w, w = SetAttributes(v, m, b, sai, allow)
    PROVE  \E a : Attributed(s, v, w, m, c, a, b, sai, allow)
<1>1. v \in State /\ v.ent[m] = c /\ v.asic[m] = s.asic[m]
  BY PartFacts
<1>2. \E a : /\ Part(v, SetAttributes(v, m, b, sai, allow), m, v.ent[m], a)
             /\ v.asic[m] = NoEntry => a = NoEntry
             /\ v.asic[m] # NoEntry => a # NoEntry /\ a.bp = b /\ a.sai = sai /\ a.allow = allow
  BY <1>1, SetAttributesPart
<1>3. PICK a : /\ Part(v, w, m, c, a)
               /\ s.asic[m] # NoEntry => a # NoEntry /\ a.bp = b /\ a.sai = sai /\ a.allow = allow
  BY <1>1, <1>2
<1>4. Lost(v) \subseteq Lost(w) /\ Loose(v) \subseteq Loose(w)
  BY <1>1, <1>3, PartGrows
<1>5. Part(s, w, m, c, a)
  BY <1>3, PartTransitive
<1> QED
  BY <1>3, <1>4, <1>5 DEF Attributed

LEMMA UpdateMacAnswered ==
    ASSUME NEW s, Typed(s), NEW m \in Mac, MacOk(s, m), Undisturbed(s, m), s.ent[m] # NoEntry,
           NEW d, Request(s, m, d), s.bp[d.port] # NoBp,
           d.origin = "provisioned" \/ ~Pinned(s.ent[m])
    PROVE  Answered(s, UpdateMac(s, m, d, s.bp[d.port], s.ent[m]), m, d, TRUE)
<1> PICK old : old = s.ent[m]
  OBVIOUS
<1> PICK b : b = s.bp[d.port]
  OBVIOUS
<1>0. s \in State /\ d.port \in Port /\ b \in BridgePorts /\ d \in SavedData(d.port)
  BY DEF Typed, State, Request
<1> PICK M : M = {m}
  OBVIOUS
<1> PICK moves : moves = (old.origin = "mclag" /\ ~AllowMacMove(d))
  OBVIOUS
<1> PICK u : u = IF moves THEN Excuse(s, "movable", M) ELSE s
  OBVIOUS
<1>1. Part(s, u, m, old, s.asic[m]) /\ (old.origin = "mclag" /\ ~AllowMacMove(d) => m \in Loose(u)) /\ u \in State
  <2>1. M \in SUBSET (Mac \cup (Mac \X Nat)) /\ "movable" \in Excuses
    BY DEF Excuses
  <2>2. LET v == Excuse(s, "movable", M)
        IN  Part(s, v, m, old, s.asic[m]) /\ m \in Loose(v)
    BY <1>0, <2>1, ExcusePart DEF Loose
  <2>3. Part(s, s, m, old, s.asic[m])
    BY <1>0, PartSelf
  <2> QED
    BY <2>2, <2>3 DEF Part
<1> PICK allow : allow = IF old.origin = "vxlan" /\ (d.origin # "vxlan" \/ (old.type = "dynamic" /\ d.type # "dynamic"))
                         THEN FALSE ELSE AllowMacMove(d) \/ (s.asic[m] # NoEntry /\ s.asic[m].allow)
  OBVIOUS
<1>2. allow \in BOOLEAN /\ SaiType(d) \in SaiTypes
  <2>1. s.asic[m] \in AsicEntry \cup {NoEntry}
    BY <1>0 DEF State
  <2>2. AllowMacMove(d) \in BOOLEAN
    BY DEF AllowMacMove
  <2> QED
    BY <2>1, <2>2 DEF AsicEntry, SaiType, SaiTypes
<1> PICK sai : sai = SaiType(d)
  OBVIOUS
<1> PICK w : w = SetAttributes(u, m, b, sai, allow)
  OBVIOUS
<1>3. PICK a : Attributed(s, u, w, m, old, a, b, sai, allow)
  BY <1>0, <1>1, <1>2, AttributesSet
<1>31. /\ Part(s, w, m, old, a) /\ Lost(u) \subseteq Lost(w) /\ Loose(u) \subseteq Loose(w)
       /\ s.asic[m] # NoEntry => a # NoEntry /\ a.bp = b /\ a.sai = sai /\ a.allow = allow
  BY <1>3 DEF Attributed
<1>4. Lost(s) \subseteq Lost(u) /\ Loose(s) \subseteq Loose(u)
  BY <1>0, <1>1, PartGrows
<1> PICK o : o = old.bp
  OBVIOUS
<1> PICK t : t = StoredAt(w, o, b, m, d, old)
  OBVIOUS
<1> PICK n : n = StoredEntry(d, b)
  OBVIOUS
<1>10. Part(s, w, m, old, a)
  BY <1>31
<1>11. Part(s, t, m, n, a) /\ Lost(w) \subseteq Lost(t) /\ Loose(w) \subseteq Loose(t)
  <2>1. n = StoredEntry(d, b) /\ b = s.bp[d.port] /\ b # NoBp /\ t = StoredAt(w, o, b, m, d, old)
    OBVIOUS
  <2>2. ASSUME NEW v, Part(s, v, m, old, a), NEW r, r = StoredAt(v, o, b, m, d, old)
        PROVE  Part(s, r, m, n, a) /\ Lost(v) \subseteq Lost(r) /\ Loose(v) \subseteq Loose(r)
    BY ONLY <1>0, <2>1, <2>2, CountedStored
  <2> QED
    BY ONLY <1>10, <2>1, <2>2
<1>12. \/ m \in Lost(t)
       \/ /\ a # NoEntry /\ a.bp = b /\ a.sai = SaiType(d)
          /\ m \in Loose(t) \/ AllowMacMove(d) \/ d.origin = "vxlan" \/ ~a.allow
  <2>1. CASE m \in Lost(s)
    BY <1>31, <1>4, <1>11, <2>1
  <2>2. CASE m \notin Lost(s)
    <3>1. Paired(old, s.asic[m]) /\ (m \in Loose(s) \/ (Local(old.origin) => ~s.asic[m].allow))
      BY <2>2, UndisturbedFacts
    <3>2. a # NoEntry /\ a.bp = b /\ a.sai = SaiType(d) /\ a.allow = allow
      BY <1>31, <3>1 DEF Paired
    <3>3. m \in Loose(t) \/ AllowMacMove(d) \/ d.origin = "vxlan" \/ ~allow
      <4>1. old.origin \in Origins
        <5>1. old \in Entry
          BY <1>0 DEF State
        <5> QED
          BY <5>1 DEF Entry
      <4>2. CASE old.origin = "vxlan"
        BY <4>2
      <4>3. CASE old.origin = "mclag"
        BY <1>1, <1>31, <1>11, <4>3
      <4>4. CASE Local(old.origin)
        BY ZenonT(60), <1>31, <1>4, <1>11, <3>1, <4>4
      <4> QED
        BY <4>1, <4>2, <4>3, <4>4 DEF Local, Origins
    <3> QED
      BY <3>2, <3>3
  <2> QED
    BY <2>1, <2>2
<1>13. Answered(s, t, m, d, TRUE)
  BY ZenonT(60), <1>11, <1>12, StoredAnswered DEF Undisturbed
<1>14. UpdateMac(s, m, d, b, old) = t
  BY DEF UpdateMac, StoredAt
<1> QED
  BY <1>13, <1>14

\* Deleting the tunnel sends no notification about a MAC, and creates no entry.
LEMMA notifyTunnelOrchQuiet ==
    ASSUME NEW s, Typed(s), NEW p, NEW x \in Mac, s.asic[x] = NoEntry, Of(s.events, x) = {}
    PROVE  LET t == notifyTunnelOrch(s, p)
           IN  Of(t.events, x) = {} /\ t.asic[x] = NoEntry
<1>0. Tunnel \in Port /\ s \in State
  BY DEF Typed, Port
<1> PICK b : b = s.bp[Tunnel]
  OBVIOUS
<1> PICK u : u = flushFDBEntries(s, b)
  OBVIOUS
<1> PICK t : t = notifyTunnelOrch(s, p)
  OBVIOUS
<1>1. b \in BridgePorts \cup {NoBp}
  BY <1>0 DEF State
<1>2. Sound(s, u, {}) /\ Of(u.events, x) = {} /\ u.asic[x] = NoEntry
  BY <1>1, flushFDBEntriesSound
<1> PICK v : v = [u EXCEPT !.bp[Tunnel] = NoBp]
  OBVIOUS
<1>3. v.events = u.events /\ v.asic = u.asic
  BY <1>2 DEF Sound, Typed, State
<1>4. t \in {s, u, v}
  BY DEF notifyTunnelOrch, removeBridgePort
<1> QED
  BY <1>2, <1>3, <1>4

\* The entry of m left cache and ASIC, and then the tunnel may go.
LEMMA GoneNotified ==
    ASSUME NEW s, Typed(s), NEW m \in Mac, MacOk(s, m), Undisturbed(s, m),
           NEW w, Part(s, w, m, NoEntry, NoEntry), NEW p
    PROVE  LET u == notifyTunnelOrch(w, p)
           IN  /\ Sound(s, u, {m}) /\ MacOk(u, m) /\ u.saved = s.saved
               /\ m \in Lost(u) \/ (Of(u.events, m) = {} /\ u.asic[m] = NoEntry)
<1> PICK u : u = notifyTunnelOrch(w, p)
  OBVIOUS
<1>0. s \in State /\ (m \in Lost(s) \/ Of(s.events, m) = {})
  BY DEF Typed, Undisturbed
<1>1. KindOk(NoEntry) /\ Paired(NoEntry, NoEntry)
  BY DEF KindOk, Paired
<1>2. Sound(s, w, {m}) /\ MacOk(w, m)
  BY <1>0, <1>1, PartPaired
<1>3. w.asic[m] = NoEntry /\ Lost(s) \subseteq Lost(w) /\ w.events = s.events /\ w.saved = s.saved
  <2>1. w.events = s.events /\ w.saved = s.saved
    BY DEF Part
  <2> QED
    BY <1>0, <2>1, PartFacts
<1>4. Typed(w)
  BY <1>2 DEF Sound
<1>5. Sound(w, u, {}) /\ u.saved = w.saved
  BY <1>4, notifyTunnelOrchSound
<1>6. Sound(s, u, {m}) /\ MacOk(u, m)
  <2>1. Sound(w, u, {m})
    BY <1>5, SoundLess
  <2>2. Sound(s, u, {m})
    BY <1>2, <2>1, SoundTransitive
  <2>3. MacOk(u, m)
    BY <1>2, <1>5 DEF Sound, Safe
  <2> QED
    BY <2>2, <2>3
<1>7. m \in Lost(w) => m \in Lost(u)
  BY <1>5, GrowsFacts DEF Sound
<1>8. Of(w.events, m) = {} => Of(u.events, m) = {} /\ u.asic[m] = NoEntry
  BY <1>3, <1>4, notifyTunnelOrchQuiet
<1> QED
  BY <1>0, <1>3, <1>5, <1>6, <1>7, <1>8

LEMMA RemoveForMoveGone ==
    ASSUME NEW s, Typed(s), NEW m \in Mac, MacOk(s, m), Undisturbed(s, m), s.ent[m] # NoEntry
    PROVE  LET u == RemoveForMove(s, m, s.ent[m])
           IN  /\ Sound(s, u, {m}) /\ MacOk(u, m) /\ u.saved = s.saved
               /\ m \in Lost(u) \/ (Of(u.events, m) = {} /\ u.asic[m] = NoEntry)
<1> PICK c : c = s.ent[m]
  OBVIOUS
<1>0. s \in State /\ -1 \in Int
  BY DEF Typed
<1> PICK w : w = RemoveEntry(s, m)
  OBVIOUS
<1>1. Part(s, w, m, c, NoEntry) /\ w \in State /\ w.ent[m] = c /\ w.asic[m] = NoEntry
  BY <1>0, RemoveEntryPart, PartFacts
<1> PICK w1 : w1 = CountVlan(w, -1)
  OBVIOUS
<1>2. Part(w, w1, m, c, NoEntry)
  BY <1>0, <1>1, CountVlanPart
<1>3. w1 \in State /\ w1.ent[m] = c /\ w1.asic[m] = NoEntry
  BY ONLY <1>1, <1>2, PartFacts, m \in Mac
<1> PICK w2 : w2 = CountAt(w1, c.bp, -1)
  OBVIOUS
<1>4. Part(w1, w2, m, c, NoEntry)
  BY <1>0, <1>3, CountAtPart
<1>5. w2 \in State /\ w2.ent[m] = c /\ w2.asic[m] = NoEntry
  BY ONLY <1>3, <1>4, PartFacts, m \in Mac
<1> PICK w3 : w3 = Dropped(w2, m)
  OBVIOUS
<1>6. Part(w2, w3, m, NoEntry, NoEntry)
  BY <1>5, DroppedPart
<1>7. Part(s, w1, m, c, NoEntry)
  BY ONLY <1>0, <1>1, <1>2, PartTransitive, m \in Mac
<1>8. Part(s, w2, m, c, NoEntry)
  BY ONLY <1>0, <1>4, <1>7, PartTransitive, m \in Mac
<1>9. Part(s, w3, m, NoEntry, NoEntry)
  BY ONLY <1>0, <1>6, <1>8, PartTransitive, m \in Mac
<1>10. RemoveForMove(s, m, c) = notifyTunnelOrch(w3, c.bp[1])
  BY DEF RemoveForMove, Dropped
<1> QED
  BY <1>9, <1>10, GoneNotified

LEMMA RemoveMacGone ==
    ASSUME NEW s, Typed(s), NEW m \in Mac, MacOk(s, m), Undisturbed(s, m), s.ent[m] # NoEntry
    PROVE  LET u == RemoveMac(s, m, s.ent[m])
           IN  Sound(s, u, {m}) /\ MacOk(u, m) /\ u.saved = s.saved
<1> PICK c : c = s.ent[m]
  OBVIOUS
<1>0. s \in State /\ -1 \in Int
  BY DEF Typed
<1> PICK w : w = RemoveEntry(s, m)
  OBVIOUS
<1>1. Part(s, w, m, c, NoEntry) /\ w \in State /\ w.ent[m] = c /\ w.asic[m] = NoEntry
  BY <1>0, RemoveEntryPart, PartFacts
<1> PICK w1 : w1 = CountVlan(w, -1)
  OBVIOUS
<1>2. Part(w, w1, m, c, NoEntry)
  BY <1>0, <1>1, CountVlanPart
<1>3. w1 \in State /\ w1.ent[m] = c /\ w1.asic[m] = NoEntry
  BY ONLY <1>1, <1>2, PartFacts, m \in Mac
<1> PICK w2 : w2 = CountAt(w1, c.bp, -1)
  OBVIOUS
<1>4. Part(w1, w2, m, c, NoEntry)
  BY <1>0, <1>3, CountAtPart
<1>5. w2 \in State /\ w2.ent[m] = c /\ w2.asic[m] = NoEntry
  BY ONLY <1>3, <1>4, PartFacts, m \in Mac
<1> PICK w3 : w3 = Deleted(w2, m)
  OBVIOUS
<1>6. Part(w2, w3, m, NoEntry, NoEntry)
  BY <1>5, DeletedPart
<1>7. Part(s, w1, m, c, NoEntry)
  BY ONLY <1>0, <1>1, <1>2, PartTransitive, m \in Mac
<1>8. Part(s, w2, m, c, NoEntry)
  BY ONLY <1>0, <1>4, <1>7, PartTransitive, m \in Mac
<1>9. Part(s, w3, m, NoEntry, NoEntry)
  BY ONLY <1>0, <1>6, <1>8, PartTransitive, m \in Mac
<1>10. RemoveMac(s, m, c) = notifyTunnelOrch(w3, c.bp[1])
  BY <1>5 DEF RemoveMac, Deleted
<1> QED
  BY <1>9, <1>10, GoneNotified

\* The calls of CreateMac after the entry was created in the ASIC.
LEMMA CreatedStored ==
    ASSUME NEW s \in State, NEW m \in Mac, NEW w, NEW c, NEW a, Part(s, w, m, c, a),
           NEW d, d.port \in Port, d \in SavedData(d.port), NEW b, b = s.bp[d.port], b # NoBp, NEW old,
           NEW n, n = StoredEntry(d, b), NEW t, t = StoreAdded(CountVlan(CountAt(w, b, 1), 1), m, d, old)
    PROVE  Part(s, t, m, n, a)
<1>0. 1 \in Int
  OBVIOUS
<1>1. w \in State /\ w.ent[m] = c /\ w.asic[m] = a
  BY PartFacts
<1> PICK w1 : w1 = CountAt(w, b, 1)
  OBVIOUS
<1>2. Part(w, w1, m, c, a)
  BY <1>0, <1>1, CountAtPart
<1>3. w1 \in State /\ w1.ent[m] = c /\ w1.asic[m] = a
  BY ONLY <1>1, <1>2, PartFacts, m \in Mac
<1> PICK w2 : w2 = CountVlan(w1, 1)
  OBVIOUS
<1>4. Part(w1, w2, m, c, a)
  BY <1>0, <1>3, CountVlanPart
<1>5. w2 \in State /\ w2.asic[m] = a
  BY ONLY <1>3, <1>4, PartFacts, m \in Mac
<1>6. Part(s, w1, m, c, a)
  BY <1>2, PartTransitive
<1>7. Part(s, w2, m, c, a)
  BY <1>4, <1>6, PartTransitive
<1>8. w2.bp = s.bp
  BY <1>7 DEF Part
<1>9. t = StoreAdded(w2, m, d, old)
  OBVIOUS
<1>10. Part(w2, t, m, n, a)
  BY <1>5, <1>8, <1>9, StoreAddedPart
<1> QED
  BY ONLY <1>7, <1>10, PartTransitive, m \in Mac, s \in State

LEMMA CreateMacAnswered ==
    ASSUME NEW s, Typed(s), NEW m \in Mac, MacOk(s, m),
           m \in Lost(s) \/ (Of(s.events, m) = {} /\ s.asic[m] = NoEntry), s.ent[m] = NoEntry,
           NEW d, Request(s, m, d), s.bp[d.port] # NoBp, NEW old
    PROVE  Answered(s, CreateMac(s, m, d, old), m, d, TRUE)
<1> PICK b : b = s.bp[d.port]
  OBVIOUS
<1> PICK sai : sai = SaiType(d)
  OBVIOUS
<1> PICK allow : allow = AllowMacMove(d)
  OBVIOUS
<1>0. s \in State /\ d.port \in Port /\ b \in BridgePorts /\ d \in SavedData(d.port) /\ b # NoBp /\ b \in Range(s.bp)
  BY DEF Typed, State, Request, Range
<1>1. sai \in SaiTypes /\ allow \in BOOLEAN
  BY DEF SaiType, SaiTypes, AllowMacMove
<1> PICK w : w = Create(s, m, b, sai, allow)
  OBVIOUS
<1>2. \E a : /\ Part(s, Create(s, m, b, sai, allow), m, s.ent[m], a)
             /\ s.asic[m] = NoEntry /\ b \in Range(s.bp)
                => a # NoEntry /\ a.bp = b /\ a.sai = sai /\ a.allow = allow
  BY <1>0, <1>1, CreatePart
<1>3. PICK a : /\ Part(s, w, m, s.ent[m], a)
               /\ s.asic[m] = NoEntry /\ b \in Range(s.bp)
                  => a # NoEntry /\ a.bp = b /\ a.sai = sai /\ a.allow = allow
  BY <1>2
<1> PICK t : t = StoreAdded(CountVlan(CountAt(w, b, 1), 1), m, d, old)
  OBVIOUS
<1> PICK n : n = StoredEntry(d, b)
  OBVIOUS
<1>4. Part(s, t, m, n, a)
  <2>1. Part(s, w, m, s.ent[m], a) /\ b = s.bp[d.port] /\ n = StoredEntry(d, b)
        /\ t = StoreAdded(CountVlan(CountAt(w, b, 1), 1), m, d, old)
    BY <1>3
  <2> QED
    BY ONLY <1>0, <2>1, CreatedStored, m \in Mac
<1>5. m \in Lost(s) => m \in Lost(t)
  BY <1>0, <1>4, PartGrows
<1>6. \/ m \in Lost(t)
      \/ /\ a # NoEntry /\ a.bp = b /\ a.sai = sai
         /\ m \in Loose(t) \/ AllowMacMove(d) \/ d.origin = "vxlan" \/ ~a.allow
  BY <1>0, <1>3, <1>5
<1>7. ~Pinned(s.ent[m])
  BY DEF Pinned
<1>8. Answered(s, t, m, d, TRUE)
  BY <1>4, <1>6, <1>7, StoredAnswered
<1>9. CreateMac(s, m, d, old) = t
  BY DEF CreateMac
<1> QED
  BY <1>8, <1>9

LEMMA AnsweredAfter ==
    ASSUME NEW s, NEW u, NEW t, NEW m \in Mac, NEW d, NEW ok, Sound(s, u, {m}), u.saved = s.saved,
           Answered(u, t, m, d, ok), ~Pinned(s.ent[m])
    PROVE  Answered(s, t, m, d, ok)
<1>1. Sound(s, t, {m})
  BY SoundTransitive DEF Answered
<1>2. SavedGrows(s, t)
  BY DEF Answered, SavedGrows
<1>3. StaysPut(s, t, m)
  BY NotPinnedStays
<1> QED
  BY <1>1, <1>2, <1>3 DEF Answered

\* Nothing changes but the excuses, the counters and the rows.
LEMMA PartAnswered ==
    ASSUME NEW s, Typed(s), NEW m \in Mac, NEW t, Part(s, t, m, s.ent[m], s.asic[m]), NEW d, MacOk(s, m)
    PROVE  /\ Sound(s, t, {}) /\ t.saved = s.saved /\ MacOk(t, m)
           /\ Answered(s, t, m, d, FALSE)
           /\ Cached(s.ent[m], d, s.bp) => Answered(s, t, m, d, TRUE)
<1>0. s \in State
  BY DEF Typed
<1>1. t.ent[m] = s.ent[m] /\ t.asic[m] = s.asic[m] /\ Lost(s) \subseteq Lost(t) /\ Loose(s) \subseteq Loose(t)
  BY <1>0, PartFacts
<1>2. t.events = s.events /\ t.bp = s.bp /\ t.saved = s.saved
  BY DEF Part
<1>3. Sound(s, t, {m})
  BY PartSound
<1>4. MacOk(t, m)
  BY <1>1, <1>2 DEF MacOk
<1>5. SavedGrows(s, t) /\ StaysPut(s, t, m) /\ Safe(s, t, m)
  BY <1>1, <1>2, <1>4 DEF SavedGrows, StaysPut, Safe
<1>6. Sound(s, t, {})
  BY <1>3, <1>5 DEF Sound
<1> QED
  BY <1>1, <1>2, <1>3, <1>4, <1>5, <1>6 DEF Answered

LEMMA AnsweredWeak ==
    ASSUME NEW s, NEW t, NEW m, NEW d, NEW ok, Answered(s, t, m, d, TRUE)
    PROVE  Answered(s, t, m, d, ok)
BY DEF Answered

\* The cases of addFdbEntry when nothing is saved.
Outcome(s, m, d, r, b, old, moves) ==
    \/ r.s = s /\ ~r.ok
    \/ r.s = s /\ old # NoEntry /\ Data(old) = Data(d) /\ old.bp = b
    \/ r.s = s /\ Ignored(d, b, old)
    \/ r.s = SetType(s, m, "dynamic_control_learn") /\ old.origin = "learn" /\ d.origin = "vxlan"
    \/ old # NoEntry /\ r.s = UpdateMac(s, m, d, b, old) /\ ~Ignored(d, b, old)
    \/ moves /\ r.s = Count(RemoveForMove(s, m, old), "torn", m) /\ ~r.ok
    \/ moves /\ r.s = CreateMac(RemoveForMove(s, m, old), m, d, old)
    \/ old = NoEntry /\ r.s = CreateMac(s, m, d, old)

LEMMA addFdbEntryOutcome ==
    ASSUME NEW s, NEW m, NEW d, NEW fits \in BOOLEAN, NEW b, b = s.bp[d.port], NEW old, old = s.ent[m],
           NEW moves \in BOOLEAN, moves = MovesToVtep(d, b, old),
           NEW r, r = addFdbEntry(s, m, d, fits), ~(b = NoBp \/ (d.dest = Vtep /\ Tunnel \notin s.members))
    PROVE  Outcome(s, m, d, r, b, old, moves)
<1>1. ~parseHandleSaiStatusFailure(handleSaiCreateStatus("full"))
  BY DEF parseHandleSaiStatusFailure, handleSaiCreateStatus
<1>2. CASE old # NoEntry /\ old.bp \notin Range(s.bp)
  BY <1>2 DEF addFdbEntry, Outcome
<1>3. CASE ~(old # NoEntry /\ old.bp \notin Range(s.bp)) /\ old # NoEntry /\ ((Data(old) = Data(d) /\ old.bp = b) \/ Ignored(d, b, old))
  BY <1>3 DEF addFdbEntry, Outcome
<1>4. ASSUME ~(old # NoEntry /\ old.bp \notin Range(s.bp)),
             ~(old # NoEntry /\ ((Data(old) = Data(d) /\ old.bp = b) \/ Ignored(d, b, old)))
      PROVE  Outcome(s, m, d, r, b, old, moves)
  <2>1. CASE old.origin = "learn" /\ d.origin = "vxlan" /\ old.dest = d.dest
    BY <1>4, <2>1 DEF addFdbEntry, Outcome, SetType
  <2>2. CASE ~(old.origin = "learn" /\ d.origin = "vxlan" /\ old.dest = d.dest) /\ old # NoEntry /\ ~moves
    BY <1>4, <2>2 DEF addFdbEntry, Outcome
  <2>3. CASE ~(old.origin = "learn" /\ d.origin = "vxlan" /\ old.dest = d.dest) /\ moves /\ ~fits
    BY <1>1, <1>4, <2>3 DEF addFdbEntry, Outcome
  <2>4. CASE ~(old.origin = "learn" /\ d.origin = "vxlan" /\ old.dest = d.dest) /\ moves /\ fits
    BY <1>4, <2>4 DEF addFdbEntry, Outcome
  <2>5. CASE ~(old.origin = "learn" /\ d.origin = "vxlan" /\ old.dest = d.dest) /\ ~moves /\ old = NoEntry /\ fits
    BY <1>4, <2>5 DEF addFdbEntry, Outcome
  <2>6. CASE ~(old.origin = "learn" /\ d.origin = "vxlan" /\ old.dest = d.dest) /\ ~moves /\ old = NoEntry /\ ~fits
    BY <1>1, <1>4, <2>6 DEF addFdbEntry, Outcome
  <2> QED
    BY <2>1, <2>2, <2>3, <2>4, <2>5, <2>6
<1> QED
  BY <1>2, <1>3, <1>4

LEMMA SetTypeAnswered ==
    ASSUME NEW s, Typed(s), NEW m \in Mac, MacOk(s, m), Undisturbed(s, m), s.ent[m].origin = "learn",
           NEW type \in {"dynamic", "dynamic_control_learn"}
    PROVE  LET t == SetType(s, m, type)
           IN  Sound(s, t, {m}) /\ MacOk(t, m) /\ t.saved = s.saved /\ SavedGrows(s, t)
<1> PICK c : c = s.ent[m]
  OBVIOUS
<1> PICK t : t = SetType(s, m, type)
  OBVIOUS
<1>0. s \in State /\ type \in Types /\ c # NoEntry /\ c \in Entry
  BY NoEntryFacts DEF Typed, State, Types
<1> PICK n : n = [c EXCEPT !.type = type]
  OBVIOUS
<1>1. Part(s, t, m, n, s.asic[m])
  BY <1>0, SetTypePart
<1>2. /\ n # NoEntry /\ n.bp = c.bp /\ n.sai = c.sai /\ n.flush = c.flush /\ n.origin = c.origin /\ n.type = type
  <2>1. /\ n.bp = c.bp /\ n.sai = c.sai /\ n.flush = c.flush /\ n.origin = c.origin /\ n.type = type
    BY <1>0 DEF Entry
  <2> QED
    BY <2>1, NoEntryFacts
<1>3. Lost(s) \subseteq Lost(t) /\ Loose(s) \subseteq Loose(t)
  BY <1>0, <1>1, PartGrows
<1>4. \/ m \in Lost(t)
      \/ /\ KindOk(n) /\ (n # NoEntry => n.bp \in Range(s.bp)) /\ Paired(n, s.asic[m])
         /\ m \in Loose(t) \/ (n # NoEntry /\ Local(n.origin) => ~s.asic[m].allow)
  <2>1. CASE m \in Lost(s)
    BY <1>3, <2>1
  <2>2. CASE m \notin Lost(s)
    <3>1. /\ Paired(c, s.asic[m]) /\ (c # NoEntry => c.bp \in Range(s.bp))
          /\ m \in Loose(s) \/ (c # NoEntry /\ Local(c.origin) => ~s.asic[m].allow)
      BY <2>2, UndisturbedFacts
    <3>2. KindOk(n)
      BY <1>2 DEF KindOk
    <3>3. Paired(n, s.asic[m])
      BY <1>0, <1>2, <3>1 DEF Paired
    <3> QED
      BY <1>0, <1>2, <1>3, <3>1, <3>2, <3>3
  <2> QED
    BY <2>1, <2>2
<1>5. Sound(s, t, {m}) /\ MacOk(t, m) /\ SavedGrows(s, t)
  BY <1>1, <1>4, PartPaired DEF Undisturbed
<1>6. t.saved = s.saved
  BY <1>1 DEF Part
<1> QED
  BY <1>5, <1>6

LEMMA SaveAnswered ==
    ASSUME NEW s, Typed(s), NEW m \in Mac, MacOk(s, m), NEW d, Request(s, m, d)
    PROVE  Answered(s, Save(s, d.port, m, d), m, d, TRUE)
<1> PICK t : t = Save(s, d.port, m, d)
  OBVIOUS
<1>0. s \in State /\ d.port \in Port /\ d \in SavedData(d.port)
  BY DEF Typed, Request
<1>1. SameButSaved(s, t) /\ SavedGrows(s, t) /\ SavedFor(t.saved, m, d)
  BY <1>0, SaveFacts
<1>2. Sound(s, t, {m}) /\ Sound(s, t, {})
  BY <1>0, SaveSound DEF Request
<1>3. MacOk(t, m)
  BY <1>2 DEF Sound, Safe
<1>4. StaysPut(s, t, m)
  BY <1>1 DEF SameButSaved, StaysPut
<1> QED
  BY <1>1, <1>2, <1>3, <1>4 DEF Answered

LEMMA MovesAnswered ==
    ASSUME NEW s, Good(s), Typed(s), NEW m \in Mac, MacOk(s, m), Undisturbed(s, m), NEW d, Request(s, m, d),
           NEW b, b = s.bp[d.port], b # NoBp, d.port = Tunnel => Tunnel \in s.members,
           NEW old, old = s.ent[m], MovesToVtep(d, b, old), NEW u, u = RemoveForMove(s, m, old)
    PROVE  /\ Answered(s, Count(u, "torn", m), m, d, FALSE)
           /\ Answered(s, CreateMac(u, m, d, old), m, d, TRUE)
<1>0. old.origin \in {"learn", "vxlan"} /\ d.origin = "vxlan" /\ old # NoEntry /\ d.port \in Port
  BY NoEntryFacts DEF MovesToVtep, Request
<1>1. Sound(s, u, {m}) /\ MacOk(u, m) /\ u.saved = s.saved
      /\ (m \in Lost(u) \/ (Of(u.events, m) = {} /\ u.asic[m] = NoEntry))
  BY <1>0, RemoveForMoveGone
<1>2. Ready(u, m, old) /\ \A p \in Port : p # Tunnel \/ Tunnel \in s.members => u.bp[p] = s.bp[p]
  BY <1>0, RemoveForMoveReady
<1>3. Fine(u) /\ u.ent[m] = NoEntry /\ u.bp[d.port] # NoBp
  BY <1>0, <1>2 DEF Ready
<1>4. Typed(u) /\ u \in State /\ Lost(s) \subseteq Lost(u)
  BY <1>1, GrowsFacts DEF Sound, Typed
<1>5. ~Pinned(old)
  BY <1>0 DEF Pinned
<1>6. Request(u, m, d)
  BY <1>4 DEF Request
<1>7. Answered(u, CreateMac(u, m, d, old), m, d, TRUE)
  BY <1>1, <1>3, <1>4, <1>6, CreateMacAnswered
<1>8. Part(u, Count(u, "torn", m), m, u.ent[m], u.asic[m])
  BY <1>3, CountPart DEF Numbered
<1>9. Answered(u, Count(u, "torn", m), m, d, FALSE)
  BY <1>1, <1>4, <1>8, PartAnswered
<1> QED
  BY <1>1, <1>5, <1>7, <1>9, AnsweredAfter

\* After addFdbEntry cache, ASIC and queue are still in step, a static MAC that
\* FDB_TABLE asks for stays where it is, and one that it asks for now is there
\* or saved.
LEMMA addFdbEntryAnswered ==
    ASSUME NEW s, Good(s), Typed(s), NEW m \in Mac, MacOk(s, m), Undisturbed(s, m), NEW d, Request(s, m, d),
           d.port = Tunnel => d.dest = Vtep \/ Tunnel \in s.members, NEW fits \in BOOLEAN,
           NEW r, r = addFdbEntry(s, m, d, fits)
    PROVE  Answered(s, r.s, m, d, r.ok)
<1> PICK old : old = s.ent[m]
  OBVIOUS
<1> PICK b : b = s.bp[d.port]
  OBVIOUS
<1>0. s \in State /\ MovesToVtep(d, b, old) \in BOOLEAN
  BY DEF Typed, MovesToVtep
<1> PICK moves \in BOOLEAN : moves = MovesToVtep(d, b, old)
  BY <1>0
<1>1. Part(s, s, m, s.ent[m], s.asic[m])
  BY <1>0, PartSelf
<1>2. Answered(s, s, m, d, FALSE) /\ (Cached(s.ent[m], d, s.bp) => Answered(s, s, m, d, TRUE))
  BY <1>1, PartAnswered
<1>3. CASE b = NoBp \/ (d.dest = Vtep /\ Tunnel \notin s.members)
  <2>1. r.s = Save(s, d.port, m, d)
    BY <1>3 DEF addFdbEntry
  <2> QED
    BY <2>1, SaveAnswered, AnsweredWeak
<1>4. CASE ~(b = NoBp \/ (d.dest = Vtep /\ Tunnel \notin s.members))
  <2>0. Outcome(s, m, d, r, b, old, moves) /\ b # NoBp
    BY <1>4, addFdbEntryOutcome
  <2>1. CASE r.s = s /\ ~r.ok
    BY <1>2, <2>1 DEF Answered
  <2>2. CASE r.s = s /\ old # NoEntry /\ Data(old) = Data(d) /\ old.bp = b
    <3>1. Cached(s.ent[m], d, s.bp)
      BY <2>2 DEF Cached
    <3> QED
      BY <1>2, <2>2, <3>1, AnsweredWeak
  <2>3. CASE r.s = s /\ Ignored(d, b, old)
    <3>1. ~Static(d)
      BY <2>3 DEF Static, Ignored
    <3> QED
      BY <1>2, <2>3, <3>1 DEF Answered
  <2>4. CASE r.s = SetType(s, m, "dynamic_control_learn") /\ old.origin = "learn" /\ d.origin = "vxlan"
    <3> PICK t : t = SetType(s, m, "dynamic_control_learn")
      OBVIOUS
    <3>1. Sound(s, t, {m}) /\ MacOk(t, m) /\ SavedGrows(s, t)
      BY <2>4, SetTypeAnswered
    <3>2. StaysPut(s, t, m) /\ ~Static(d)
      BY <2>4, NotPinnedStays DEF Pinned, Static
    <3> QED
      BY <2>4, <3>1, <3>2 DEF Answered
  <2>5. CASE old # NoEntry /\ r.s = UpdateMac(s, m, d, b, old) /\ ~Ignored(d, b, old)
    <3>1. d.origin = "provisioned" \/ ~Pinned(s.ent[m])
      BY <2>5 DEF Ignored, Pinned
    <3>2. Answered(s, UpdateMac(s, m, d, b, old), m, d, TRUE)
      BY <2>0, <2>5, <3>1, UpdateMacAnswered
    <3> QED
      BY <2>5, <3>2, AnsweredWeak
  <2>6. CASE moves /\ (\/ r.s = Count(RemoveForMove(s, m, old), "torn", m) /\ ~r.ok
                       \/ r.s = CreateMac(RemoveForMove(s, m, old), m, d, old))
    <3> PICK u : u = RemoveForMove(s, m, old)
      OBVIOUS
    <3>1. d.port = Tunnel => Tunnel \in s.members
      BY <1>4
    <3>2. Answered(s, Count(u, "torn", m), m, d, FALSE) /\ Answered(s, CreateMac(u, m, d, old), m, d, TRUE)
      BY <2>0, <2>6, <3>1, MovesAnswered
    <3>3. CASE r.s = Count(u, "torn", m) /\ ~r.ok
      BY <3>2, <3>3 DEF Answered
    <3>4. CASE r.s = CreateMac(u, m, d, old)
      BY <3>2, <3>4, AnsweredWeak
    <3> QED
      BY <2>6, <3>3, <3>4
  <2>7. CASE old = NoEntry /\ r.s = CreateMac(s, m, d, old)
    <3>1. m \in Lost(s) \/ (Of(s.events, m) = {} /\ s.asic[m] = NoEntry)
      BY <2>7, UndisturbedFacts DEF Paired
    <3>2. Answered(s, CreateMac(s, m, d, old), m, d, TRUE)
      BY <2>0, <2>7, <3>1, CreateMacAnswered
    <3> QED
      BY <2>7, <3>2, AnsweredWeak
  <2> QED
    BY <2>0, <2>1, <2>2, <2>3, <2>4, <2>5, <2>6, <2>7 DEF Outcome
<1> QED
  BY <1>3, <1>4

-----------------------------------------------------------------------------
(* Withdrawn requests                                                      *)

Savable == UNION {Saved(o) : o \in Port}

\* Some saved entries of port p go.
LEMMA SetSavedFacts ==
    ASSUME NEW s, Typed(s), NEW p \in Port, NEW q \in Seq(Savable), Ev(q) \subseteq Ev(s.saved[p]),
           NEW t, t = SetSaved(s, p, q)
    PROVE  /\ SameButSaved(s, t) /\ Sound(s, t, {}) /\ t.saved[p] = q
           /\ \A o \in Port \ {p} : t.saved[o] = s.saved[o]
<1> PICK v : v = [s.saved EXCEPT ![p] = q]
  OBVIOUS
<1>0. s \in State
  BY DEF Typed
<1>1. v \in [Port -> Seq(Savable)] /\ v[p] = q /\ \A o \in Port \ {p} : v[o] = s.saved[o]
  <2>1. s.saved \in [Port -> Seq(Savable)]
    BY <1>0 DEF State, Savable
  <2> QED
    BY <2>1
<1>2. t = [s EXCEPT !.saved = v]
  BY <1>0 DEF SetSaved, State
<1>3. t.saved = v /\ SameButSaved(s, t)
  BY <1>0, <1>1, <1>2 DEF State, SameButSaved, Savable
<1>4. ASSUME NEW x \in Mac, NotLearnt(s.saved, x) PROVE NotLearnt(v, x)
  <2> SUFFICES ASSUME NEW o \in Port, NEW i \in DOMAIN v[o], v[o][i].mac = x PROVE v[o][i].data.origin # "learn"
    BY DEF NotLearnt
  <2>1. CASE o = p
    <3>1. q[i] \in Ev(s.saved[p]) /\ v[o][i] = q[i]
      BY <1>1, <2>1 DEF Ev
    <3>2. PICK j \in DOMAIN s.saved[p] : s.saved[p][j] = q[i]
      BY <3>1 DEF Ev
    <3> QED
      BY <1>4, <3>1, <3>2 DEF NotLearnt
  <2>2. CASE o # p
    BY <1>1, <1>4, <2>2 DEF NotLearnt
  <2> QED
    BY <2>1, <2>2
<1>5. Typed(t) /\ Grows(s, t) /\ Lost(t) = Lost(s) /\ Loose(t) = Loose(s) /\ Waived(t) = Waived(s)
  BY <1>3 DEF SameButSaved, Typed, PortNames, Grows, Lost, Loose, Waived
<1>6. ASSUME NEW x \in Mac PROVE Safe(s, t, x)
  <2>1. MacOk(s, x) => MacOk(t, x)
    BY <1>3, <1>4, <1>5 DEF MacOk, SameButSaved
  <2> QED
    BY <1>3, <1>5, <2>1 DEF Safe, SameButSaved
<1> QED
  BY <1>1, <1>3, <1>5, <1>6 DEF Sound

\* What deleteFdbEntryFromSavedFDB leaves.
SavedLess(s, t, m, origin) ==
    \A x \in Mac : \A D : D.port \in Port /\ SavedFor(s.saved, x, D) /\ (x # m \/ D.origin # origin)
                          => SavedFor(t.saved, x, D)

LEMMA deleteFdbEntryFromSavedFDBSound ==
    ASSUME NEW s, Typed(s), NEW p \in Port, NEW m, NEW origin, NEW t, t = deleteFdbEntryFromSavedFDB(s, m, origin, p)
    PROVE  Sound(s, t, {}) /\ t.ent = s.ent /\ t.bp = s.bp /\ SavedLess(s, t, m, origin)
<1>0. s \in State
  BY DEF Typed
<1> PICK r : r = s.saved[p]
  OBVIOUS
<1>1. r \in Seq(Savable)
  BY <1>0 DEF State, Savable
<1> PICK I : I = {i \in 1 .. Len(r) : IsSaved(r[i], m, origin)}
  OBVIOUS
<1>2. CASE I = {}
  <2>1. t = s
    BY <1>2 DEF deleteFdbEntryFromSavedFDB, SelectInSeq
  <2> QED
    BY <2>1, SoundSelf DEF SavedLess
<1>3. CASE I # {}
  <2> PICK i : i = Min(I)
    OBVIOUS
  <2>1. i \in I /\ i \in 1 .. Len(r) /\ IsSaved(r[i], m, origin)
    <3>1. I \in SUBSET Nat
      OBVIOUS
    <3> QED
      BY <1>3, <3>1, MinExists
  <2> PICK q : q = RemoveAt(r, i)
    OBVIOUS
  <2>2. q \in Seq(Savable) /\ Len(q) = Len(r) - 1
        /\ \A k \in 1 .. Len(r) - 1 : q[k] = IF k < i THEN r[k] ELSE r[k + 1]
    <3>1. q = RemoveAt(r, i)
      OBVIOUS
    <3> QED
      BY ONLY <1>1, <2>1, <3>1, RemoveAtElements
  <2>3. t = SetSaved(s, p, q)
    BY <1>3, <2>1 DEF SetSaved, deleteFdbEntryFromSavedFDB, SelectInSeq
  <2> PICK n \in Nat : n = Len(r)
    BY <1>1
  <2>4. DOMAIN r = 1 .. n /\ DOMAIN q = 1 .. n - 1 /\ i \in 1 .. n
    BY <1>1, <2>1, <2>2
  <2>5. Ev(q) \subseteq Ev(r)
    <3> SUFFICES ASSUME NEW e \in Ev(q) PROVE e \in Ev(r)
      OBVIOUS
    <3> PICK k \in 1 .. n - 1 : q[k] = e
      BY <2>4 DEF Ev
    <3>1. k \in 1 .. n /\ k + 1 \in 1 .. n
      OBVIOUS
    <3>2. r[k] \in Ev(r) /\ r[k + 1] \in Ev(r)
      BY <2>4, <3>1 DEF Ev
    <3> QED
      BY <2>2, <3>2
  <2>6. ASSUME NEW j \in 1 .. n, j # i PROVE r[j] \in Ev(q)
    <3>1. CASE j < i
      <4>1. j \in 1 .. n - 1
        BY <2>4, <3>1
      <4> QED
        BY <2>2, <2>4, <3>1, <4>1 DEF Ev
    <3>2. CASE j > i
      <4>1. j - 1 \in 1 .. n - 1 /\ ~(j - 1 < i) /\ (j - 1) + 1 = j
        BY <2>4, <3>2
      <4> QED
        BY <2>2, <2>4, <4>1 DEF Ev
    <3> QED
      BY <2>4, <2>6, <3>1, <3>2
  <2>7. SameButSaved(s, t) /\ Sound(s, t, {}) /\ t.saved[p] = q /\ \A o \in Port \ {p} : t.saved[o] = s.saved[o]
    <3>1. q \in Seq(Savable) /\ t = SetSaved(s, p, q) /\ Ev(q) \subseteq Ev(s.saved[p])
      BY <2>2, <2>3, <2>5
    <3> QED
      BY ONLY <3>1, SetSavedFacts, Typed(s), p \in Port
  <2>8. ASSUME NEW x \in Mac, NEW D, D.port \in Port, SavedFor(s.saved, x, D), x # m \/ D.origin # origin
        PROVE  SavedFor(t.saved, x, D)
    <3>1. PICK j \in DOMAIN s.saved[D.port] : s.saved[D.port][j] = [mac |-> x, data |-> D]
      BY <2>8 DEF SavedFor
    <3>2. CASE D.port # p
      BY <2>7, <2>8, <3>1, <3>2 DEF SavedFor
    <3>3. CASE D.port = p
      <4>1. j # i
        <5>1. r[j].mac = x /\ r[j].data = D
          BY <3>1, <3>3
        <5> QED
          BY Zenon, <2>1, <2>8, <5>1 DEF IsSaved
      <4>2. r[j] \in Ev(q)
        BY <2>4, <2>6, <3>1, <3>3, <4>1
      <4> QED
        BY <2>7, <3>1, <3>3, <4>2 DEF SavedFor, Ev
    <3> QED
      BY <3>2, <3>3
  <2> QED
    BY <2>7, <2>8 DEF SavedLess, SameButSaved
<1> QED
  BY <1>2, <1>3

Withdrawn(s, t, m, origin) ==
    /\ Sound(s, t, {m}) /\ MacOk(t, m) /\ SavedLess(s, t, m, origin)
    /\ origin # "provisioned" => StaysPut(s, t, m)

LEMMA SavedSameLess ==
    ASSUME NEW s, NEW t, t.saved = s.saved, NEW m, NEW origin
    PROVE  SavedLess(s, t, m, origin)
BY DEF SavedLess

LEMMA LostStays ==
    ASSUME NEW s, NEW t, NEW m, m \in Lost(t)
    PROVE  m \in Waived(t) /\ StaysPut(s, t, m)
BY DEF Waived, Loose, StaysPut

LEMMA removeFdbEntryWithdrawn ==
    ASSUME NEW s, Typed(s), NEW m \in Mac, MacOk(s, m), Undisturbed(s, m), NEW origin, NEW p \in Port,
           NEW r, r = removeFdbEntry(s, m, origin, p)
    PROVE  Withdrawn(s, r.s, m, origin)
<1> PICK e : e = s.ent[m]
  OBVIOUS
<1>0. s \in State
  BY DEF Typed
<1>1. CASE r.s = deleteFdbEntryFromSavedFDB(s, m, origin, p)
  <2> PICK t : t = r.s
    OBVIOUS
  <2>1. Sound(s, t, {}) /\ t.ent = s.ent /\ t.bp = s.bp /\ SavedLess(s, t, m, origin)
    BY <1>1, deleteFdbEntryFromSavedFDBSound
  <2>2. Sound(s, t, {m}) /\ MacOk(t, m)
    BY <2>1, SoundLess DEF Sound, Safe
  <2>3. StaysPut(s, t, m)
    BY <2>1 DEF StaysPut
  <2> QED
    BY <2>1, <2>2, <2>3 DEF Withdrawn
<1>2. CASE e # NoEntry /\ e.bp \notin Range(s.bp) /\ r.s \in {s, clearFdbEntry(s, m)}
  <2>1. m \in Lost(s)
    BY <1>2, UndisturbedFacts
  <2> PICK t : t = r.s
    OBVIOUS
  <2>2. Sound(s, t, {m}) /\ MacOk(t, m) /\ t.saved = s.saved
    <3>1. CASE t = s
      BY <3>1, SoundSelf
    <3>2. CASE t = clearFdbEntry(s, m)
      BY <2>1, <3>2, clearFdbEntryClears DEF Clearable
    <3> QED
      BY <1>2, <3>1, <3>2
  <2>3. m \in Lost(t)
    BY <2>1, <2>2, GrowsFacts DEF Sound
  <2> QED
    BY <2>2, <2>3, LostStays, SavedSameLess DEF Withdrawn
<1>3. CASE e # NoEntry /\ r.s = RemoveMac(s, m, e) /\ (e.origin = origin \/ e.origin = "learn")
  <2> PICK t : t = RemoveMac(s, m, e)
    OBVIOUS
  <2>1. Sound(s, t, {m}) /\ MacOk(t, m) /\ t.saved = s.saved
    BY <1>3, RemoveMacGone
  <2>2. origin # "provisioned" => StaysPut(s, t, m)
    BY <1>3, NotPinnedStays DEF Pinned
  <2> QED
    BY <1>3, <2>1, <2>2, SavedSameLess DEF Withdrawn
<1>4. CASE e.origin = "learn" /\ r.s = SetType(s, m, "dynamic")
  <2> PICK t : t = SetType(s, m, "dynamic")
    OBVIOUS
  <2>1. Sound(s, t, {m}) /\ MacOk(t, m) /\ t.saved = s.saved
    BY <1>4, SetTypeAnswered
  <2>2. StaysPut(s, t, m)
    BY <1>4, NotPinnedStays DEF Pinned
  <2> QED
    BY <1>4, <2>1, <2>2, SavedSameLess DEF Withdrawn
<1>5. \/ r.s = deleteFdbEntryFromSavedFDB(s, m, origin, p)
      \/ e # NoEntry /\ e.bp \notin Range(s.bp) /\ r.s \in {s, clearFdbEntry(s, m)}
      \/ e # NoEntry /\ r.s = RemoveMac(s, m, e) /\ (e.origin = origin \/ e.origin = "learn")
      \/ e.origin = "learn" /\ r.s = SetType(s, m, "dynamic")
  BY DEF removeFdbEntry, SetType
<1> QED
  BY <1>1, <1>2, <1>3, <1>4, <1>5

-----------------------------------------------------------------------------
(* Requests of APP_DB as a whole                                           *)

LEMMA RacesUndisturbed ==
    ASSUME NEW s, Typed(s), NEW m \in Mac, NEW w, w = Races(s, m)
    PROVE  /\ Sound(s, w, {}) /\ Undisturbed(w, m) /\ w.saved = s.saved /\ w.ent = s.ent /\ w.bp = s.bp
           /\ w.members = s.members /\ StaysPut(s, w, m) /\ Typed(w)
           /\ MacOk(s, m) => MacOk(w, m)
<1>0. s \in State
  BY DEF Typed
<1>1. Part(s, w, m, s.ent[m], s.asic[m])
      /\ (m \in Lost(w) \/ (Of(s.events, m) = {} /\ \A f \in Ev(s.events) : f.mac # AnyMac))
  BY <1>0, RacesPart
<1>2. w.events = s.events /\ w.bp = s.bp /\ w.saved = s.saved /\ w.members = s.members
  BY <1>1 DEF Part
<1>3. w.ent = s.ent /\ w.asic = s.asic
  BY <1>0, <1>1, StateFacts DEF Part
<1>4. Sound(s, w, {m}) /\ Lost(s) \subseteq Lost(w) /\ Loose(s) \subseteq Loose(w)
  BY <1>0, <1>1, PartSound, PartGrows
<1>5. MacOk(s, m) => MacOk(w, m)
  BY <1>2, <1>3, <1>4 DEF MacOk
<1>6. StaysPut(s, w, m)
  BY <1>2, <1>3 DEF StaysPut
<1>7. Safe(s, w, m)
  BY <1>5, <1>6 DEF Safe, StaysPut
<1>8. Sound(s, w, {})
  BY <1>4, <1>7 DEF Sound
<1> QED
  BY <1>1, <1>2, <1>3, <1>5, <1>6, <1>8 DEF Undisturbed, Sound

\* What FDB_TABLE asks for as static is in the cache, or saved, or lost.
AnswerOk(s, x, d) ==
    Static(d) => x \in Waived(s) \/ Cached(s.ent[x], d, s.bp) \/ SavedFor(s.saved, x, d)

LEMMA PreservesAnswers ==
    ASSUME NEW s, NEW t, Preserves(s, t), \A x \in Mac : MacOk(s, x), NEW x \in Mac, NEW d, AnswerOk(s, x, d)
    PROVE  MacOk(t, x) /\ AnswerOk(t, x, d)
<1>1. Handled(s, t, x)
  BY DEF Preserves
<1>2. Waived(s) \subseteq Waived(t)
  BY GrowsFacts DEF Preserves
<1>3. ASSUME Static(d) PROVE d.port \in Port
  BY <1>3 DEF Static
<1>4. Static(d) /\ SavedFor(s.saved, x, d) => SavedFor(t.saved, x, d)
  BY <1>3 DEF Preserves, SavedGrows
<1>5. Static(d) /\ Cached(s.ent[x], d, s.bp) => x \in Waived(t) \/ Cached(t.ent[x], d, t.bp) \/ SavedFor(t.saved, x, d)
  BY <1>1 DEF Handled
<1> QED
  BY <1>1, <1>2, <1>4, <1>5 DEF Handled, AnswerOk

\* The other MACs after a request for m.
LEMMA OthersAnswered ==
    ASSUME NEW s, NEW t, NEW m \in Mac, NEW o, Sound(s, t, {m}), SavedLess(s, t, m, o), \A x \in Mac : MacOk(s, x),
           NEW x \in Mac, x # m, NEW d, AnswerOk(s, x, d)
    PROVE  MacOk(t, x) /\ AnswerOk(t, x, d)
<1>1. Safe(s, t, x) /\ Waived(s) \subseteq Waived(t)
  BY GrowsFacts DEF Sound
<1>2. ASSUME Static(d) PROVE d.port \in Port
  BY <1>2 DEF Static
<1>3. Static(d) /\ SavedFor(s.saved, x, d) => SavedFor(t.saved, x, d)
  BY <1>2 DEF SavedLess
<1> QED
  BY <1>1, <1>3 DEF Safe, AnswerOk

\* The MAC of a request of another origin.
LEMMA StaysAnswered ==
    ASSUME NEW s, NEW t, NEW m \in Mac, Grows(s, t), StaysPut(s, t, m), NEW d, AnswerOk(s, m, d),
           Static(d) /\ SavedFor(s.saved, m, d) => SavedFor(t.saved, m, d)
    PROVE  AnswerOk(t, m, d)
BY GrowsFacts DEF StaysPut, AnswerOk

LEMMA SavedGrowsLess ==
    ASSUME NEW s, NEW t, SavedGrows(s, t), NEW m, NEW o
    PROVE  SavedLess(s, t, m, o)
BY DEF SavedGrows, SavedLess

LEMMA PeerRowMaybeGone ==
    ASSUME NEW u, Typed(u), NEW m \in Mac, NEW t, t \in {u, PeerRowGone(u, m)}
    PROVE  Part(u, t, m, u.ent[m], u.asic[m])
BY PeerRowGonePart, PartSelf DEF Typed

\* Races, then what it does, then rows or excuses.
Followed(s, w, u, t, m) ==
    /\ Sound(s, t, {m}) /\ MacOk(t, m) /\ t.saved = u.saved /\ t.ent[m] = u.ent[m] /\ t.bp = u.bp
    /\ Waived(u) \subseteq Waived(t)
    /\ StaysPut(w, u, m) => StaysPut(s, t, m)

LEMMA AfterRaces ==
    ASSUME NEW s, Typed(s), NEW m \in Mac, MacOk(s, m), NEW w, w = Races(s, m), NEW u, Sound(w, u, {m}), MacOk(u, m),
           NEW t, Part(u, t, m, u.ent[m], u.asic[m])
    PROVE  Followed(s, w, u, t, m)
<1>1. Sound(s, w, {}) /\ w.ent = s.ent /\ w.bp = s.bp
  BY RacesUndisturbed
<1>2. Sound(s, u, {m}) /\ Typed(u) /\ u \in State
  <2>1. Sound(s, w, {m})
    BY <1>1, SoundLess
  <2> QED
    BY <2>1, SoundTransitive DEF Sound, Typed
<1>3. Sound(u, t, {}) /\ MacOk(t, m) /\ t.saved = u.saved /\ t.ent[m] = u.ent[m] /\ t.bp = u.bp
  <2>1. Sound(u, t, {}) /\ t.saved = u.saved /\ MacOk(t, m)
    BY <1>2, PartAnswered
  <2>2. t.ent[m] = u.ent[m] /\ t.bp = u.bp
    BY <1>2, PartFacts DEF Part
  <2> QED
    BY <2>1, <2>2
<1>4. Sound(u, t, {m})
  BY <1>3, SoundLess
<1>5. Sound(s, t, {m})
  BY <1>2, <1>4, SoundTransitive
<1>6. Waived(u) \subseteq Waived(t)
  BY <1>3, GrowsFacts DEF Sound
<1> QED
  BY <1>1, <1>3, <1>5, <1>6 DEF StaysPut, Followed

\* The second inductive invariant; q is what FDB_TABLE asks for.
AskedFor == [Mac -> Requests \cup {NoEntry}]
Lasting(s, q) == Typed(s) /\ q \in AskedFor /\ \A x \in Mac : MacOk(s, x) /\ AnswerOk(s, x, q[x])

LEMMA PreservesLasting ==
    ASSUME NEW s, NEW q, Lasting(s, q), NEW t, Preserves(s, t)
    PROVE  Lasting(t, q)
BY PreservesAnswers DEF Lasting, Preserves

LEMMA OneAsked ==
    ASSUME NEW s, NEW q, Lasting(s, q), NEW m \in Mac, NEW t, NEW o, Sound(s, t, {m}), SavedLess(s, t, m, o), MacOk(t, m),
           NEW q2 \in AskedFor, \A x \in Mac \ {m} : q2[x] = q[x], AnswerOk(t, m, q2[m])
    PROVE  Lasting(t, q2)
<1>1. ASSUME NEW x \in Mac, x # m PROVE MacOk(t, x) /\ AnswerOk(t, x, q2[x])
  BY <1>1, OthersAnswered DEF Lasting
<1>2. Typed(t)
  BY DEF Sound
<1> QED
  BY <1>1, <1>2 DEF Lasting

LEMMA NothingAsked ==
    ASSUME NEW s, NEW m
    PROVE  AnswerOk(s, m, NoEntry)
<1>1. ~Static(NoEntry)
  <2>1. NoEntry.origin = "none"
    BY NoEntryFacts
  <2> QED
    BY <2>1 DEF Static
<1> QED
  BY <1>1 DEF AnswerOk

LEMMA SetFdbLasting ==
    ASSUME NEW s, Good(s), NEW q, Lasting(s, q), NEW m \in Mac, NEW d \in Requests, NEW fits \in BOOLEAN,
           NEW w, w = Races(s, m), NEW r, r = addFdbEntry(w, m, d, fits),
           NEW t, t = IF r.ok /\ Own(d) THEN PeerRowGone(r.s, m) ELSE r.s,
           NEW q2, q2 = IF d.origin = "provisioned" THEN [q EXCEPT ![m] = IF r.ok THEN d ELSE NoEntry] ELSE q
    PROVE  Lasting(t, q2)
<1>0. Typed(s) /\ MacOk(s, m) /\ q \in AskedFor /\ AnswerOk(s, m, q[m])
  BY DEF Lasting
<1>1. Good(w)
  BY RacesGood
<1>2. Typed(w) /\ Undisturbed(w, m) /\ MacOk(w, m) /\ w.saved = s.saved
  BY <1>0, RacesUndisturbed
<1>3. Request(w, m, d) /\ (d.port = Tunnel => d.dest = Vtep)
  BY RequestsAssumption DEF Request, SavedData
<1>4. Answered(w, r.s, m, d, r.ok)
  BY <1>1, <1>2, <1>3, addFdbEntryAnswered
<1> PICK u : u = r.s
  OBVIOUS
<1>5. /\ Sound(w, u, {m}) /\ SavedGrows(w, u) /\ MacOk(u, m)
      /\ d.origin # "provisioned" => StaysPut(w, u, m)
      /\ r.ok => AnswerOk(u, m, d)
  BY <1>4 DEF Answered, AnswerOk
<1>6. /\ Sound(s, t, {m}) /\ MacOk(t, m) /\ t.saved = u.saved /\ t.ent[m] = u.ent[m] /\ t.bp = u.bp
      /\ Waived(u) \subseteq Waived(t)
      /\ StaysPut(w, u, m) => StaysPut(s, t, m)
  <2>1. Part(u, t, m, u.ent[m], u.asic[m])
    <3>1. t \in {u, PeerRowGone(u, m)} /\ Typed(u)
      BY <1>5 DEF Sound
    <3> QED
      BY <3>1, PeerRowMaybeGone
  <2>2. Followed(s, w, u, t, m)
    BY ONLY m \in Mac, w = Races(s, m), <1>0, <1>5, <2>1, AfterRaces
  <2> QED
    BY <2>2 DEF Followed
<1>7. SavedGrows(s, t)
  BY <1>2, <1>5, <1>6 DEF SavedGrows
<1>8. q2 \in AskedFor /\ \A x \in Mac \ {m} : q2[x] = q[x]
  BY <1>0 DEF AskedFor
<1>9. AnswerOk(t, m, q2[m])
  <2>1. CASE d.origin = "provisioned" /\ r.ok
    <3>1. q2[m] = d
      BY <1>0, <2>1 DEF AskedFor
    <3> QED
      BY <1>5, <1>6, <2>1, <3>1 DEF AnswerOk
  <2>2. CASE d.origin = "provisioned" /\ ~r.ok
    <3>1. q2[m] = NoEntry
      BY <1>0, <2>2 DEF AskedFor
    <3> QED
      BY <3>1, NothingAsked
  <2>3. CASE d.origin # "provisioned"
    <3> PICK D : D = q[m]
      OBVIOUS
    <3>1. q2[m] = D /\ StaysPut(s, t, m) /\ Grows(s, t) /\ AnswerOk(s, m, D)
      BY <1>0, <1>5, <1>6, <2>3 DEF Sound
    <3>2. Static(D) /\ SavedFor(s.saved, m, D) => SavedFor(t.saved, m, D)
      BY <1>7 DEF SavedGrows, Static
    <3> QED
      BY <3>1, <3>2, StaysAnswered
  <2> QED
    BY <2>1, <2>2, <2>3
<1>10. SavedLess(s, t, m, "mclag")
  BY <1>7, SavedGrowsLess
<1> QED
  BY ONLY <1>6, <1>8, <1>9, <1>10, OneAsked, Lasting(s, q), m \in Mac

LEMMA DelFdbLasting ==
    ASSUME NEW s, NEW q, Lasting(s, q), NEW m \in Mac, NEW origin, NEW p \in Port,
           NEW w, w = Races(s, m), NEW r, r = removeFdbEntry(w, m, origin, p),
           NEW t, t = IF r.ok /\ origin = "mclag" THEN PeerRowGone(r.s, m) ELSE r.s,
           NEW q2, q2 = IF origin = "provisioned" THEN [q EXCEPT ![m] = NoEntry] ELSE q
    PROVE  Lasting(t, q2)
<1>0. Typed(s) /\ MacOk(s, m) /\ q \in AskedFor /\ AnswerOk(s, m, q[m])
  BY DEF Lasting
<1>1. Typed(w) /\ Undisturbed(w, m) /\ MacOk(w, m) /\ w.saved = s.saved
  BY <1>0, RacesUndisturbed
<1> PICK u : u = r.s
  OBVIOUS
<1>2. Withdrawn(w, u, m, origin)
  BY <1>1, removeFdbEntryWithdrawn
<1>3. /\ Sound(w, u, {m}) /\ SavedLess(w, u, m, origin) /\ MacOk(u, m)
      /\ origin # "provisioned" => StaysPut(w, u, m)
  BY <1>2 DEF Withdrawn
<1>4. /\ Sound(s, t, {m}) /\ MacOk(t, m) /\ t.saved = u.saved
      /\ StaysPut(w, u, m) => StaysPut(s, t, m)
  <2>1. Part(u, t, m, u.ent[m], u.asic[m])
    <3>1. t \in {u, PeerRowGone(u, m)} /\ Typed(u)
      BY <1>3 DEF Sound
    <3> QED
      BY <3>1, PeerRowMaybeGone
  <2>2. Followed(s, w, u, t, m)
    BY ONLY m \in Mac, w = Races(s, m), <1>0, <1>3, <2>1, AfterRaces
  <2> QED
    BY <2>2 DEF Followed
<1>5. SavedLess(s, t, m, origin)
  BY <1>1, <1>3, <1>4 DEF SavedLess
<1>6. q2 \in AskedFor /\ \A x \in Mac \ {m} : q2[x] = q[x]
  BY <1>0 DEF AskedFor
<1>7. AnswerOk(t, m, q2[m])
  <2>1. CASE origin = "provisioned"
    <3>1. q2[m] = NoEntry
      BY <1>0, <2>1 DEF AskedFor
    <3> QED
      BY <3>1, NothingAsked
  <2>2. CASE origin # "provisioned"
    <3> PICK D : D = q[m]
      OBVIOUS
    <3>1. q2[m] = D /\ StaysPut(s, t, m) /\ Grows(s, t) /\ AnswerOk(s, m, D)
      BY <1>0, <1>3, <1>4, <2>2 DEF Sound
    <3>2. Static(D) /\ SavedFor(s.saved, m, D) => SavedFor(t.saved, m, D)
      BY <1>5, <2>2 DEF SavedLess, Static
    <3> QED
      BY <3>1, <3>2, StaysAnswered
  <2> QED
    BY <2>1, <2>2
<1> QED
  BY ONLY <1>4, <1>5, <1>6, <1>7, OneAsked, Lasting(s, q), m \in Mac

-----------------------------------------------------------------------------
(* A port joins the VLAN                                                   *)

\* What an attempt to add a saved entry leaves.
Tries(a, t, x, q) ==
    /\ Typed(t) /\ Lost(a) \subseteq Lost(t)
    /\ \A y \in Mac : /\ MacOk(t, y)
                      /\ AnswerOk(a, y, q[y]) \/ (x.mac = y /\ x.data = q[y]) => AnswerOk(t, y, q[y])

LEMMA AddOneSavedIs ==
    ASSUME NEW a, NEW x, x.mac \in Mac, NEW r, Typed(r.s), NEW t, t = AddOneSaved(a, x, r)
    PROVE  /\ Part(r.s, t, x.mac, r.s.ent[x.mac], r.s.asic[x.mac])
           /\ x.mac \in Waived(t) \/ (~Outdated(x) /\ r.ok)
<1> PICK u : u = r.s
  OBVIOUS
<1> PICK m \in Mac : m = x.mac
  OBVIOUS
<1> PICK M : M = {m}
  OBVIOUS
<1>0. u \in State /\ M \in SUBSET (Mac \cup (Mac \X Nat)) /\ m \in M
  BY DEF Typed
<1>1. ASSUME NEW e \in {"superseded", "dropped", "late"}, t = Excuse(u, e, M)
      PROVE  Part(u, t, m, u.ent[m], u.asic[m]) /\ (e # "late" => m \in Waived(t))
  <2>1. e \in Excuses
    BY DEF Excuses
  <2>2. Part(u, Excuse(u, e, M), m, u.ent[m], u.asic[m]) /\ Excuse(u, e, M).excused[e] = u.excused[e] \cup M
    BY <1>0, <2>1, ExcusePart
  <2>3. e # "late" => m \in Waived(t)
    BY <1>0, <1>1, <2>2 DEF Waived
  <2> QED
    BY <1>1, <2>2, <2>3
<1>2. Part(u, u, m, u.ent[m], u.asic[m])
  BY <1>0, PartSelf
<1>3. \/ Outdated(x) /\ t = Excuse(u, "superseded", M)
      \/ ~Outdated(x) /\ ~r.ok /\ t = Excuse(u, "dropped", M)
      \/ ~Outdated(x) /\ r.ok /\ t = Excuse(u, "late", M)
      \/ ~Outdated(x) /\ r.ok /\ t = u
  BY DEF AddOneSaved
<1> QED
  BY <1>1, <1>2, <1>3

LEMMA AddNextTries ==
    ASSUME NEW a, Good(a), Typed(a), \A y \in Mac : MacOk(a, y), NEW p \in Port, p \in a.members, NEW x \in Saved(p),
           NotStale(a) /\ p = Tunnel => x \in SavedVxlan, x.data.origin # "learn" \/ x.mac \in Lost(a),
           NEW t, t = AddNext(a, x)
    PROVE  Tries(a, t, x, asked)
<1> PICK m \in Mac : m = x.mac
  BY DEF Saved
<1> PICK d : d = x.data
  OBVIOUS
<1>0. d \in SavedData(p) /\ d.port = p /\ a \in State
  BY DEF Saved, SavedData, Typed
<1> PICK w : w = Races(a, m)
  OBVIOUS
<1>1. Good(w) /\ w.members = a.members
  BY RacesGood
<1>2. Typed(w) /\ Undisturbed(w, m) /\ MacOk(w, m) /\ w.saved = a.saved /\ Sound(a, w, {})
  BY RacesUndisturbed
<1>3. Request(w, m, d) /\ (d.port = Tunnel => d.dest = Vtep \/ Tunnel \in w.members)
  <2>1. Lost(a) \subseteq Lost(w)
    BY <1>2, GrowsFacts DEF Sound
  <2> QED
    BY <1>0, <1>1, <2>1 DEF Request
<1> PICK r : r = addFdbEntry(w, m, d, TRUE)
  OBVIOUS
<1>4. Answered(w, r.s, m, d, r.ok)
  BY <1>1, <1>2, <1>3, TRUE \in BOOLEAN, addFdbEntryAnswered
<1> PICK u : u = r.s
  OBVIOUS
<1>5. /\ Sound(w, u, {m}) /\ SavedGrows(w, u) /\ MacOk(u, m) /\ Typed(u)
      /\ d.origin # "provisioned" => StaysPut(w, u, m)
      /\ r.ok => AnswerOk(u, m, d)
  BY <1>4 DEF Answered, AnswerOk, Sound
<1>6. Part(u, t, m, u.ent[m], u.asic[m]) /\ (m \in Waived(t) \/ (~Outdated(x) /\ r.ok))
  <2>1. t = AddOneSaved(a, x, r)
    BY DEF AddNext
  <2> QED
    BY <1>5, <2>1, AddOneSavedIs
<1>7. /\ Sound(a, t, {m}) /\ MacOk(t, m) /\ t.saved = u.saved /\ t.ent[m] = u.ent[m] /\ t.bp = u.bp
      /\ Waived(u) \subseteq Waived(t)
      /\ StaysPut(w, u, m) => StaysPut(a, t, m)
  <2>1. Typed(a) /\ MacOk(a, m) /\ w = Races(a, m)
    OBVIOUS
  <2>2. Followed(a, w, u, t, m)
    BY ONLY m \in Mac, <2>1, <1>5, <1>6, AfterRaces
  <2> QED
    BY <2>2 DEF Followed
<1>8. SavedGrows(a, t) /\ Typed(t) /\ Lost(a) \subseteq Lost(t)
  BY <1>2, <1>5, <1>7, GrowsFacts DEF SavedGrows, Sound
<1>9. SavedLess(a, t, m, "mclag")
  BY <1>8, SavedGrowsLess
<1>10. ASSUME NEW y \in Mac, y # m
       PROVE  MacOk(t, y) /\ (AnswerOk(a, y, asked[y]) => AnswerOk(t, y, asked[y]))
  <2>1. Safe(a, t, y) /\ MacOk(t, y)
    BY <1>7, <1>10 DEF Sound, Safe
  <2> QED
    BY <1>7, <1>9, <1>10, <2>1, OthersAnswered
<1>11. AnswerOk(a, m, asked[m]) \/ d = asked[m] => AnswerOk(t, m, asked[m])
  <2> PICK D : D = asked[m]
    OBVIOUS
  <2>1. CASE m \in Waived(t)
    BY <2>1 DEF AnswerOk
  <2>2. CASE ~Outdated(x) /\ r.ok /\ d = D
    BY <1>5, <1>7, <2>2 DEF AnswerOk
  <2>3. CASE ~Outdated(x) /\ r.ok /\ d # D
    <3>1. d.origin # "provisioned"
      BY <2>3 DEF Outdated
    <3>2. StaysPut(a, t, m) /\ Grows(a, t)
      BY <1>5, <1>7, <3>1 DEF Sound
    <3>3. Static(D) /\ SavedFor(a.saved, m, D) => SavedFor(t.saved, m, D)
      BY <1>8 DEF SavedGrows, Static
    <3> QED
      BY <2>3, <3>2, <3>3, StaysAnswered
  <2> QED
    BY <1>6, <2>1, <2>2, <2>3
<1>12. ASSUME NEW y \in Mac
       PROVE  MacOk(t, y) /\ (AnswerOk(a, y, asked[y]) \/ (x.mac = y /\ x.data = asked[y]) => AnswerOk(t, y, asked[y]))
  <2>1. CASE y = m
    BY <1>7, <1>11, <2>1
  <2>2. CASE y # m
    BY <1>10, <2>2
  <2> QED
    BY <2>1, <2>2
<1> QED
  BY <1>8, <1>12 DEF Tries

\* What holds of a while the saved entries q[i] of port p are tried, those of M so far.
Tried(a, s, M, q, F) ==
    /\ Good(a) /\ a.members = s.members /\ NotStale(a) = NotStale(s)
    /\ Typed(a) /\ Lost(s) \subseteq Lost(a)
    /\ \A y \in Mac : /\ MacOk(a, y)
                      /\ \/ AnswerOk(a, y, asked[y])
                         \/ \E i \in F \ M : q[i].mac = y /\ q[i].data = asked[y]
Triable(x, s, p) ==
    /\ x \in Saved(p) /\ (NotStale(s) /\ p = Tunnel => x \in SavedVxlan)
    /\ x.data.origin # "learn" \/ x.mac \in Lost(s)

LEMMA TriedNext ==
    ASSUME NEW s, NEW p \in Port, p \in s.members, NEW q, NEW F, \A i \in F : Triable(q[i], s, p),
           NEW M \in SUBSET F, NEW j \in M, NEW a, Tried(a, s, M \ {j}, q, F), NEW t, t = AddNext(a, q[j])
    PROVE  Tried(t, s, M, q, F)
<1> PICK x : x = q[j]
  OBVIOUS
<1>0. /\ Good(a) /\ a.members = s.members /\ NotStale(a) = NotStale(s) /\ Typed(a) /\ Lost(s) \subseteq Lost(a)
      /\ \A y \in Mac : MacOk(a, y)
  BY DEF Tried
<1>1. /\ x \in Saved(p) /\ (NotStale(a) /\ p = Tunnel => x \in SavedVxlan)
      /\ x.data.origin # "learn" \/ x.mac \in Lost(a)
  BY <1>0 DEF Triable
<1>2. t = AddNext(a, x) /\ p \in a.members
  BY <1>0
<1>3. Good(t) /\ t.members = a.members /\ NotStale(t) = NotStale(a)
  BY ONLY <1>0, <1>1, <1>2, p \in Port, AddNextGood
<1>4. Tries(a, t, x, asked)
  BY ONLY <1>0, <1>1, <1>2, p \in Port, AddNextTries
<1>5. ASSUME NEW y \in Mac
      PROVE  /\ MacOk(t, y)
             /\ \/ AnswerOk(t, y, asked[y])
                \/ \E i \in F \ M : q[i].mac = y /\ q[i].data = asked[y]
  <2>1. MacOk(t, y) /\ (AnswerOk(a, y, asked[y]) \/ (x.mac = y /\ x.data = asked[y]) => AnswerOk(t, y, asked[y]))
    BY <1>4 DEF Tries
  <2>2. \/ AnswerOk(a, y, asked[y])
        \/ \E i \in F \ (M \ {j}) : q[i].mac = y /\ q[i].data = asked[y]
    BY DEF Tried
  <2>3. CASE \E i \in F \ (M \ {j}) : q[i].mac = y /\ q[i].data = asked[y]
    BY <2>1, <2>3
  <2> QED
    BY <2>1, <2>2, <2>3
<1>6. Typed(t) /\ Lost(s) \subseteq Lost(t)
  BY <1>0, <1>4 DEF Tries
<1> QED
  BY <1>0, <1>3, <1>5, <1>6 DEF Tried

LEMMA TriedAll ==
    ASSUME NEW s, NEW p \in Port, p \in s.members, NEW q, NEW n \in Nat, NEW F, F = 1 .. n,
           \A i \in F : Triable(q[i], s, p), NEW z, Tried(z, s, {}, q, F), NEW h, SavedIs(h, z, q, F)
    PROVE  Tried(h[F], s, F, q, F)
<1>0. IsFiniteSet(F)
  BY FS_Interval, 1 \in Int, n \in Int
<1> PICK S : S = {M \in SUBSET F : Tried(h[M], s, M, q, F)}
  OBVIOUS
<1>1. \A M \in SUBSET F : h[M] = SavedValue(h, z, q, M)
  BY DEF SavedIs
<1>2. {} \in S
  <2>1. h[{}] = z
    BY <1>1 DEF SavedValue
  <2> QED
    BY <2>1
<1>3. ASSUME NEW M \in SUBSET F, M # {} PROVE Max(M) \in M
  BY <1>3, MaxExists
<1>4. ASSUME NEW M \in SUBSET F, M # {}, SavedRest(M) \in S PROVE M \in S
  <2> PICK a : a = h[SavedRest(M)]
    OBVIOUS
  <2> PICK j : j = Max(M)
    OBVIOUS
  <2>1. j \in M /\ SavedRest(M) = M \ {j}
    BY <1>3, <1>4 DEF SavedRest
  <2>2. Tried(a, s, M \ {j}, q, F)
    BY <1>4, <2>1
  <2>3. h[M] = AddNext(a, q[j])
    BY <1>1, <1>4 DEF SavedValue
  <2>4. Tried(h[M], s, M, q, F)
    BY <2>1, <2>2, <2>3, TriedNext
  <2> QED
    BY <2>4
<1>5. ASSUME NEW M \in SUBSET F, \A N \in SUBSET M : N # M => N \in S PROVE M \in S
  <2>1. CASE M = {}
    BY <1>2, <2>1
  <2>2. CASE M # {}
    <3>1. SavedRest(M) \in SUBSET M /\ SavedRest(M) # M
      BY <1>3, <2>2 DEF SavedRest
    <3> QED
      BY <1>4, <1>5, <2>2, <3>1
  <2> QED
    BY <2>1, <2>2
<1>6. S \in SUBSET (SUBSET F)
  OBVIOUS
<1>7. F \in S
  BY ONLY <1>0, <1>5, <1>6, FiniteInduct
<1> QED
  BY <1>7

\* The entries of p wait no more, they are about to be tried.
LEMMA NoneSaved ==
    ASSUME NEW s, Good(s), Lasting(s, asked), NEW p \in Port, NEW z, z = SetSaved(s, p, <<>>), NEW q, q = s.saved[p],
           NEW F, F = DOMAIN q
    PROVE  Tried(z, s, {}, q, F)
<1>0. Typed(s) /\ s \in State /\ \A y \in Mac : MacOk(s, y) /\ AnswerOk(s, y, asked[y])
  BY DEF Lasting, Typed
<1>1. Good(z) /\ z.members = s.members /\ NotStale(z) = NotStale(s)
  <2>1. <<>> \in Seq(Saved(p)) /\ <<>> \in Seq(SavedVxlan)
    OBVIOUS
  <2>2. Ledger(s, z, 0, 0, 0) /\ SameEnts(s, z)
    BY <2>1, OneSavedLedger DEF Good
  <2> QED
    BY <2>2 DEF Good, Ledger, SameEnts
<1>2. /\ SameButSaved(s, z) /\ Sound(s, z, {}) /\ z.saved[p] = <<>>
      /\ \A o \in Port \ {p} : z.saved[o] = s.saved[o]
  <2> PICK r : r = <<>>
    OBVIOUS
  <2>1. r \in Seq(Savable) /\ Ev(r) \subseteq Ev(s.saved[p]) /\ z = SetSaved(s, p, r)
    BY DEF Ev
  <2>2. /\ SameButSaved(s, z) /\ Sound(s, z, {}) /\ z.saved[p] = r
        /\ \A o \in Port \ {p} : z.saved[o] = s.saved[o]
    BY ONLY <1>0, <2>1, p \in Port, SetSavedFacts
  <2> QED
    BY <2>2
<1>3. ASSUME NEW y \in Mac
      PROVE  /\ MacOk(z, y)
             /\ AnswerOk(z, y, asked[y]) \/ \E i \in F : q[i].mac = y /\ q[i].data = asked[y]
  <2> PICK D : D = asked[y]
    OBVIOUS
  <2>1. MacOk(s, y) /\ AnswerOk(s, y, D) /\ Safe(s, z, y)
    BY <1>0, <1>2 DEF Sound
  <2>2. MacOk(z, y)
    BY <2>1 DEF Safe
  <2>3. z.ent = s.ent /\ z.bp = s.bp /\ Waived(z) = Waived(s)
    BY <1>2 DEF SameButSaved, Waived, Loose, Lost
  <2>4. CASE ~Static(D) \/ y \in Waived(s) \/ Cached(s.ent[y], D, s.bp)
    BY <2>2, <2>3, <2>4 DEF AnswerOk
  <2>5. CASE Static(D) /\ SavedFor(s.saved, y, D) /\ D.port # p
    <3>1. D.port \in Port \ {p}
      BY <2>5 DEF Static
    <3>2. SavedFor(z.saved, y, D)
      BY <1>2, <2>5, <3>1 DEF SavedFor
    <3> QED
      BY <2>2, <3>2 DEF AnswerOk
  <2>6. CASE Static(D) /\ SavedFor(s.saved, y, D) /\ D.port = p
    <3>1. \E i \in F : q[i] = [mac |-> y, data |-> D]
      BY <2>6 DEF SavedFor
    <3> QED
      BY <2>2, <3>1
  <2> QED
    BY <2>1, <2>4, <2>5, <2>6 DEF AnswerOk
<1>4. Typed(z) /\ Lost(s) \subseteq Lost(z)
  BY <1>2 DEF Sound, SameButSaved, Lost
<1> QED
  BY <1>1, <1>3, <1>4 DEF Tried

LEMMA AddSavedLasting ==
    ASSUME NEW s, Good(s), Lasting(s, asked), NEW p \in Port, p \in s.members
    PROVE  Lasting(AddSaved(s, p), asked)
<1> PICK q : q = s.saved[p]
  OBVIOUS
<1>0. q \in Seq(Saved(p)) /\ (NotStale(s) /\ p = Tunnel => q \in Seq(SavedVxlan))
  BY DEF Good, Fine, SavedOk
<1> PICK F : F = DOMAIN q
  OBVIOUS
<1> PICK n \in Nat : n = Len(q)
  BY <1>0, LenProperties
<1>1. F = 1 .. n
  BY <1>0, LenProperties
<1>2. ASSUME NEW i \in F PROVE Triable(q[i], s, p)
  <2>1. q[i] \in Saved(p) /\ (NotStale(s) /\ p = Tunnel => q[i] \in SavedVxlan)
    BY <1>0, <1>1, <1>2, ElementOfSeq
  <2>2. q[i].mac \in Mac
    BY <2>1 DEF Saved
  <2>3. MacOk(s, q[i].mac)
    BY <2>2 DEF Lasting
  <2>4. q[i].data.origin # "learn" \/ q[i].mac \in Lost(s)
    BY <1>2, <2>3 DEF MacOk, NotLearnt
  <2> QED
    BY <2>1, <2>4 DEF Triable
<1> PICK z : z = SetSaved(s, p, <<>>)
  OBVIOUS
<1>3. Tried(z, s, {}, q, F)
  BY NoneSaved
<1>4. \E h : SavedIs(h, z, q, F)
  BY <1>1, SavedFold
<1>5. \A h : SavedIs(h, z, q, F) => Tried(h[F], s, F, q, F)
  BY <1>1, <1>2, <1>3, TriedAll
<1>6. AddSaved(s, p) = (CHOOSE h : SavedIs(h, z, q, F))[F]
  BY DEF SavedIs, AddSaved, FoldLeft, MapThenFoldSet, SavedValue, SavedRest, AddNext, SetSaved
<1> PICK t : t = AddSaved(s, p)
  OBVIOUS
<1>7. Tried(t, s, F, q, F)
  BY <1>4, <1>5, <1>6
<1> QED
  BY <1>7 DEF Tried, Lasting

-----------------------------------------------------------------------------
(* Ports                                                                   *)

\* A port gets a bridge port while nothing about a MAC that can still be
\* vouched for is on the way.
LEMMA PortsSound ==
    ASSUME NEW s, Typed(s), NEW t \in State, t.ent = s.ent, t.asic = s.asic, t.events = s.events, t.saved = s.saved,
           t.excused = s.excused, PortNames(t), \A o \in Port : s.bp[o] # NoBp => t.bp[o] = s.bp[o],
           \A x \in Mac : Of(s.events, x) # {} => x \in Lost(s)
    PROVE  Sound(s, t, {})
<1>0. s \in State /\ s.bp \in [Port -> BridgePorts \cup {NoBp}] /\ t.bp \in [Port -> BridgePorts \cup {NoBp}]
  BY DEF Typed, State
<1>1. Typed(t)
  BY DEF Typed
<1>2. Grows(s, t) /\ Lost(t) = Lost(s) /\ Loose(t) = Loose(s) /\ Waived(t) = Waived(s)
  BY DEF Grows, Lost, Loose, Waived
<1>3. \A b \in Range(s.bp) : b = NoBp \/ b \in Range(t.bp)
  BY <1>0 DEF Range
<1>4. ASSUME NEW x \in Mac PROVE Safe(s, t, x)
  <2> PICK c, a, q : c = s.ent[x] /\ a = s.asic[x] /\ q = s.events
    OBVIOUS
  <2>1. c # NoEntry => c.bp # NoBp
    <3>1. c \in Entry \cup {NoEntry}
      BY <1>0 DEF State
    <3> QED
      BY <3>1, NoEntryFacts DEF Entry
  <2>2. ASSUME MacOk(s, x) PROVE MacOk(t, x)
    <3>1. CASE x \in Lost(s)
      BY <1>2, <3>1 DEF MacOk, Loose
    <3>2. CASE x \notin Lost(s)
      <4>1. Of(q, x) = {} /\ InStep(c, a, q, Range(s.bp), x) /\ NotLearnt(s.saved, x)
        BY <2>2, <3>2 DEF MacOk
      <4>2. InStep(c, a, q, Range(t.bp), x)
        BY <1>3, <2>1, <4>1 DEF InStep
      <4> QED
        BY <1>2, <2>2, <4>1, <4>2 DEF MacOk
    <3> QED
      BY <3>1, <3>2
  <2>3. ASSUME NEW d, Static(d), Cached(c, d, s.bp) PROVE Cached(c, d, t.bp)
    <3>1. d.port \in Port /\ c # NoEntry /\ c.bp = s.bp[d.port]
      BY <2>3 DEF Static, Cached
    <3>2. t.bp[d.port] = s.bp[d.port]
      BY <2>1, <3>1
    <3> QED
      BY <2>3, <3>2 DEF Cached
  <2> QED
    BY <2>2, <2>3 DEF Safe
<1> QED
  BY <1>1, <1>2, <1>4 DEF Sound

LEMMA CrossesSound ==
    ASSUME NEW s, Typed(s), NEW w, w = Crosses(s)
    PROVE  /\ Sound(s, w, {}) /\ w.saved = s.saved /\ w.bp = s.bp /\ w.members = s.members
           /\ \A x \in Mac : Of(w.events, x) # {} => x \in Lost(w)
<1> PICK e, M : e = "raced" /\ M = OnTheWay(s) \cap Mac
  OBVIOUS
<1>0. s \in State /\ e \in Excuses /\ M \in SUBSET (Mac \cup (Mac \X Nat))
  BY DEF Typed, Excuses, Numbered
<1>1. w = Excuse(s, e, M)
  BY DEF Crosses
<1>2. Excusing(s, w, e, M)
  BY <1>0, <1>1, ExcuseIs
<1>3. ASSUME NEW x \in Mac
      PROVE  Part(s, w, x, s.ent[x], s.asic[x]) /\ w.excused[e] = s.excused[e] \cup M
  BY <1>0, <1>1, ExcusePart
<1>4. /\ w \in State /\ w.ent = s.ent /\ w.asic = s.asic /\ w.events = s.events /\ w.bp = s.bp /\ w.members = s.members
      /\ w.saved = s.saved /\ Grows(s, w) /\ w.excused[e] = s.excused[e] \cup M
  BY <1>0, <1>2 DEF Excusing
<1>5. \A x \in Mac : Of(w.events, x) # {} => x \in Lost(w)
  <2> SUFFICES ASSUME NEW x \in Mac, Of(w.events, x) # {} PROVE x \in Lost(w)
    OBVIOUS
  <2>1. x \in M
    BY <1>4 DEF Of, Ev, OnTheWay
  <2> QED
    BY <1>4, <2>1 DEF Lost
<1>6. Typed(w)
  BY <1>4 DEF Typed, PortNames
<1>7. ASSUME NEW x \in Mac PROVE Safe(s, w, x)
  <2>1. Lost(s) \subseteq Lost(w) /\ Loose(s) \subseteq Loose(w) /\ Lost(w) \subseteq Loose(w)
    BY <1>4, GrowsFacts DEF Loose
  <2> QED
    BY <1>4, <2>1 DEF Safe, MacOk
<1> QED
  BY <1>4, <1>5, <1>6, <1>7 DEF Sound

LEMMA JoinedLasting ==
    ASSUME NEW s, NEW q, Lasting(s, q), NEW p \in Port, NEW b \in BridgePorts, b[1] = p, s.bp[p] # NoBp => b = s.bp[p],
           NEW t, t = Joined(Crosses(s), p, b)
    PROVE  Lasting(t, q)
<1> PICK w : w = Crosses(s)
  OBVIOUS
<1>0. Typed(s)
  BY DEF Lasting
<1>1. /\ Sound(s, w, {}) /\ w.saved = s.saved /\ w.bp = s.bp /\ w.members = s.members
      /\ \A x \in Mac : Of(w.events, x) # {} => x \in Lost(w)
  BY <1>0, CrossesSound
<1>2. Typed(w) /\ w \in State /\ PortNames(w)
  BY <1>1 DEF Sound, Typed
<1> PICK f : f = [w.bp EXCEPT ![p] = b]
  OBVIOUS
<1> PICK M : M = w.members \cup {p}
  OBVIOUS
<1>3. f \in [Port -> BridgePorts \cup {NoBp}] /\ M \in SUBSET Port /\ f[p] = b /\ \A o \in Port : o # p => f[o] = w.bp[o]
  BY <1>2 DEF State
<1>4. t = [w EXCEPT !.bp = f, !.members = M]
  BY <1>2 DEF Joined, State
<1>5. /\ t.ent = w.ent /\ t.asic = w.asic /\ t.events = w.events /\ t.saved = w.saved /\ t.excused = w.excused
      /\ t.bp = f
  BY <1>2, <1>4 DEF State
<1>6. t \in State
  <2> PICK u : u = [w EXCEPT !.bp = f]
    OBVIOUS
  <2>1. u \in State
    BY <1>2, <1>3 DEF State
  <2>2. t = [u EXCEPT !.members = M]
    BY <1>2, <1>4 DEF State
  <2> QED
    BY ZenonT(60), <1>3, <2>1, <2>2 DEF State
<1>7. PortNames(t) /\ \A o \in Port : w.bp[o] # NoBp => t.bp[o] = w.bp[o]
  BY <1>1, <1>2, <1>3, <1>5 DEF PortNames
<1>8. Sound(w, t, {})
  BY <1>1, <1>2, <1>5, <1>6, <1>7, PortsSound
<1>9. Sound(s, t, {}) /\ t.saved = s.saved
  BY <1>1, <1>5, <1>8, SoundTransitive
<1>10. Preserves(s, t)
  BY <1>9, SoundPreserves
<1> QED
  BY <1>10, PreservesLasting

LEMMA PartedSound ==
    ASSUME NEW s, Typed(s), NEW p, NEW t, t = Parted(s, p)
    PROVE  Sound(s, t, {}) /\ t.saved = s.saved /\ t.bp = s.bp
<1> PICK M : M = s.members \ {p}
  OBVIOUS
<1>0. s \in State
  BY DEF Typed
<1>1. t = [s EXCEPT !.members = M] /\ M \in SUBSET Port
  BY <1>0 DEF Parted, State
<1>2. t \in State
  BY <1>0, <1>1 DEF State
<1>3. /\ t.ent = s.ent /\ t.asic = s.asic /\ t.events = s.events /\ t.saved = s.saved /\ t.excused = s.excused
      /\ t.bp = s.bp
  BY <1>0, <1>1 DEF State
<1>4. Typed(t)
  BY <1>2, <1>3 DEF Typed, PortNames
<1>5. Grows(s, t) /\ Lost(t) = Lost(s) /\ Loose(t) = Loose(s)
  BY <1>3 DEF Grows, Lost, Loose
<1>6. \A x \in Mac : Safe(s, t, x)
  BY <1>3, <1>5 DEF Safe, MacOk
<1> QED
  BY <1>3, <1>4, <1>5, <1>6 DEF Sound

-----------------------------------------------------------------------------
(* Every action keeps the second invariant                                 *)

\* The second inductive invariant: the books of the first one, which handlers
\* rely on, and for every MAC that cache, ASIC and queue are in step (MacOk) and
\* that a static one asked for in FDB_TABLE is cached or saved (AnswerOk).
Durable == Inv /\ Lasting(Now, asked)

LEMMA DurableFacts ==
    ASSUME Durable
    PROVE  /\ Inv /\ Good(Now) /\ Lasting(Now, asked) /\ Typed(Now) /\ Now \in State
           /\ \A x \in Mac : MacOk(Now, x) /\ AnswerOk(Now, x, asked[x])
           /\ Now.events = events /\ Now.bp = bridge_port /\ Now.members = members /\ Now.asic = asic
BY NowFacts DEF Durable, Inv, Lasting, Typed

LEMMA BecomeLasting ==
    ASSUME NEW s, NEW q, Lasting(s, q), Become(s), asked' = q
    PROVE  Lasting(Now, asked)'
<1>1. s \in State
  BY DEF Lasting, Typed
<1>2. Now' = s
  BY <1>1 DEF Become, Now, State
<1> QED
  BY <1>2

LEMMA PreservesBecome ==
    ASSUME Lasting(Now, asked), NEW t, Preserves(Now, t), Become(t), UNCHANGED asked
    PROVE  Lasting(Now, asked)'
<1>1. Lasting(t, asked)
  BY PreservesLasting
<1> QED
  BY <1>1, BecomeLasting

LEMMA handleNotificationLasting ==
    ASSUME Durable, handleNotification
    PROVE  Lasting(Now, asked)'
<1> PICK s : s = Now
  OBVIOUS
<1>0. Good(s) /\ Typed(s) /\ s.events = events /\ events # <<>> /\ \A x \in Mac : MacOk(s, x)
  BY DurableFacts DEF handleNotification
<1> PICK t : t = Update(Heard(s), Head(s.events))
  OBVIOUS
<1>1. Preserves(s, t)
  BY <1>0, UpdatePreserves
<1>2. Become(t) /\ UNCHANGED asked
  BY <1>0 DEF handleNotification, Heard
<1> QED
  BY <1>1, <1>2, DurableFacts, PreservesBecome

LEMMA SetFdbActionLasting ==
    ASSUME Durable, NEW m \in Mac, NEW d \in Requests, NEW fits \in BOOLEAN, SetFdb(m, d, fits)
    PROVE  Lasting(Now, asked)'
<1> PICK s : s = Now
  OBVIOUS
<1>0. Good(s) /\ Lasting(s, asked)
  BY DurableFacts
<1> PICK w : w = Races(s, m)
  OBVIOUS
<1> PICK r : r = addFdbEntry(w, m, d, fits)
  OBVIOUS
<1> PICK t : t = IF r.ok /\ Own(d) THEN PeerRowGone(r.s, m) ELSE r.s
  OBVIOUS
<1> PICK q2 : q2 = IF d.origin = "provisioned" THEN [asked EXCEPT ![m] = IF r.ok THEN d ELSE NoEntry] ELSE asked
  OBVIOUS
<1>1. Lasting(t, q2)
  BY <1>0, SetFdbLasting
<1>2. Become(t) /\ asked' = q2
  BY DEF SetFdb, PeerRowGone, Asks
<1> QED
  BY <1>1, <1>2, BecomeLasting

LEMMA DelFdbActionLasting ==
    ASSUME Durable, NEW m \in Mac, NEW origin, NEW p \in Port, DelFdb(m, origin, p)
    PROVE  Lasting(Now, asked)'
<1> PICK s : s = Now
  OBVIOUS
<1>0. Lasting(s, asked)
  BY DurableFacts
<1> PICK w : w = Races(s, m)
  OBVIOUS
<1> PICK r : r = removeFdbEntry(w, m, origin, p)
  OBVIOUS
<1> PICK t : t = IF r.ok /\ origin = "mclag" THEN PeerRowGone(r.s, m) ELSE r.s
  OBVIOUS
<1> PICK q2 : q2 = IF origin = "provisioned" THEN [asked EXCEPT ![m] = NoEntry] ELSE asked
  OBVIOUS
<1>1. Lasting(t, q2)
  BY <1>0, DelFdbLasting
<1>2. Become(t) /\ asked' = q2
  BY DEF DelFdb, PeerRowGone, Asks
<1> QED
  BY <1>1, <1>2, BecomeLasting

\* The bridge port that a port gets.
LEMMA addBridgePortType ==
    ASSUME Good(Now), NEW p \in Port, NEW b \in addBridgePort(p)
    PROVE  b \in BridgePorts /\ b[1] = p /\ (Now.bp[p] # NoBp => b = Now.bp[p])
<1>0. Now.bp = bridge_port
  BY NowFacts
<1>1. CASE bridge_port[p] # NoBp
  <2>1. b = bridge_port[p]
    BY <1>1 DEF addBridgePort
  <2>2. bridge_port[p] \in BridgePorts
    BY <1>1, NowFacts
  <2>3. bridge_port[p][1] = p
    BY <1>0, <1>1 DEF Good, Fine, PortsOk
  <2> QED
    BY <1>0, <2>1, <2>2, <2>3
<1>2. CASE bridge_port[p] = NoBp
  <2>1. \E n \in 1 .. MaxBridge : b = <<p, n>>
    BY <1>2 DEF addBridgePort
  <2>2. \A n \in 1 .. MaxBridge : n \in Nat
    BY BoundsAssumption
  <2> QED
    BY <1>0, <1>2, <2>1, <2>2 DEF BridgePorts
<1> QED
  BY <1>1, <1>2

LEMMA AddVlanMemberLasting ==
    ASSUME Durable, NEW p \in Port, AddVlanMember(p)
    PROVE  Lasting(Now, asked)'
<1> PICK s : s = Now
  OBVIOUS
<1>0. Good(s) /\ Lasting(s, asked)
  BY DurableFacts
<1>1. PICK b \in addBridgePort(p) : Become(AddSaved(Joined(Crosses(s), p, b), p))
  BY Zenon DEF AddVlanMember, Joined
<1>2. b \in BridgePorts /\ b[1] = p /\ (s.bp[p] # NoBp => b = s.bp[p])
  BY <1>0, addBridgePortType
<1> PICK j : j = Joined(Crosses(s), p, b)
  OBVIOUS
<1>3. Good(j) /\ p \in j.members
  <2>1. Good(Crosses(s)) /\ Crosses(s).bp = s.bp
    BY <1>0, CrossesGood
  <2> QED
    BY <1>2, <2>1, JoinedGood
<1>4. Lasting(j, asked)
  BY <1>0, <1>2, JoinedLasting
<1>5. Lasting(AddSaved(j, p), asked)
  BY <1>3, <1>4, AddSavedLasting
<1>6. Become(AddSaved(j, p)) /\ asked' = asked
  BY <1>1 DEF AddVlanMember
<1> QED
  BY <1>5, <1>6, BecomeLasting

LEMMA RemoveVlanMemberLasting ==
    ASSUME Durable, NEW p \in Port, RemoveVlanMember(p)
    PROVE  Lasting(Now, asked)'
<1> PICK s : s = Now
  OBVIOUS
<1>0. Typed(s) /\ s \in State
  BY DurableFacts
<1> PICK v : v = Parted(s, p)
  OBVIOUS
<1>1. Sound(s, v, {}) /\ v.saved = s.saved /\ Typed(v)
  BY <1>0, PartedSound DEF Sound
<1> PICK b : b = s.bp[p]
  OBVIOUS
<1>2. b \in BridgePorts \cup {NoBp}
  BY <1>0 DEF State
<1> PICK u : u = flushFDBEntries(v, b)
  OBVIOUS
<1>3. Sound(v, u, {}) /\ u.saved = v.saved /\ Typed(u)
  BY <1>1, <1>2, flushFDBEntriesSound DEF Sound
<1> PICK t : t = removeBridgePort(u, p)
  OBVIOUS
<1>4. Sound(u, t, {}) /\ t.saved = u.saved
  BY <1>3, removeBridgePortSound
<1>5. Sound(s, u, {}) /\ Sound(s, t, {})
  BY <1>1, <1>3, <1>4, SoundTransitive
<1>6. Preserves(s, u) /\ Preserves(s, t)
  BY <1>1, <1>3, <1>4, <1>5, SoundPreserves
<1>7. (Become(u) \/ Become(t)) /\ UNCHANGED asked
  BY DEF RemoveVlanMember, LeavesVlan, Parted
<1> QED
  BY <1>6, <1>7, DurableFacts, PreservesBecome

\* A flush of one bridge port or of all.
LEMMA FlushLasting ==
    ASSUME Durable, NEW b \in BridgePorts \cup {NoBp}, Become(flushFDBEntries(Now, b)), UNCHANGED asked
    PROVE  Lasting(Now, asked)'
<1> PICK t : t = flushFDBEntries(Now, b)
  OBVIOUS
<1>1. Sound(Now, t, {}) /\ t.saved = Now.saved
  BY DurableFacts, flushFDBEntriesSound
<1>2. Preserves(Now, t)
  BY <1>1, SoundPreserves
<1> QED
  BY <1>2, DurableFacts, PreservesBecome

LEMMA SameLasting ==
    ASSUME Durable, Become(Now), UNCHANGED asked
    PROVE  Lasting(Now, asked)'
BY DurableFacts, BecomeLasting

LEMMA PortDownLasting ==
    ASSUME Durable, NEW p \in Phy, PortDown(p)
    PROVE  Lasting(Now, asked)'
<1> PICK b : b = bridge_port[p]
  OBVIOUS
<1>1. b \in BridgePorts \cup {NoBp}
  <2>1. Good(Now) /\ p \in Port
    BY DurableFacts DEF Port
  <2> QED
    BY <2>1, NowFacts
<1>2. (Become(Now) \/ Become(flushFDBEntries(Now, b))) /\ UNCHANGED asked
  BY DEF PortDown
<1> QED
  BY <1>1, <1>2, FlushLasting, SameLasting

LEMMA PortUpLasting ==
    ASSUME Durable, NEW p \in Phy, PortUp(p)
    PROVE  Lasting(Now, asked)'
<1>1. Become(Now) /\ UNCHANGED asked
  BY DEF PortUp, Become, Now
<1> QED
  BY <1>1, SameLasting

LEMMA StpFlushLasting ==
    ASSUME Durable, StpFlush
    PROVE  Lasting(Now, asked)'
<1> PICK t : t = flushFdbByVlan(Now)
  OBVIOUS
<1>1. Sound(Now, t, {}) /\ t.saved = Now.saved
  BY DurableFacts, flushFdbByVlanSound
<1>2. Preserves(Now, t)
  BY <1>1, SoundPreserves
<1>3. Become(t) /\ UNCHANGED asked
  BY DEF StpFlush
<1> QED
  BY <1>2, <1>3, DurableFacts, PreservesBecome

\* The bridge port of a member of the VLAN.
LEMMA MemberBridgePort ==
    ASSUME Good(Now), NEW p \in Phy, p \in members
    PROVE  bridge_port[p] \in PhyBps /\ bridge_port[p] \in Range(Now.bp)
<1>1. Now \in State /\ Now.bp = bridge_port /\ bridge_port[p] \in BridgePorts /\ bridge_port[p][1] = p /\ p \in Port
  BY NowFacts
<1>2. bridge_port[p] \in PhyBps
  BY <1>1 DEF BridgePorts, PhyBps
<1>3. DOMAIN Now.bp = Port
  BY <1>1 DEF State
<1> QED
  BY <1>1, <1>2, <1>3 DEF Range

LEMMA LearnsLasting ==
    ASSUME Durable, NEW m \in Mac, NEW p \in Phy, Learns(m, p)
    PROVE  Lasting(Now, asked)'
<1> PICK b : b = bridge_port[p]
  OBVIOUS
<1>0. Good(Now) /\ Typed(Now) /\ p \in members /\ Now.asic[m] = NoEntry
  BY DurableFacts DEF Learns
<1>1. b \in PhyBps /\ b \in Range(Now.bp)
  BY <1>0, MemberBridgePort
<1> PICK t : t = Notify(Create(Now, m, b, "dynamic", FALSE), Event("LEARNED", m, b))
  OBVIOUS
<1>2. Preserves(Now, t)
  BY <1>0, <1>1, LearnsPreserves
<1>3. Become(t) /\ UNCHANGED asked
  BY DEF Learns
<1> QED
  BY <1>2, <1>3, DurableFacts, PreservesBecome

LEMMA MovesLasting ==
    ASSUME Durable, NEW m \in Mac, NEW p \in Phy, Moves(m, p)
    PROVE  Lasting(Now, asked)'
<1> PICK b : b = bridge_port[p]
  OBVIOUS
<1>0. /\ Good(Now) /\ Typed(Now) /\ p \in members /\ Now.asic[m] # NoEntry /\ Now.asic[m].bp # b
      /\ Now.asic[m].sai = "dynamic" \/ Now.asic[m].allow
  BY DurableFacts DEF Moves
<1>1. b \in PhyBps /\ b \in Range(Now.bp)
  BY <1>0, MemberBridgePort
<1> PICK t : t = Notify(SetAttributes(Now, m, b, "dynamic", FALSE), Event("MOVE", m, b))
  OBVIOUS
<1>2. Preserves(Now, t)
  BY <1>0, <1>1, MovesPreserves
<1>3. Become(t) /\ UNCHANGED asked
  BY DEF Moves
<1> QED
  BY <1>2, <1>3, DurableFacts, PreservesBecome

LEMMA AgesLasting ==
    ASSUME Durable, NEW m \in Mac, Ages(m)
    PROVE  Lasting(Now, asked)'
<1>0. Typed(Now) /\ Now.asic = asic /\ Now.asic[m] # NoEntry
  BY DurableFacts DEF Ages
<1> PICK e : e = Event("AGED", m, Now.asic[m].bp)
  OBVIOUS
<1> PICK t : t = Notify(RemoveEntry(Reorders(Now, m, e), m), e)
  OBVIOUS
<1>1. Preserves(Now, t)
  BY <1>0, AgesPreserves
<1>2. Become(t) /\ UNCHANGED asked
  BY <1>0 DEF Ages
<1> QED
  BY <1>1, <1>2, DurableFacts, PreservesBecome

LEMMA InitLasting ==
    ASSUME Init
    PROVE  Lasting(Now, asked)
<1> PICK s : s = Now
  OBVIOUS
<1>1. /\ s.ent = [m \in Mac |-> NoEntry] /\ s.saved = [p \in Port |-> <<>>]
      /\ s.asic = [m \in Mac |-> NoEntry] /\ s.events = <<>> /\ asked = [m \in Mac |-> NoEntry]
  BY DEF Now, Init
<1>2. s \in State /\ PortNames(s)
  BY InitInv DEF Inv, Good, Fine, PortsOk, PortNames
<1>3. Typed(s)
  BY <1>1, <1>2 DEF Typed, Distinct
<1>4. asked \in AskedFor
  BY <1>1 DEF AskedFor
<1>5. ASSUME NEW x \in Mac PROVE MacOk(s, x) /\ AnswerOk(s, x, asked[x])
  <2> PICK q : q = s.events
    OBVIOUS
  <2>1. s.ent[x] = NoEntry /\ s.asic[x] = NoEntry /\ asked[x] = NoEntry
    BY <1>1
  <2>2. Of(q, x) = {}
    BY <1>1 DEF Of, Ev
  <2>3. InStep(NoEntry, NoEntry, q, Range(s.bp), x)
    BY <2>2 DEF InStep, KindOk, Idle
  <2>4. Fixed(NoEntry, NoEntry, q, x)
    BY DEF Fixed, Pinned
  <2>5. NotLearnt(s.saved, x)
    BY <1>1 DEF NotLearnt
  <2>6. AnswerOk(s, x, NoEntry)
    BY NothingAsked
  <2> QED
    BY <2>1, <2>3, <2>4, <2>5, <2>6 DEF MacOk
<1> QED
  BY <1>3, <1>4, <1>5 DEF Lasting

LEMMA NextLasting ==
    ASSUME Durable, Next
    PROVE  Lasting(Now, asked)'
<1>1. CASE handleNotification
  BY <1>1, handleNotificationLasting
<1>2. CASE AsicStep
  BY <1>2, AgesLasting, LearnsLasting, MovesLasting DEF AsicStep
<1>3. CASE NotifyingChange
  <2>1. Range(bridge_port) \subseteq BridgePorts \cup {NoBp}
    BY DurableFacts DEF State, Range
  <2>2. ASSUME NEW b \in BridgePorts \cup {NoBp}, FlushRequest(b) PROVE Lasting(Now, asked)'
    BY <2>2, FlushLasting DEF FlushRequest
  <2>3. NoBp \in BridgePorts \cup {NoBp}
    OBVIOUS
  <2> QED
    BY <1>3, <2>1, <2>2, <2>3, RemoveVlanMemberLasting, PortDownLasting, StpFlushLasting DEF NotifyingChange
<1>4. CASE Change
  BY <1>4, PortUpLasting, AddVlanMemberLasting, SetFdbActionLasting, DelFdbActionLasting DEF Change
<1> QED
  BY <1>1, <1>2, <1>3, <1>4 DEF Next

LEMMA UnchangedLasting ==
    ASSUME Durable, UNCHANGED vars
    PROVE  Lasting(Now, asked)'
<1>1. Become(Now) /\ UNCHANGED asked
  BY DEF vars, Become, Now
<1> QED
  BY <1>1, SameLasting

LEMMA DurableAlways == Spec => []Durable
<1>1. Init => Durable
  BY InitInv, InitLasting DEF Durable
<1>2. Durable /\ [Next]_vars => Durable'
  BY NextInv, UnchangedInv, NextLasting, UnchangedLasting DEF Durable
<1> QED
  BY <1>1, <1>2, PTL DEF Spec

LEMMA DurableAgreement ==
    ASSUME Durable
    PROVE  Agreement
<1> PICK s : s = Now
  OBVIOUS
<1>1. /\ s.ent = m_entries /\ s.bp = bridge_port /\ s.saved = saved_fdb_entries
      /\ s.asic = asic /\ s.events = events /\ s.excused = excused
  BY DEF Now
<1>2. s \in State /\ \A x \in Mac : MacOk(s, x)
  BY DurableFacts
<1>3. Excused({"ghosts", "raced", "reordered", "retyped"}) = Lost(s)
  BY <1>1 DEF Excused, Numbered, Lost
<1>4. ASSUME NEW x \in Mac, x \notin Lost(s)
      PROVE  InStep(m_entries[x], asic[x], events, Range(bridge_port), x)
  BY <1>1, <1>2, <1>4 DEF MacOk
<1>5. ASSUME NEW x \in Mac, x \notin Lost(s), m_entries[x] # NoEntry, asic[x] = NoEntry
      PROVE  \E i \in DOMAIN events : events[i].mac \in {x, AnyMac}
  <2>1. CASE Of(events, x) # {}
    BY <2>1 DEF Of, Ev
  <2>2. CASE Of(events, x) = {}
    <3>1. Going(m_entries[x], events)
      BY <1>4, <1>5, <2>2 DEF InStep, Idle
    <3>2. PICK f \in Ev(events) : f.type = "FLUSHED"
      BY <3>1 DEF Going
    <3>3. events \in Seq(Notifications)
      BY <1>1, <1>2 DEF State
    <3>4. \A i \in DOMAIN events : events[i] \in Notifications
      BY <3>3, ElementOfSeq, LenProperties
    <3>5. f.mac = AnyMac
      BY <3>2, <3>4 DEF Ev, Notifications
    <3> QED
      BY <3>2, <3>5 DEF Ev
  <2> QED
    BY <2>1, <2>2
<1>6. NoGhosts
  BY <1>3, <1>5 DEF NoGhosts, Entries
<1>7. ASSUME events = <<>>, NEW x \in Mac, x \notin Lost(s)
      PROVE  /\ m_entries[x] = NoEntry <=> asic[x] = NoEntry
             /\ asic[x] # NoEntry => asic[x].bp = m_entries[x].bp /\ asic[x].sai = m_entries[x].sai
  <2>1. Ev(events) = {}
    BY <1>7 DEF Ev
  <2>2. Of(events, x) = {} /\ ~Going(m_entries[x], events)
    BY <2>1 DEF Of, Going
  <2>3. Idle(m_entries[x], asic[x], events)
    BY <1>4, <1>7, <2>2 DEF InStep
  <2> QED
    BY <2>2, <2>3 DEF Idle
<1> QED
  BY <1>3, <1>6, <1>7 DEF Agreement

LEMMA DurableStaticSurvives ==
    ASSUME Durable
    PROVE  StaticSurvives
<1> PICK s : s = Now
  OBVIOUS
<1>1. /\ s.ent = m_entries /\ s.bp = bridge_port /\ s.saved = saved_fdb_entries /\ s.excused = excused
  BY DEF Now
<1>2. Excused({"ghosts", "raced", "reordered", "retyped", "dropped", "superseded", "movable"}) = Waived(s)
  BY <1>1 DEF Excused, Numbered, Waived, Loose, Lost
<1>3. ASSUME NEW m \in Mac, asked[m].origin = "provisioned", asked[m].type = "static", m \notin Waived(s)
      PROVE  Kept(m)
  <2> PICK d : d = asked[m]
    OBVIOUS
  <2>1. AnswerOk(s, m, d) /\ d \in Requests \cup {NoEntry}
    BY DurableFacts DEF Lasting, AskedFor
  <2>2. Static(d)
    <3>1. d \in Requests
      BY <1>3, <2>1, NoEntryFacts
    <3> QED
      BY <1>3, <3>1, RequestsAssumption DEF Static
  <2>3. Cached(m_entries[m], d, bridge_port) \/ SavedFor(saved_fdb_entries, m, d)
    BY <1>1, <1>3, <2>1, <2>2 DEF AnswerOk
  <2> QED
    BY <2>3 DEF Cached, SavedFor, Kept
<1> QED
  BY <1>2, <1>3 DEF StaticSurvives, StaticAsked

\* The cache of FdbOrch and the FDB of the ASIC agree, although each changes
\* while messages about earlier changes of the other are on the way: as long as
\* nothing about a MAC crossed a request, a flush or a change of a port, an entry
\* that left the ASIC leaves the cache with a notification still to come, and once
\* all are handled both sides have the same MACs, at the same bridge port and
\* with the same type; for any number of MACs, ports and notifications.
THEOREM FdbAgreement == Spec => []Agreement
BY DurableAlways, DurableAgreement, PTL

\* A static MAC of FDB_TABLE is in the cache at the port it was asked for, or saved
\* until that port joins the VLAN, whatever is learnt, aged, moved, flushed or
\* asked for by other origins meanwhile, but in the cases StaticSurvives names.
THEOREM FdbStaticSurvives == Spec => []StaticSurvives
BY DurableAlways, DurableStaticSurvives, PTL
=============================================================================
