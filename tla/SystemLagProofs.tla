-------------------------- MODULE SystemLagProofs --------------------------
(***************************************************************************)
(* Proofs about SystemLag, for any number of line cards, LAGs, ids and     *)
(* cards of the previous image: no two LAGs share an id, the free list is  *)
(* sound and complete, no id is kept for nothing, and a row is published   *)
(* with the id its LAG has.                                                *)
(***************************************************************************)
EXTENDS SystemLag, WellFoundedInduction, SequenceTheorems, FiniteSetTheorems, TLAPS

Event == [op : {"SET", "DEL"}, lag : Lag]
Busy == [at : Steps, lag : Lag, id : Id]

\* The types of the state.
Types ==
  /\ free \in Seq(Id) /\ idSet \in SUBSET Id /\ oldHeld \in SUBSET Id
  /\ idTable \in [Lag -> Id \cup {None}] /\ rows \in [Lag -> Id \cup {None}]
  /\ lags \in [Card -> [Lag -> Id \cup {None}]]
  /\ inUse \in [Card -> SUBSET Lag]
  /\ toSync \in [Card -> [Lag -> Seq(Task)]]
  /\ events \in [Card -> Seq(Event)]
  /\ pc \in [Card -> Busy \cup {Idle}]
  /\ wanted \in SUBSET Lag /\ full \in BOOLEAN /\ dropped \in SUBSET Id
  /\ orphaned \in SUBSET Lag /\ excused \in SUBSET (Card \X Lag)

\* The tasks of a LAG: a DEL, a SET, or a DEL and the SET behind it.
Shape(q) == Len(q) <= 2 /\ (Len(q) = 2 => q[1].op = "DEL" /\ q[2].op = "SET")
Shapes == \A c \in Card, l \in Lag : Shape(toSync[c][l])

\* A card is in the middle of a LAG of its own only.
OwnWork == \A c \in Card : pc[c] # Idle => Owner[pc[c].lag] = c

\* The list, the table and the set of lagids.lua.
FreeOnce == \A i, j \in 1 .. Len(free) : free[i] = free[j] => i = j
FreeNotTaken == \A i \in 1 .. Len(free) : \A l \in Lag : free[i] # idTable[l]
OneEach == \A k, l \in Lag : k # l /\ idTable[k] # None => idTable[k] # idTable[l]
SetExact == /\ \A l \in Lag : idTable[l] # None => idTable[l] \in idSet /\ idTable[l] \notin oldHeld
            /\ oldHeld \subseteq idSet
            /\ \A x \in idSet : x \in oldHeld \/ \E l \in Lag : idTable[l] = x
Listed(x) == \E i \in 1 .. Len(free) : free[i] = x
NothingMissing == /\ \A x \in Id : x \notin idSet => Listed(x) \/ x \in dropped
                  /\ \A x \in oldHeld : Listed(x) \/ x \in dropped
                  /\ OldLags = 0 => dropped = {} /\ oldHeld = {}

Ids == FreeOnce /\ FreeNotTaken /\ OneEach /\ SetExact /\ NothingMissing

\* A LAG on the card that owns it: between requests the row tells its id,
\* which is the one of the table; in the middle of one it depends on how far
\* the card is.
OwnLag(l) ==
  LET c == Owner[l]
      id == lags[c][l]
      at == pc[c].at
  IN  /\ pc[c].lag # l =>
           /\ rows[l] = id
           /\ id # None => idTable[l] = id
           /\ idTable[l] # None /\ id = None =>
                \/ toSync[c][l] # <<>> \/ l \in orphaned \/ <<c, l>> \in excused
      /\ pc[c].lag = l =>
           /\ toSync[c][l] # <<>>
           /\ at = "allocated" => idTable[l] = pc[c].id /\ id = None /\ rows[l] = None
           /\ at = "created" => idTable[l] = pc[c].id /\ id = pc[c].id /\ rows[l] = None
           /\ at = "removed" => idTable[l] = pc[c].id /\ id = None
           /\ at = "freed" => idTable[l] = None /\ id = None
OwnLags == \A l \in Lag : OwnLag(l)

IInv == Types /\ Shapes /\ OwnWork /\ Ids /\ OwnLags
-----------------------------------------------------------------------------
(* The operators of the model                                              *)

\* A set of positions that is not empty has a first one.
LEMMA MinOfPositions ==
  ASSUME NEW T \in SUBSET Nat, T # {}
  PROVE  /\ Min(T) \in T
         /\ \A i \in T : Min(T) <= i
<1>1. PICK x \in T : \A y \in T : ~(<<y, x>> \in OpToRel(<, Nat))
  BY WFMin, NatLessThanWellFounded, Zenon
<1>a. \A y \in T : y \in Nat /\ ~(y < x) BY <1>1 DEF OpToRel
<1>2. \A y \in T : x <= y BY <1>a
<1>3. Min(T) \in T /\ \A y \in T : Min(T) <= y
  BY <1>2, Zenon DEF Min
<1> QED BY <1>3

\* LREM of what is not listed.
LEMMA LremNothing ==
  ASSUME NEW list, NEW id, id \notin Range(list)
  PROVE  lrem(list, id) = list
BY Zenon DEF lrem

\* Ids are positive, so neither None nor the -1 of a failed allocation.
LEMMA IdFacts == /\ None \notin Id /\ -1 \notin Id /\ None # -1
                 /\ \A x \in Id : x > 0 /\ x \in Nat
BY LagAssumption DEF Id, None

\* An idle line card works on no LAG, a busy one on some LAG.
LEMMA IdleFacts == Idle.lag \notin Lag /\ Idle.at = "idle" /\ \A b \in Busy : b # Idle /\ b.lag \in Lag
BY LagAssumption DEF Idle, Busy, Steps

\* Every LAG has a line card that owns it.
LEMMA OwnerType == \A l \in Lag : Owner[l] \in Card
BY LagAssumption

\* addToSync keeps the shape of the tasks of a LAG.
LEMMA AddToSyncShape ==
  ASSUME NEW q \in Seq(Task), Shape(q), NEW t \in Task, NEW p, p = addToSync(q, t)
  PROVE  p \in Seq(Task) /\ Shape(p) /\ p # <<>>
<1>0. t.op \in {"SET", "DEL"} BY DEF Task
<1>1. CASE t.op = "DEL" \/ q = <<>> \/ q[1].op = "SET"
  <2>1. p = <<t>> BY <1>1 DEF addToSync
  <2> QED BY <2>1 DEF Shape
<1>2. CASE ~(t.op = "DEL" \/ q = <<>> \/ q[1].op = "SET")
  <2>1. p = <<q[1], t>> BY <1>2 DEF addToSync
  <2>2. Len(q) \in Nat \ {0} BY <1>2, EmptySeq
  <2>3. PICK n \in Nat : n = Len(q) /\ n >= 1 BY <2>2
  <2>4. 1 \in 1 .. Len(q) BY <2>3
  <2>5. q[1] \in Task BY <2>4, ElementOfSeq
  <2>6. q[1].op = "DEL" /\ t.op = "SET" BY <2>5, <1>0, <1>2 DEF Task
  <2>7. p \in Seq(Task) BY <2>1, <2>5
  <2>8. Len(p) = 2 /\ p[1] = q[1] /\ p[2] = t /\ p # <<>> BY <2>1
  <2> QED BY <2>6, <2>7, <2>8 DEF Shape
<1> QED BY <1>1, <1>2

\* So does erasing one of them.
LEMMA RemoveAtShape ==
  ASSUME NEW q \in Seq(Task), Shape(q), NEW i \in 1 .. Len(q), NEW p, p = RemoveAt(q, i)
  PROVE  p \in Seq(Task) /\ Shape(p)
<1>1. PICK n \in Nat : n = Len(q) BY LenProperties
<1>2. n <= 2 /\ i \in 1 .. n BY <1>1 DEF Shape
<1>3. \A j \in 1 .. n : q[j] \in Task BY <1>1, ElementOfSeq
<1> DEFINE a == SubSeq(q, 1, i - 1)
           b == SubSeq(q, i + 1, n)
<1>4. a \in Seq(Task) /\ Len(a) = i - 1
  <2>1. \A j \in 1 .. i - 1 : q[j] \in Task BY <1>2, <1>3
  <2>2. 1 \in Int /\ i - 1 \in Int BY <1>2
  <2>3. a \in Seq(Task) /\ Len(a) = IF 1 <= i - 1 THEN (i - 1) - 1 + 1 ELSE 0
    BY <2>1, <2>2, SubSeqProperties
  <2> QED BY <2>3, <1>2
<1>5. b \in Seq(Task) /\ Len(b) = n - i
  <2>1. \A j \in i + 1 .. n : q[j] \in Task BY <1>2, <1>3
  <2>2. i + 1 \in Int /\ n \in Int BY <1>2
  <2>3. b \in Seq(Task) /\ Len(b) = IF i + 1 <= n THEN n - (i + 1) + 1 ELSE 0
    BY <2>1, <2>2, SubSeqProperties
  <2> QED BY <2>3, <1>2
<1>6. p = a \o b BY <1>1 DEF RemoveAt
<1> HIDE DEF a, b
<1>7. p \in Seq(Task) /\ Len(p) = Len(a) + Len(b) BY <1>4, <1>5, <1>6, ConcatProperties
<1>8. PICK m \in Nat : m = Len(p) /\ m <= 1
  <2>1. Len(p) \in Nat BY <1>7, LenProperties
  <2> QED BY <2>1, <1>2, <1>4, <1>5, <1>7
<1>9. Shape(p) BY <1>8 DEF Shape
<1> QED BY <1>7, <1>9

\* One LAG's tasks on one card change.
TasksBecome(c, l, p) == toSync' = [toSync EXCEPT ![c][l] = p]

\* The other tasks stay as they are.
LEMMA SyncFacts ==
  ASSUME Types, Shapes, NEW c \in Card, NEW l \in Lag, NEW p \in Seq(Task), Shape(p),
         TasksBecome(c, l, p)
  PROVE  /\ toSync' \in [Card -> [Lag -> Seq(Task)]]
         /\ Shapes'
         /\ toSync'[c][l] = p
         /\ \A d \in Card, k \in Lag : d # c \/ k # l => toSync'[d][k] = toSync[d][k]
<1>1. toSync \in [Card -> [Lag -> Seq(Task)]] BY DEF Types
<1>2. toSync'[c] = [toSync[c] EXCEPT ![l] = p] /\ \A d \in Card \ {c} : toSync'[d] = toSync[d] BY <1>1 DEF TasksBecome
<1>3. toSync'[c] \in [Lag -> Seq(Task)] BY <1>1, <1>2
<1>4. toSync' \in [Card -> [Lag -> Seq(Task)]] BY <1>1, <1>2, <1>3 DEF TasksBecome
<1>5. toSync'[c][l] = p BY <1>1, <1>2
<1>6. \A d \in Card, k \in Lag : d # c \/ k # l => toSync'[d][k] = toSync[d][k] BY <1>1, <1>2
<1>7. Shapes' BY <1>5, <1>6 DEF Shapes
<1> QED BY <1>4, <1>5, <1>6, <1>7

\* Erasing a task leaves the tasks of other LAGs alone.
LEMMA EraseFacts ==
  ASSUME Types, Shapes, NEW c \in Card, NEW l \in Lag, NEW i \in 1 .. Len(toSync[c][l]), EraseSync(c, l, i)
  PROVE  /\ toSync' \in [Card -> [Lag -> Seq(Task)]]
         /\ Shapes'
         /\ \A d \in Card, k \in Lag : d # c \/ k # l => toSync'[d][k] = toSync[d][k]
<1>1. PICK p : p = RemoveAt(toSync[c][l], i) OBVIOUS
<1>2. toSync[c][l] \in Seq(Task) /\ Shape(toSync[c][l]) BY DEF Types, Shapes
<1>3. p \in Seq(Task) /\ Shape(p) BY <1>1, <1>2, RemoveAtShape
<1>4. TasksBecome(c, l, p) BY <1>1 DEF EraseSync, TasksBecome
<1> QED BY <1>3, <1>4, SyncFacts

\* The first task is there when there is any.
LEMMA FirstTask ==
  ASSUME Types, NEW c \in Card, NEW l \in Lag, toSync[c][l] # <<>>
  PROVE  1 \in 1 .. Len(toSync[c][l])
<1>1. toSync[c][l] \in Seq(Task) BY DEF Types
<1>2. Len(toSync[c][l]) \in Nat \ {0} BY <1>1, EmptySeq
<1>3. PICK n \in Nat : n = Len(toSync[c][l]) /\ n >= 1 BY <1>2
<1> QED BY <1>3

\* A task that is due is there, and its line card is idle.
LEMMA DueFacts ==
  ASSUME Types, NEW c \in Card, NEW l \in Lag, NEW i, Due(c, l, i)
  PROVE  i \in 1 .. Len(toSync[c][l]) /\ pc[c] = Idle /\ toSync[c][l] # <<>> /\ toSync[c][l][i] \in Task
<1>1. toSync[c][l] \in Seq(Task) BY DEF Types
<1>2. i \in 1 .. Len(toSync[c][l]) BY <1>1, LenProperties DEF Due
<1>3. toSync[c][l] # <<>> BY DEF Due
<1>4. toSync[c][l][i] \in Task BY <1>1, <1>2, ElementOfSeq
<1> QED BY <1>2, <1>3, <1>4 DEF Due
-----------------------------------------------------------------------------
(* What a step leaves alone                                                *)

LEMMA IdsFrame == ASSUME Ids, UNCHANGED <<free, idTable, idSet, oldHeld, dropped>> PROVE Ids'
BY DEF Ids, FreeOnce, FreeNotTaken, OneEach, SetExact, NothingMissing, Listed

\* A step that does not touch LAG k on the card that owns it.
LEMMA OwnLagFrame ==
  ASSUME NEW k \in Lag, OwnLag(k),
         rows'[k] = rows[k], idTable'[k] = idTable[k],
         lags'[Owner[k]][k] = lags[Owner[k]][k],
         toSync[Owner[k]][k] # <<>> => toSync'[Owner[k]][k] # <<>>,
         k \in orphaned => k \in orphaned',
         <<Owner[k], k>> \in excused => <<Owner[k], k>> \in excused',
         \/ pc'[Owner[k]] = pc[Owner[k]]
         \/ pc[Owner[k]].lag # k /\ pc'[Owner[k]].lag # k
  PROVE  OwnLag(k)'
BY DEF OwnLag
-----------------------------------------------------------------------------
(* lagids.lua                                                              *)

\* "add" for a LAG without an id, when a listed one is not in the set: the
\* id was nobody's, and the ids popped before it are used by old cards.
LEMMA AddFound ==
  ASSUME Types, Ids, NEW l \in Lag, idTable[l] = None, UNCHANGED oldHeld,
         lagIdAddEffect(l), NEW u \in 1 .. Len(free), free[u] \notin idSet
  PROVE  /\ lagIdAdd(l) \in Id
         /\ idTable' = [idTable EXCEPT ![l] = lagIdAdd(l)]
         /\ free' \in Seq(Id) /\ idSet' \in SUBSET Id /\ dropped' \in SUBSET Id /\ full' \in BOOLEAN
         /\ Ids'
<1>0. free \in Seq(Id) /\ idSet \in SUBSET Id /\ dropped \in SUBSET Id /\ idTable \in [Lag -> Id \cup {None}]
  BY DEF Types
<1>a. PICK n \in Nat : n = Len(free) BY <1>0, LenProperties
<1>b. DOMAIN free = 1 .. n /\ \A i \in 1 .. n : free[i] \in Id BY <1>0, <1>a, LenProperties, ElementOfSeq
<1> DEFINE usable == {i \in DOMAIN free : free[i] \notin idSet}
<1>1. usable \in SUBSET Nat /\ usable # {} BY <1>a, <1>b
<1>c. PICK m : m = Popped OBVIOUS
<1>2. m \in usable /\ \A i \in usable : m <= i
  <2>1. Popped = Min(usable) BY <1>1 DEF Popped
  <2> HIDE DEF usable
  <2> QED BY <2>1, <1>1, <1>c, MinOfPositions
<1>3. /\ m \in 1 .. n /\ free[m] \notin idSet /\ free[m] \in Id
      /\ \A i \in 1 .. n : i < m => free[i] \in idSet
  BY <1>2, <1>b
<1>d. PICK id : id = free[m] OBVIOUS
<1>4. lagIdAdd(l) = id
  <2>1. \E i \in DOMAIN free : free[i] \notin idSet BY <1>a, <1>b
  <2> QED BY <2>1, <1>c, <1>d DEF lagIdAdd
<1>5. id \in Id /\ id # -1 /\ id # None BY <1>3, <1>d, IdFacts
<1>e. PICK rest : rest = SubSeq(free, m + 1, n) OBVIOUS
<1>6. /\ rest \in Seq(Id) /\ Len(rest) = n - m
      /\ \A i \in 1 .. n - m : rest[i] = free[m + i]
  <2>1. \A i \in m + 1 .. n : free[i] \in Id BY <1>3, <1>b
  <2>2. m + 1 \in Int /\ n \in Int BY <1>3
  <2>3. /\ rest \in Seq(Id)
        /\ Len(rest) = IF m + 1 <= n THEN n - (m + 1) + 1 ELSE 0
        /\ \A i \in 1 .. n - (m + 1) + 1 : rest[i] = free[(m + 1) + i - 1]
    BY <2>1, <2>2, <1>e, SubSeqProperties
  <2>4. \A i \in 1 .. n - m : rest[i] = free[m + i]
    <3> TAKE i \in 1 .. n - m
    <3>1. i \in 1 .. n - (m + 1) + 1 /\ (m + 1) + i - 1 = m + i BY <1>3
    <3> QED BY <2>3, <3>1
  <2> QED BY <2>3, <2>4, <1>3
<1>7. /\ full' = (id = -1)
      /\ dropped' = dropped \cup ({free[i] : i \in 1 .. m} \ {id})
      /\ free' = lrem(rest, id)
      /\ idTable' = [idTable EXCEPT ![l] = id]
      /\ idSet' = idSet \cup {id}
  BY <1>4, <1>5, <1>a, <1>c, <1>e DEF lagIdAddEffect
<1>8. \A i \in 1 .. n - m : m + i \in 1 .. n /\ m + i # m BY <1>3
<1>9. free' = rest
  <2>1. id \notin Range(rest)
    <3> SUFFICES ASSUME NEW i \in 1 .. n - m, rest[i] = id PROVE FALSE
      <4>1. DOMAIN rest = 1 .. n - m BY <1>6, LenProperties
      <4> QED BY <4>1 DEF Range
    <3> QED BY <1>3, <1>6, <1>8, <1>a, <1>d DEF Ids, FreeOnce
  <2> QED BY <2>1, <1>7, LremNothing
<1>10. idTable'[l] = id /\ \A k \in Lag \ {l} : idTable'[k] = idTable[k] BY <1>0, <1>7
<1>11. FreeOnce'
  <2> SUFFICES ASSUME NEW i \in 1 .. n - m, NEW j \in 1 .. n - m, rest[i] = rest[j] PROVE i = j
    BY <1>6, <1>9 DEF FreeOnce
  <2>1. m + i = m + j BY <1>6, <1>8, <1>a DEF Ids, FreeOnce
  <2> QED BY <2>1, <1>3
<1>12. FreeNotTaken'
  <2> SUFFICES ASSUME NEW i \in 1 .. n - m, NEW k \in Lag PROVE rest[i] # idTable'[k]
    BY <1>6, <1>9 DEF FreeNotTaken
  <2>1. rest[i] = free[m + i] /\ m + i \in 1 .. n /\ m + i # m BY <1>6, <1>8
  <2>2. CASE k = l BY <2>1, <2>2, <1>3, <1>10, <1>a, <1>d DEF Ids, FreeOnce
  <2>3. CASE k # l BY <2>1, <2>3, <1>10, <1>a DEF Ids, FreeNotTaken
  <2> QED BY <2>2, <2>3
<1>13. \A k \in Lag : idTable[k] # id BY <1>3, <1>a, <1>d DEF Ids, FreeNotTaken
<1>14. OneEach' BY <1>10, <1>13 DEF Ids, OneEach
<1>15. SetExact'
  <2>1. id \notin oldHeld BY <1>3, <1>d DEF Ids, SetExact
  <2>2. \A k \in Lag : idTable'[k] # None => idTable'[k] \in idSet' /\ idTable'[k] \notin oldHeld'
    BY <2>1, <1>7, <1>10 DEF Ids, SetExact
  <2>3. \A x \in idSet' : x \in oldHeld' \/ \E k \in Lag : idTable'[k] = x
    <3> TAKE x \in idSet'
    <3>1. CASE x = id BY <3>1, <1>10
    <3>2. CASE x # id
      <4>1. x \in oldHeld \/ \E k \in Lag : idTable[k] = x BY <3>2, <1>7 DEF Ids, SetExact
      <4>2. \A k \in Lag : idTable[k] = x => k # l
        <5>1. x \in Id BY <3>2, <1>0, <1>7
        <5> QED BY <5>1, IdFacts
      <4> QED BY <4>1, <4>2, <1>10
    <3> QED BY <3>1, <3>2
  <2> QED BY <2>2, <2>3, <1>7 DEF Ids, SetExact
<1>16. \A x \in Id : x # id /\ Listed(x) => Listed(x)' \/ x \in dropped'
  <2> SUFFICES ASSUME NEW x \in Id, x # id, NEW i \in 1 .. n, free[i] = x
               PROVE  Listed(x)' \/ x \in dropped'
    BY <1>a DEF Listed
  <2>1. CASE i <= m
    <3>1. i \in 1 .. m BY <2>1, <1>3
    <3> QED BY <3>1, <1>7
  <2>2. CASE i > m
    <3>1. i - m \in 1 .. n - m /\ m + (i - m) = i BY <2>2, <1>3
    <3>2. free'[i - m] = x BY <3>1, <1>6, <1>9
    <3> QED BY <3>1, <3>2, <1>6, <1>9 DEF Listed
  <2> QED BY <2>1, <2>2, <1>3
<1>17. NothingMissing'
  <2>1. \A x \in Id : x \notin idSet' => Listed(x)' \/ x \in dropped'
    BY <1>7, <1>16 DEF Ids, NothingMissing
  <2>2. \A x \in oldHeld' : Listed(x)' \/ x \in dropped'
    <3> TAKE x \in oldHeld'
    <3>1. x \in Id /\ x # id /\ x \in oldHeld BY <1>3, <1>d DEF Types, Ids, SetExact
    <3> QED BY <3>1, <1>7, <1>16 DEF Ids, NothingMissing
  <2>3. OldLags = 0 => dropped' = {} /\ oldHeld' = {}
    <3> SUFFICES ASSUME OldLags = 0 PROVE dropped' = {} /\ oldHeld = {} OBVIOUS
    <3>1. dropped = {} /\ oldHeld = {} BY DEF Ids, NothingMissing
    <3>2. \A i \in 1 .. m : free[i] = id
      <4> SUFFICES ASSUME NEW i \in 1 .. m, i # m PROVE FALSE BY <1>d
      <4>1. i \in 1 .. n /\ i < m BY <1>3
      <4>2. free[i] \in idSet BY <4>1, <1>3
      <4>3. PICK k \in Lag : idTable[k] = free[i] BY <4>2, <3>1 DEF Ids, SetExact
      <4> QED BY <4>1, <4>3, <1>a DEF Ids, FreeNotTaken
    <3> QED BY <3>1, <3>2, <1>7
  <2> QED BY <2>1, <2>2, <2>3 DEF NothingMissing
<1>18. dropped' \in SUBSET Id
  <2>1. \A i \in 1 .. m : free[i] \in Id BY <1>3, <1>b
  <2> QED BY <2>1, <1>0, <1>7
<1>19. free' \in Seq(Id) /\ idSet' \in SUBSET Id /\ full' \in BOOLEAN BY <1>0, <1>5, <1>6, <1>7, <1>9
<1> QED BY <1>4, <1>5, <1>7, <1>11, <1>12, <1>14, <1>15, <1>17, <1>18, <1>19 DEF Ids

\* "add" that answers -1: every listed id is used by an old card.
LEMMA AddFull ==
  ASSUME Types, Ids, NEW l \in Lag, idTable[l] = None, UNCHANGED oldHeld,
         lagIdAddEffect(l), \A u \in 1 .. Len(free) : free[u] \in idSet
  PROVE  /\ lagIdAdd(l) = -1
         /\ idTable' = idTable
         /\ free' \in Seq(Id) /\ idSet' \in SUBSET Id /\ dropped' \in SUBSET Id /\ full' \in BOOLEAN
         /\ Ids'
<1>0. free \in Seq(Id) /\ idSet \in SUBSET Id /\ dropped \in SUBSET Id /\ idTable \in [Lag -> Id \cup {None}]
  BY DEF Types
<1>a. PICK n \in Nat : n = Len(free) BY <1>0, LenProperties
<1>b. DOMAIN free = 1 .. n /\ \A i \in 1 .. n : free[i] \in Id BY <1>0, <1>a, LenProperties, ElementOfSeq
<1>1. {i \in DOMAIN free : free[i] \notin idSet} = {} BY <1>a, <1>b
<1>2. Popped = n BY <1>1, <1>a DEF Popped
<1>3. lagIdAdd(l) = -1
  <2>1. ~\E i \in DOMAIN free : free[i] \notin idSet BY <1>1
  <2> QED BY <2>1 DEF lagIdAdd
<1>4. SubSeq(free, n + 1, n) = <<>>
  <2>1. n + 1 \in Int /\ n \in Int /\ n < n + 1 OBVIOUS
  <2> QED BY <2>1, SubSeqEmpty
<1>5. lrem(<<>>, -1) = <<>>
  <2>1. -1 \notin Range(<<>>) BY DEF Range
  <2> QED BY <2>1, LremNothing
<1>6. /\ full' = TRUE
      /\ dropped' = dropped \cup ({free[i] : i \in 1 .. n} \ {-1})
      /\ free' = lrem(SubSeq(free, n + 1, n), -1)
      /\ UNCHANGED <<idTable, idSet>>
  BY <1>2, <1>3, <1>a DEF lagIdAddEffect
<1>7. free' = <<>> BY <1>4, <1>5, <1>6
<1>8. \A i \in 1 .. n : free[i] \in dropped' BY <1>6, <1>b, IdFacts
<1>9. FreeOnce' /\ FreeNotTaken' BY <1>7 DEF FreeOnce, FreeNotTaken
<1>10. OneEach' /\ SetExact' BY <1>6 DEF Ids, OneEach, SetExact
<1>11. \A x : Listed(x) => x \in dropped' BY <1>8, <1>a DEF Listed
<1>12. NothingMissing'
  <2>1. \A x \in Id : x \notin idSet' => Listed(x)' \/ x \in dropped'
    BY <1>6, <1>11 DEF Ids, NothingMissing
  <2>2. \A x \in oldHeld' : Listed(x)' \/ x \in dropped' BY <1>6, <1>11 DEF Ids, NothingMissing
  <2>3. OldLags = 0 => dropped' = {} /\ oldHeld' = {}
    <3> SUFFICES ASSUME OldLags = 0 PROVE dropped' = {} /\ oldHeld = {} OBVIOUS
    <3>1. dropped = {} /\ oldHeld = {} BY DEF Ids, NothingMissing
    <3>2. ASSUME NEW i \in 1 .. n PROVE FALSE
      <4>1. free[i] \in idSet BY <3>2, <1>a
      <4>2. PICK k \in Lag : idTable[k] = free[i] BY <4>1, <3>1 DEF Ids, SetExact
      <4> QED BY <3>2, <4>2, <1>a DEF Ids, FreeNotTaken
    <3> QED BY <3>1, <3>2, <1>6
  <2> QED BY <2>1, <2>2, <2>3 DEF NothingMissing
<1>13. free' \in Seq(Id) /\ dropped' \in SUBSET Id
  <2>1. <<>> \in Seq(Id) BY EmptySeq
  <2> QED BY <2>1, <1>0, <1>6, <1>7, <1>b
<1> QED BY <1>0, <1>3, <1>6, <1>9, <1>10, <1>12, <1>13 DEF Ids

\* "add": the answer, and what it leaves in the database.
LEMMA AddFacts ==
  ASSUME Types, Ids, NEW l \in Lag, UNCHANGED oldHeld, lagIdAddEffect(l)
  PROVE  /\ lagIdAdd(l) \in Id \cup {-1}
         /\ lagIdAdd(l) = -1 => idTable' = idTable
         /\ lagIdAdd(l) # -1 => idTable' = [idTable EXCEPT ![l] = lagIdAdd(l)]
         /\ free' \in Seq(Id) /\ idSet' \in SUBSET Id /\ dropped' \in SUBSET Id /\ full' \in BOOLEAN
         /\ Ids'
<1>1. CASE idTable[l] # None
  <2>1. idTable \in [Lag -> Id \cup {None}] BY DEF Types
  <2>2. lagIdAdd(l) = idTable[l] /\ idTable[l] \in Id BY <1>1, <2>1 DEF lagIdAdd
  <2>3. full' = FALSE /\ UNCHANGED <<free, idTable, idSet, dropped>> BY <1>1 DEF lagIdAddEffect
  <2>4. idTable = [idTable EXCEPT ![l] = idTable[l]] BY <2>1
  <2>5. Ids' BY <2>3, IdsFrame
  <2>6. free' \in Seq(Id) /\ idSet' \in SUBSET Id /\ dropped' \in SUBSET Id /\ full' \in BOOLEAN
    BY <2>3 DEF Types
  <2> QED BY <2>2, <2>3, <2>4, <2>5, <2>6, IdFacts
<1>2. CASE idTable[l] = None /\ \E u \in 1 .. Len(free) : free[u] \notin idSet
  <2>1. PICK u \in 1 .. Len(free) : free[u] \notin idSet BY <1>2
  <2>2. /\ lagIdAdd(l) \in Id
        /\ idTable' = [idTable EXCEPT ![l] = lagIdAdd(l)]
        /\ free' \in Seq(Id) /\ idSet' \in SUBSET Id /\ dropped' \in SUBSET Id /\ full' \in BOOLEAN
        /\ Ids'
    BY <1>2, <2>1, AddFound
  <2> QED BY <2>2, IdFacts
<1>3. CASE idTable[l] = None /\ \A u \in 1 .. Len(free) : free[u] \in idSet
  BY <1>3, AddFull
<1> QED BY <1>1, <1>2, <1>3

\* "del": the id goes back to the end of the list.
LEMMA DelFacts ==
  ASSUME Types, Ids, NEW l \in Lag, UNCHANGED <<oldHeld, dropped>>, lagIdDelEffect(l)
  PROVE  /\ idTable' = [idTable EXCEPT ![l] = None]
         /\ free' \in Seq(Id) /\ idSet' \in SUBSET Id
         /\ Ids'
<1>0. free \in Seq(Id) /\ idSet \in SUBSET Id /\ idTable \in [Lag -> Id \cup {None}] /\ oldHeld \in SUBSET Id
  BY DEF Types
<1>1. CASE idTable[l] = None
  <2>1. UNCHANGED <<free, idTable, idSet>> BY <1>1 DEF lagIdDelEffect
  <2>2. idTable = [idTable EXCEPT ![l] = None] BY <1>0, <1>1
  <2>3. Ids' BY <2>1, IdsFrame
  <2> QED BY <1>0, <2>1, <2>2, <2>3
<1>2. CASE idTable[l] # None
  <2>a. PICK id : id = idTable[l] OBVIOUS
  <2>b. PICK n \in Nat : n = Len(free) BY <1>0, LenProperties
  <2>1. id \in Id /\ id # None BY <1>0, <1>2, <2>a
  <2>2. \A i \in 1 .. n : free[i] # id BY <2>a, <2>b DEF Ids, FreeNotTaken
  <2>3. id \notin Range(free)
    <3>1. DOMAIN free = 1 .. n BY <1>0, <2>b, LenProperties
    <3> QED BY <3>1, <2>2 DEF Range
  <2>4. /\ idSet' = idSet \ {id} /\ idTable' = [idTable EXCEPT ![l] = None]
        /\ free' = Append(free, id)
    BY <1>2, <2>3, <2>a DEF lagIdDelEffect
  <2>5. /\ free' \in Seq(Id) /\ Len(free') = n + 1 /\ free'[n + 1] = id
        /\ \A i \in 1 .. n : free'[i] = free[i]
    BY <1>0, <2>1, <2>4, <2>b, AppendProperties
  <2>6. idTable'[l] = None /\ \A k \in Lag \ {l} : idTable'[k] = idTable[k] BY <1>0, <2>4
  <2>7. \A i \in 1 .. n + 1 : i \in 1 .. n \/ i = n + 1 OBVIOUS
  <2>8. FreeOnce'
    <3> SUFFICES ASSUME NEW i \in 1 .. n + 1, NEW j \in 1 .. n + 1, free'[i] = free'[j] PROVE i = j
      BY <2>5 DEF FreeOnce
    <3>1. CASE i \in 1 .. n /\ j \in 1 .. n BY <3>1, <2>5, <2>b DEF Ids, FreeOnce
    <3>2. CASE i = n + 1 /\ j \in 1 .. n BY <3>2, <2>2, <2>5
    <3>3. CASE i \in 1 .. n /\ j = n + 1 BY <3>3, <2>2, <2>5
    <3> QED BY <3>1, <3>2, <3>3, <2>7
  <2>9. \A k \in Lag : idTable'[k] # id BY <2>1, <2>6, <2>a DEF Ids, OneEach
  <2>10. FreeNotTaken'
    <3> SUFFICES ASSUME NEW i \in 1 .. n + 1, NEW k \in Lag PROVE free'[i] # idTable'[k]
      BY <2>5 DEF FreeNotTaken
    <3>0. \A j \in 1 .. n : free[j] \in Id BY <1>0, <2>b, ElementOfSeq
    <3>1. CASE i = n + 1 BY <3>1, <2>5, <2>9
    <3>2. CASE i \in 1 .. n /\ k # l BY <3>2, <2>5, <2>6, <2>b DEF Ids, FreeNotTaken
    <3>3. CASE i \in 1 .. n /\ k = l BY <3>0, <3>3, <2>5, <2>6, IdFacts
    <3> QED BY <3>1, <3>2, <3>3, <2>7
  <2>11. OneEach' BY <2>6 DEF Ids, OneEach
  <2>12. id \notin oldHeld BY <2>1, <2>a DEF Ids, SetExact
  <2>13. SetExact'
    <3>1. \A k \in Lag : idTable'[k] # None => idTable'[k] \in idSet' /\ idTable'[k] \notin oldHeld'
      BY <2>4, <2>6, <2>9 DEF Ids, SetExact
    <3>2. oldHeld' \subseteq idSet' BY <2>4, <2>12 DEF Ids, SetExact
    <3>3. \A x \in idSet' : x \in oldHeld' \/ \E k \in Lag : idTable'[k] = x
      <4> TAKE x \in idSet'
      <4>1. x \in idSet /\ x # id BY <2>4
      <4>2. x \in oldHeld \/ \E k \in Lag \ {l} : idTable[k] = x BY <4>1, <2>a DEF Ids, SetExact
      <4> QED BY <4>2, <2>6
    <3> QED BY <3>1, <3>2, <3>3 DEF SetExact
  <2>14. \A x : Listed(x) => Listed(x)'
    <3> SUFFICES ASSUME NEW x, NEW i \in 1 .. n, free[i] = x PROVE Listed(x)' BY <2>b DEF Listed
    <3>1. i \in 1 .. n + 1 /\ free'[i] = x BY <2>5
    <3> QED BY <3>1, <2>5 DEF Listed
  <2>15. Listed(id)'
    <3>1. n + 1 \in 1 .. n + 1 OBVIOUS
    <3> QED BY <3>1, <2>5 DEF Listed
  <2>16. NothingMissing'
    <3>1. \A x \in Id : x \notin idSet' => Listed(x)' \/ x \in dropped'
      BY <2>4, <2>14, <2>15 DEF Ids, NothingMissing
    <3>2. \A x \in oldHeld' : Listed(x)' \/ x \in dropped' BY <2>14 DEF Ids, NothingMissing
    <3> QED BY <3>1, <3>2 DEF Ids, NothingMissing
  <2> QED BY <1>0, <2>4, <2>5, <2>8, <2>10, <2>11, <2>13, <2>16 DEF Ids
<1> QED BY <1>1, <1>2

\* A card of the previous image writes the set only.
LEMMA OldTakeStep == ASSUME IInv, NEW id \in Id, OldTake(id) PROVE IInv'
<1> USE DEF IInv, OldTake, cardVars, history, bounds
<1>1. Types' BY DEF Types
<1>2. Shapes' /\ OwnWork' BY DEF Shapes, OwnWork
<1>3. Ids'
  <2>1. FreeOnce' /\ FreeNotTaken' /\ OneEach' BY DEF Ids, FreeOnce, FreeNotTaken, OneEach
  <2>2. SetExact' BY DEF Ids, SetExact
  <2>3. OldLags # 0
    <3>1. OldLags = 0 => oldHeld = {} BY DEF Ids, NothingMissing
    <3>2. OldLags \in Nat /\ Cardinality({}) = 0 BY LagAssumption, FS_EmptySet
    <3> QED BY <3>1, <3>2
  <2>4. NothingMissing' BY <2>3 DEF Ids, NothingMissing, Listed
  <2> QED BY <2>1, <2>2, <2>4 DEF Ids
<1>4. OwnLags' BY OwnLagFrame DEF OwnLags
<1> QED BY <1>1, <1>2, <1>3, <1>4

\* A card of the previous image gives an id back.
LEMMA OldGiveStep == ASSUME IInv, NEW id \in Id, OldGive(id) PROVE IInv'
<1> USE DEF IInv, OldGive, cardVars, history
<1>1. Types' BY DEF Types
<1>2. Shapes' /\ OwnWork' BY DEF Shapes, OwnWork
<1>3. Ids'
  <2>1. FreeOnce' /\ FreeNotTaken' /\ OneEach' BY DEF Ids, FreeOnce, FreeNotTaken, OneEach
  <2>2. SetExact' BY DEF Ids, SetExact
  <2>3. NothingMissing' BY DEF Ids, NothingMissing, Listed
  <2> QED BY <2>1, <2>2, <2>3 DEF Ids
<1>4. OwnLags' BY OwnLagFrame DEF OwnLags
<1> QED BY <1>1, <1>2, <1>3, <1>4

-----------------------------------------------------------------------------
(* Requests                                                                *)

\* A task joins those of a LAG.
LEMMA JoinStep ==
  ASSUME IInv, NEW c \in Card, NEW l \in Lag, NEW t \in Task,
         toSync' = [toSync EXCEPT ![c][l] = addToSync(@, t)],
         wanted' \in SUBSET Lag, events' \in [Card -> Seq(Event)],
         UNCHANGED <<chassisVars, lags, inUse, pc, history>>
  PROVE  IInv'
<1>0. Types /\ Shapes /\ OwnWork /\ Ids /\ OwnLags BY DEF IInv
<1>1. PICK p : p = addToSync(toSync[c][l], t) OBVIOUS
<1>2. toSync[c][l] \in Seq(Task) /\ Shape(toSync[c][l]) BY <1>0 DEF Types, Shapes
<1>3. p \in Seq(Task) /\ Shape(p) /\ p # <<>> BY <1>1, <1>2, AddToSyncShape
<1>4. TasksBecome(c, l, p) BY <1>1 DEF TasksBecome
<1>5. /\ toSync' \in [Card -> [Lag -> Seq(Task)]] /\ Shapes' /\ toSync'[c][l] = p
      /\ \A d \in Card, k \in Lag : d # c \/ k # l => toSync'[d][k] = toSync[d][k]
  BY <1>0, <1>3, <1>4, SyncFacts
<1> USE DEF IInv, chassisVars, history
<1>6. Types' BY <1>5 DEF Types
<1>7. OwnWork' BY DEF OwnWork
<1>8. Ids' BY IdsFrame
<1>9. OwnLags'
  <2> SUFFICES ASSUME NEW k \in Lag PROVE OwnLag(k)' BY DEF OwnLags
  <2>1. toSync[Owner[k]][k] # <<>> => toSync'[Owner[k]][k] # <<>> BY <1>3, <1>5, OwnerType
  <2> QED BY <2>1, OwnLagFrame DEF OwnLags
<1> QED BY <1>5, <1>6, <1>7, <1>8, <1>9

\* The tasks of SETs and DELs are tasks.
LEMMA TaskTypes == Set(None) \in Task /\ Del \in Task /\ \A x \in Id : Set(x) \in Task
BY DEF Set, Del, Task

\* A LAG that is configured only adds a task at its owner.
LEMMA ConfigureStep == ASSUME IInv, NEW l \in Lag, Configure(l) PROVE IInv'
<1>1. /\ toSync' = [toSync EXCEPT ![Owner[l]][l] = addToSync(@, Set(None))]
      /\ wanted' \in SUBSET Lag /\ events' \in [Card -> Seq(Event)]
      /\ UNCHANGED <<chassisVars, lags, inUse, pc, history>>
  BY DEF Configure, IInv, Types
<1> QED BY <1>1, OwnerType, TaskTypes, JoinStep

\* A LAG that is removed only adds a task at its owner.
LEMMA UnconfigureStep == ASSUME IInv, NEW l \in Lag, Unconfigure(l) PROVE IInv'
<1>1. /\ toSync' = [toSync EXCEPT ![Owner[l]][l] = addToSync(@, Del)]
      /\ wanted' \in SUBSET Lag /\ events' \in [Card -> Seq(Event)]
      /\ UNCHANGED <<chassisVars, lags, inUse, pc, history>>
  BY DEF Unconfigure, IInv, Types
<1> QED BY <1>1, OwnerType, TaskTypes, JoinStep

\* A row's change that reaches a line card only adds a task there.
LEMMA NotifiedStep == ASSUME IInv, NEW c \in Card, Notified(c) PROVE IInv'
<1>0. Types BY DEF IInv
<1>1. events[c] \in Seq(Event) /\ events[c] # <<>> BY <1>0 DEF Types, Notified
<1>a. PICK e : e = Head(events[c]) OBVIOUS
<1>2. e \in Event /\ Tail(events[c]) \in Seq(Event) BY <1>1, <1>a, HeadTailProperties
<1>3. e.lag \in Lag /\ e.op \in {"SET", "DEL"} BY <1>2 DEF Event
<1>4. events' \in [Card -> Seq(Event)] BY <1>0, <1>2 DEF Types, Notified
<1>5. UNCHANGED <<chassisVars, lags, inUse, pc, history, wanted>> /\ wanted' \in SUBSET Lag
  BY <1>0 DEF Notified, bounds, Types
<1>b. PICK t : t = IF e.op = "DEL" THEN Del ELSE Set(rows[e.lag]) OBVIOUS
<1>6. toSync' = IF e.op = "SET" /\ rows[e.lag] = None THEN toSync
                ELSE [toSync EXCEPT ![c][e.lag] = addToSync(@, t)]
  BY <1>a, <1>b DEF Notified
<1>7. CASE e.op = "SET" /\ rows[e.lag] = None
  <2> USE DEF IInv, chassisVars, history
  <2>1. toSync' = toSync BY <1>6, <1>7
  <2>2. Types' BY <1>4, <1>5, <2>1 DEF Types
  <2>3. Shapes' /\ OwnWork' BY <1>5, <2>1 DEF Shapes, OwnWork
  <2>4. Ids' BY <1>5, IdsFrame
  <2>5. OwnLags' BY <1>5, <2>1, OwnLagFrame DEF OwnLags
  <2> QED BY <2>2, <2>3, <2>4, <2>5
<1>8. CASE ~(e.op = "SET" /\ rows[e.lag] = None)
  <2>1. t \in Task
    <3>1. rows[e.lag] \in Id \cup {None} BY <1>0, <1>3 DEF Types
    <3>2. CASE e.op = "DEL" BY <3>2, <1>b, TaskTypes
    <3>3. CASE e.op # "DEL" BY <3>1, <3>3, <1>b, TaskTypes
    <3> QED BY <3>2, <3>3
  <2>2. toSync' = [toSync EXCEPT ![c][e.lag] = addToSync(@, t)] BY <1>6, <1>8
  <2> QED BY <2>1, <2>2, <1>3, <1>4, <1>5, JoinStep
<1> QED BY <1>7, <1>8

\* References to LAGs come and go.
LEMMA UseStep == ASSUME IInv, NEW c \in Card, NEW l \in Lag, Use(c, l) \/ Unuse(c, l) PROVE IInv'
<1> USE DEF IInv, chassisVars, history, bounds
<1>1. UNCHANGED <<chassisVars, lags, toSync, events, pc, history, wanted>> BY DEF Use, Unuse
<1>2. inUse' \in [Card -> SUBSET Lag]
  <2>0. inUse \in [Card -> SUBSET Lag] BY DEF Types
  <2>1. CASE Use(c, l)
    <3>1. inUse' = [inUse EXCEPT ![c] = inUse[c] \cup {l}] BY <2>1 DEF Use
    <3>2. inUse[c] \cup {l} \in SUBSET Lag BY <2>0
    <3> QED BY <2>0, <3>1, <3>2
  <2>2. CASE Unuse(c, l)
    <3>1. inUse' = [inUse EXCEPT ![c] = inUse[c] \ {l}] BY <2>2 DEF Unuse
    <3>2. inUse[c] \ {l} \in SUBSET Lag BY <2>0
    <3> QED BY <2>0, <3>1, <3>2
  <2> QED BY <2>1, <2>2
<1>3. Types' BY <1>1, <1>2 DEF Types
<1>4. Shapes' /\ OwnWork' BY <1>1 DEF Shapes, OwnWork
<1>5. Ids' BY <1>1, IdsFrame
<1>6. OwnLags' BY <1>1, OwnLagFrame DEF OwnLags
<1> QED BY <1>3, <1>4, <1>5, <1>6
-----------------------------------------------------------------------------
(* doLagTask                                                               *)

\* A step of card c about LAG l leaves everything else as it was.
Elsewhere(c, l) ==
  \A k \in Lag : k # l \/ Owner[k] # c =>
    /\ rows'[k] = rows[k] /\ idTable'[k] = idTable[k]
    /\ lags'[Owner[k]][k] = lags[Owner[k]][k]
    /\ toSync'[Owner[k]][k] = toSync[Owner[k]][k]
    /\ k \in orphaned => k \in orphaned'
    /\ <<Owner[k], k>> \in excused => <<Owner[k], k>> \in excused'
    /\ \/ pc'[Owner[k]] = pc[Owner[k]]
       \/ pc[Owner[k]].lag # k /\ pc'[Owner[k]].lag # k

\* Such a step has to answer for that LAG only, and only on its own card.
LEMMA OwnLagsStep ==
  ASSUME OwnLags, NEW c \in Card, NEW l \in Lag, Elsewhere(c, l), Owner[l] = c => OwnLag(l)'
  PROVE  OwnLags'
<1> SUFFICES ASSUME NEW k \in Lag PROVE OwnLag(k)' BY DEF OwnLags
<1>1. CASE k = l /\ Owner[k] = c BY <1>1
<1>2. CASE k # l \/ Owner[k] # c
  <2>1. OwnLag(k) BY DEF OwnLags
  <2> QED BY <1>2, <2>1, OwnLagFrame DEF Elsewhere
<1> QED BY <1>1, <1>2

\* The pc of one card changes.
LEMMA PcFacts ==
  ASSUME Types, OwnWork, NEW c \in Card, NEW b \in Busy \cup {Idle}, b # Idle => Owner[b.lag] = c,
         pc' = [pc EXCEPT ![c] = b]
  PROVE  /\ pc' \in [Card -> Busy \cup {Idle}] /\ OwnWork'
         /\ pc'[c] = b /\ \A d \in Card \ {c} : pc'[d] = pc[d]
<1>1. pc \in [Card -> Busy \cup {Idle}] BY DEF Types
<1>2. pc'[c] = b /\ \A d \in Card \ {c} : pc'[d] = pc[d] BY <1>1
<1>3. pc' \in [Card -> Busy \cup {Idle}] BY <1>1
<1>4. OwnWork' BY <1>2 DEF OwnWork
<1> QED BY <1>2, <1>3, <1>4

\* A card in the middle of a request: the LAG is its own and the task waits.
LEMMA BusyFacts ==
  ASSUME IInv, NEW c \in Card, pc[c].at # "idle"
  PROVE  /\ pc[c] \in Busy /\ pc[c].lag \in Lag /\ pc[c].id \in Id /\ pc[c] # Idle
         /\ Owner[pc[c].lag] = c /\ OwnLag(pc[c].lag) /\ toSync[c][pc[c].lag] # <<>>
         /\ 1 \in 1 .. Len(toSync[c][pc[c].lag])
<1>0. Types /\ OwnWork /\ OwnLags BY DEF IInv
<1>1. pc[c] \in Busy \cup {Idle} BY <1>0 DEF Types
<1>2. pc[c] # Idle BY IdleFacts
<1>3. pc[c] \in Busy /\ pc[c].lag \in Lag /\ pc[c].id \in Id BY <1>1, <1>2 DEF Busy
<1>4. Owner[pc[c].lag] = c BY <1>0, <1>2 DEF OwnWork
<1>5. OwnLag(pc[c].lag) BY <1>0, <1>3 DEF OwnLags
<1>6. toSync[c][pc[c].lag] # <<>> BY <1>4, <1>5 DEF OwnLag
<1>7. 1 \in 1 .. Len(toSync[c][pc[c].lag]) BY <1>0, <1>3, <1>6, FirstTask
<1> QED BY <1>2, <1>3, <1>4, <1>5, <1>6, <1>7

\* The attributes of a LAG that exists are set.
LEMMA SetKnownStep ==
  ASSUME IInv, NEW c \in Card, NEW l \in Lag, NEW i, setKnownLag(c, l, i) PROVE IInv'
<1>0. Types /\ Shapes /\ OwnWork /\ Ids /\ OwnLags BY DEF IInv
<1>1. /\ Due(c, l, i) /\ lags[c][l] # None /\ EraseSync(c, l, i)
      /\ UNCHANGED <<chassisVars, lags, inUse, events, pc, orphaned, wanted>>
      /\ excused \subseteq excused' /\ excused' \subseteq excused \cup {<<c, l>>}
  BY DEF setKnownLag, bounds
<1>2. i \in 1 .. Len(toSync[c][l]) /\ pc[c] = Idle BY <1>0, <1>1, DueFacts
<1>3. /\ toSync' \in [Card -> [Lag -> Seq(Task)]] /\ Shapes'
      /\ \A d \in Card, k \in Lag : d # c \/ k # l => toSync'[d][k] = toSync[d][k]
  BY <1>0, <1>1, <1>2, EraseFacts
<1>4. Types' BY <1>0, <1>1, <1>3 DEF Types, chassisVars
<1>5. OwnWork' BY <1>0, <1>1 DEF OwnWork
<1>6. Ids' BY <1>0, <1>1, IdsFrame DEF chassisVars
<1>7. OwnLags'
  <2>1. Elsewhere(c, l) BY <1>1, <1>3, OwnerType DEF Elsewhere, chassisVars
  <2>2. ASSUME Owner[l] = c PROVE OwnLag(l)'
    <3>1. OwnLag(l) BY <1>0 DEF OwnLags
    <3>2. pc[c].lag # l BY <1>2, IdleFacts
    <3> QED BY <3>1, <3>2, <2>2, <1>1 DEF OwnLag, chassisVars
  <2> QED BY <2>1, <2>2, <1>0, OwnLagsStep
<1> QED BY <1>3, <1>4, <1>5, <1>6, <1>7 DEF IInv

\* A LAG of the card's own gets an id.
LEMMA AllocateStep ==
  ASSUME IInv, NEW c \in Card, NEW l \in Lag, allocateLagId(c, l) PROVE IInv'
<1>0. Types /\ Shapes /\ OwnWork /\ Ids /\ OwnLags BY DEF IInv
<1>a. PICK id : id = lagIdAdd(l) OBVIOUS
<1>1. /\ Due(c, l, 1) /\ lags[c][l] = None /\ Owner[l] = c /\ lagIdAddEffect(l)
      /\ pc' = IF id <= 0 THEN pc ELSE [pc EXCEPT ![c] = [at |-> "allocated", lag |-> l, id |-> id]]
      /\ UNCHANGED <<rows, oldHeld, lags, inUse, toSync, events, history, wanted>>
  BY <1>a DEF allocateLagId, bounds, Local
<1>2. pc[c] = Idle /\ toSync[c][l] # <<>> BY <1>0, <1>1, DueFacts
<1>3. /\ id \in Id \cup {-1}
      /\ id = -1 => idTable' = idTable
      /\ id # -1 => idTable' = [idTable EXCEPT ![l] = id]
      /\ free' \in Seq(Id) /\ idSet' \in SUBSET Id /\ dropped' \in SUBSET Id /\ full' \in BOOLEAN
      /\ Ids'
  <2>1. oldHeld' = oldHeld BY <1>1
  <2> QED BY <1>0, <1>1, <1>a, <2>1, AddFacts
<1>4. Shapes' BY <1>0, <1>1 DEF Shapes
<1>5. OwnLag(l) /\ pc[c].lag # l BY <1>0, <1>2, IdleFacts DEF OwnLags
<1>6. CASE id = -1
  <2>1. pc' = pc /\ idTable' = idTable BY <1>1, <1>3, <1>6
  <2>2. Types' BY <1>0, <1>1, <1>3, <2>1 DEF Types, history
  <2>3. OwnWork' BY <1>0, <2>1 DEF OwnWork
  <2>4. OwnLags' BY <1>0, <1>1, <2>1, OwnLagFrame DEF OwnLags, history
  <2> QED BY <2>2, <2>3, <2>4, <1>3, <1>4 DEF IInv
<1>7. CASE id # -1
  <2>1. id \in Id /\ ~(id <= 0) BY <1>3, <1>7, IdFacts
  <2>b. PICK b : b = [at |-> "allocated", lag |-> l, id |-> id] OBVIOUS
  <2>2. b \in Busy /\ b.lag = l /\ b.at = "allocated" /\ b.id = id BY <2>1, <2>b DEF Busy, Steps
  <2>3. pc' = [pc EXCEPT ![c] = b] BY <1>1, <2>1, <2>b
  <2>4. /\ pc' \in [Card -> Busy \cup {Idle}] /\ OwnWork' /\ pc'[c] = b
        /\ \A d \in Card \ {c} : pc'[d] = pc[d]
    BY <1>0, <1>1, <2>2, <2>3, PcFacts
  <2>5. idTable' \in [Lag -> Id \cup {None}] /\ idTable'[l] = id /\ \A k \in Lag \ {l} : idTable'[k] = idTable[k]
    BY <1>0, <1>3, <1>7, <2>1 DEF Types
  <2>6. Types' BY <1>0, <1>1, <1>3, <2>4, <2>5 DEF Types, history
  <2>7. Elsewhere(c, l)
    <3> SUFFICES ASSUME NEW k \in Lag, k # l \/ Owner[k] # c
                 PROVE  /\ idTable'[k] = idTable[k]
                        /\ \/ pc'[Owner[k]] = pc[Owner[k]]
                           \/ pc[Owner[k]].lag # k /\ pc'[Owner[k]].lag # k
      BY <1>1 DEF Elsewhere, history
    <3>1. k # l BY <1>1
    <3>2. CASE Owner[k] = c BY <3>1, <3>2, <1>2, <2>2, <2>4, <2>5, IdleFacts
    <3>3. CASE Owner[k] # c BY <3>1, <3>3, <2>4, <2>5, OwnerType
    <3> QED BY <3>2, <3>3
  <2>8. OwnLag(l)'
    <3>1. rows'[l] = None /\ lags'[c][l] = None /\ toSync'[c][l] # <<>> BY <1>1, <1>2, <1>5 DEF OwnLag
    <3> QED BY <3>1, <1>1, <2>2, <2>4, <2>5 DEF OwnLag
  <2> QED BY <2>4, <2>6, <2>7, <2>8, <1>0, <1>3, <1>4, OwnLagsStep DEF IInv
<1> QED BY <1>6, <1>7

\* One LAG's entry on one card changes.
LagBecomes(c, l, id) == lags' = [lags EXCEPT ![c][l] = id]

\* The other entries stay as they are.
LEMMA LagsFacts ==
  ASSUME Types, NEW c \in Card, NEW l \in Lag, NEW id \in Id \cup {None},
         LagBecomes(c, l, id)
  PROVE  /\ lags' \in [Card -> [Lag -> Id \cup {None}]] /\ lags'[c][l] = id
         /\ \A d \in Card, k \in Lag : d # c \/ k # l => lags'[d][k] = lags[d][k]
<1>1. lags \in [Card -> [Lag -> Id \cup {None}]] BY DEF Types
<1>2. lags'[c] = [lags[c] EXCEPT ![l] = id] /\ \A d \in Card \ {c} : lags'[d] = lags[d] BY <1>1 DEF LagBecomes
<1>3. lags'[c] \in [Lag -> Id \cup {None}] BY <1>1, <1>2
<1>4. lags' \in [Card -> [Lag -> Id \cup {None}]] BY <1>1, <1>2, <1>3 DEF LagBecomes
<1> QED BY <1>1, <1>2, <1>4

\* The tasks of a LAG stay, or the first one goes.
LEMMA MayEraseFacts ==
  ASSUME Types, Shapes, NEW c \in Card, NEW l \in Lag, 1 \in 1 .. Len(toSync[c][l]),
         EraseSync(c, l, 1) \/ toSync' = toSync
  PROVE  /\ toSync' \in [Card -> [Lag -> Seq(Task)]] /\ Shapes'
         /\ \A d \in Card, k \in Lag : d # c \/ k # l => toSync'[d][k] = toSync[d][k]
<1>1. CASE EraseSync(c, l, 1) BY <1>1, EraseFacts
<1>2. CASE toSync' = toSync
  <2>1. toSync \in [Card -> [Lag -> Seq(Task)]] BY DEF Types
  <2>2. Shapes' BY <1>2 DEF Shapes
  <2> QED BY <1>2, <2>1, <2>2
<1> QED BY <1>1, <1>2

\* What createLag changes, whatever SAI answers.
LEMMA CreateFacts ==
  ASSUME IInv, NEW c \in Card, NEW l \in Lag, NEW id \in Id \cup {None}, NEW s,
         1 \in 1 .. Len(toSync[c][l]), Owner[l] = c => id \in Id,
         \A k \in Lag \ {l} : pc[c].lag # k,
         Owner[l] # c => pc[c] = Idle,
         createLag(c, l, id, s)
  PROVE  /\ Types' /\ Shapes' /\ OwnWork' /\ Ids' /\ Elsewhere(c, l)
         /\ UNCHANGED <<rows, idTable, orphaned>>
         /\ \/ /\ lags'[c][l] = id /\ (Owner[l] = c => toSync' = toSync)
               /\ pc'[c] = IF Owner[l] = c THEN [at |-> "created", lag |-> l, id |-> id] ELSE Idle
            \/ /\ lags' = lags /\ pc'[c] = Idle
               /\ toSync' = toSync \/ <<c, l>> \in excused'
<1>0. Types /\ Shapes /\ OwnWork /\ Ids /\ OwnLags BY DEF IInv
<1>h. PICK h : h = handleSaiCreateStatus(s) OBVIOUS
<1>1. h \in {"success", "failed", "need_retry"} BY <1>h DEF handleSaiCreateStatus
<1>b. PICK b : b = IF Owner[l] # c \/ h # "success" THEN Idle ELSE [at |-> "created", lag |-> l, id |-> id]
  OBVIOUS
<1>2. /\ lags' = IF h = "success" THEN [lags EXCEPT ![c][l] = id] ELSE lags
      /\ excused' = CASE h = "success" -> excused \ {<<c, l>>}
                      [] h = "failed" -> excused \cup {<<c, l>>}
                      [] OTHER -> excused
      /\ pc' = [pc EXCEPT ![c] = b]
      /\ IF h = "failed" \/ (Owner[l] # c /\ h = "success") THEN EraseSync(c, l, 1) ELSE UNCHANGED toSync
      /\ UNCHANGED <<free, idTable, idSet, rows, oldHeld, full, dropped, inUse, events, orphaned, wanted>>
  <2>1. parseHandleSaiStatusFailure(h) <=> h = "failed" BY DEF parseHandleSaiStatusFailure
  <2>2. Local(c, l) <=> Owner[l] = c BY DEF Local
  <2>3. (Owner[l] # c \/ h # "success") /\ h = "success" <=> Owner[l] # c /\ h = "success" OBVIOUS
  <2> QED BY <1>h, <1>b, <2>1, <2>2, <2>3 DEF createLag, chassisVars
<1>3. b \in Busy \cup {Idle} /\ (b # Idle => Owner[b.lag] = c) /\ (b = Idle \/ b.lag = l)
  BY <1>b DEF Busy, Steps
<1>4. /\ pc' \in [Card -> Busy \cup {Idle}] /\ OwnWork' /\ pc'[c] = b
      /\ \A d \in Card \ {c} : pc'[d] = pc[d]
  BY <1>0, <1>2, <1>3, PcFacts
<1>5. /\ toSync' \in [Card -> [Lag -> Seq(Task)]] /\ Shapes'
      /\ \A d \in Card, k \in Lag : d # c \/ k # l => toSync'[d][k] = toSync[d][k]
  <2>1. EraseSync(c, l, 1) \/ toSync' = toSync BY <1>2
  <2> QED BY <1>0, <2>1, MayEraseFacts
<1>6. /\ lags' \in [Card -> [Lag -> Id \cup {None}]]
      /\ \A d \in Card, k \in Lag : d # c \/ k # l => lags'[d][k] = lags[d][k]
      /\ h = "success" => lags'[c][l] = id
      /\ h # "success" => lags' = lags
  <2>1. CASE h = "success"
    <3>1. LagBecomes(c, l, id) BY <1>2, <2>1 DEF LagBecomes
    <3>2. /\ lags' \in [Card -> [Lag -> Id \cup {None}]] /\ lags'[c][l] = id
          /\ \A d \in Card, k \in Lag : d # c \/ k # l => lags'[d][k] = lags[d][k]
      BY <1>0, <3>1, LagsFacts
    <3> QED BY <2>1, <3>2
  <2>2. CASE h # "success"
    <3>1. lags' = lags BY <1>2, <2>2
    <3> QED BY <1>0, <2>2, <3>1 DEF Types
  <2> QED BY <2>1, <2>2
<1>7. /\ excused' \subseteq excused \cup {<<c, l>>} /\ \A x \in excused : x # <<c, l>> => x \in excused'
      /\ h = "failed" => <<c, l>> \in excused'
  BY <1>1, <1>2
<1>8. Types'
  <2>1. excused' \in SUBSET (Card \X Lag) BY <1>0, <1>7 DEF Types
  <2>2. /\ free' \in Seq(Id) /\ idSet' \in SUBSET Id /\ oldHeld' \in SUBSET Id
        /\ idTable' \in [Lag -> Id \cup {None}] /\ rows' \in [Lag -> Id \cup {None}]
        /\ inUse' \in [Card -> SUBSET Lag] /\ events' \in [Card -> Seq(Event)]
        /\ wanted' \in SUBSET Lag /\ full' \in BOOLEAN /\ dropped' \in SUBSET Id
        /\ orphaned' \in SUBSET Lag
    BY <1>0, <1>2 DEF Types
  <2> QED BY <2>1, <2>2, <1>4, <1>5, <1>6 DEF Types
<1>9. Ids' BY <1>0, <1>2, IdsFrame
<1>10. Elsewhere(c, l)
  <2> SUFFICES ASSUME NEW k \in Lag, k # l \/ Owner[k] # c
               PROVE  /\ lags'[Owner[k]][k] = lags[Owner[k]][k]
                      /\ toSync'[Owner[k]][k] = toSync[Owner[k]][k]
                      /\ <<Owner[k], k>> \in excused => <<Owner[k], k>> \in excused'
                      /\ \/ pc'[Owner[k]] = pc[Owner[k]]
                         \/ pc[Owner[k]].lag # k /\ pc'[Owner[k]].lag # k
    BY <1>2 DEF Elsewhere
  <2>1. lags'[Owner[k]][k] = lags[Owner[k]][k] /\ toSync'[Owner[k]][k] = toSync[Owner[k]][k]
    BY <1>5, <1>6, OwnerType
  <2>2. <<Owner[k], k>> # <<c, l>> OBVIOUS
  <2>3. <<Owner[k], k>> \in excused => <<Owner[k], k>> \in excused' BY <2>2, <1>7
  <2>4. CASE Owner[k] # c BY <2>1, <2>3, <2>4, <1>4, OwnerType
  <2>5. CASE Owner[k] = c
    <3>1. k # l BY <2>5
    <3>2. pc[c].lag # k /\ pc'[c].lag # k BY <3>1, <1>3, <1>4, IdleFacts
    <3> QED BY <2>1, <2>3, <2>5, <3>2
  <2> QED BY <2>4, <2>5
<1>11. CASE h = "success"
  <2>1. lags'[c][l] = id /\ (Owner[l] = c => toSync' = toSync) BY <1>2, <1>6, <1>11
  <2>2. pc'[c] = IF Owner[l] = c THEN [at |-> "created", lag |-> l, id |-> id] ELSE Idle
    BY <1>4, <1>11, <1>b
  <2> QED BY <2>1, <2>2, <1>2, <1>4, <1>5, <1>8, <1>9, <1>10
<1>12. CASE h # "success"
  <2>1. lags' = lags /\ pc'[c] = Idle BY <1>4, <1>6, <1>12, <1>b
  <2>2. toSync' = toSync \/ <<c, l>> \in excused' BY <1>1, <1>2, <1>7, <1>12
  <2> QED BY <2>1, <2>2, <1>2, <1>4, <1>5, <1>8, <1>9, <1>10
<1> QED BY <1>11, <1>12

\* A LAG of the card's own is created in its ASIC, with the id it has got.
LEMMA CreateLocalStep ==
  ASSUME IInv, NEW c \in Card, NEW s, createLocalLag(c, s) PROVE IInv'
<1>0. OwnLags BY DEF IInv
<1>l. PICK l : l = pc[c].lag OBVIOUS
<1>i. PICK id : id = pc[c].id OBVIOUS
<1>1. pc[c].at = "allocated" /\ createLag(c, l, id, s) BY <1>l, <1>i DEF createLocalLag
<1>2. /\ l \in Lag /\ id \in Id /\ Owner[l] = c /\ OwnLag(l) /\ toSync[c][l] # <<>>
      /\ 1 \in 1 .. Len(toSync[c][l])
  BY <1>1, <1>l, <1>i, BusyFacts
<1>3. idTable[l] = id /\ lags[c][l] = None /\ rows[l] = None BY <1>1, <1>2, <1>l, <1>i DEF OwnLag
<1>4. \A k \in Lag \ {l} : pc[c].lag # k BY <1>l
<1>5. /\ Types' /\ Shapes' /\ OwnWork' /\ Ids' /\ Elsewhere(c, l)
      /\ UNCHANGED <<rows, idTable, orphaned>>
      /\ \/ /\ lags'[c][l] = id /\ (Owner[l] = c => toSync' = toSync)
            /\ pc'[c] = IF Owner[l] = c THEN [at |-> "created", lag |-> l, id |-> id] ELSE Idle
         \/ /\ lags' = lags /\ pc'[c] = Idle
            /\ toSync' = toSync \/ <<c, l>> \in excused'
  BY <1>1, <1>2, <1>4, CreateFacts
<1>6. OwnLag(l)'
  <2>1. CASE lags'[c][l] = id /\ toSync' = toSync /\ pc'[c] = [at |-> "created", lag |-> l, id |-> id]
    <3>1. pc'[c].lag = l /\ pc'[c].at = "created" /\ pc'[c].id = id BY <2>1
    <3>2. toSync'[c][l] # <<>> /\ lags'[c][l] = id BY <2>1, <1>2
    <3> QED BY <3>1, <3>2, <1>2, <1>3, <1>5 DEF OwnLag
  <2>2. CASE lags' = lags /\ pc'[c] = Idle /\ (toSync' = toSync \/ <<c, l>> \in excused')
    <3>1. pc'[c].lag # l BY <2>2, <1>2, IdleFacts
    <3>2. toSync'[c][l] # <<>> \/ <<c, l>> \in excused' BY <2>2, <1>2
    <3> QED BY <3>1, <3>2, <2>2, <1>2, <1>3, <1>5 DEF OwnLag
  <2> QED BY <2>1, <2>2, <1>2, <1>5
<1>7. OwnLags' BY <1>0, <1>2, <1>5, <1>6, OwnLagsStep
<1> QED BY <1>5, <1>7 DEF IInv

\* Another card's LAG is created.
LEMMA CreateSystemStep ==
  ASSUME IInv, NEW c \in Card, NEW l \in Lag, NEW s, createSystemLag(c, l, s) PROVE IInv'
<1>0. Types /\ OwnLags BY DEF IInv
<1>i. PICK id : id = toSync[c][l][1].id OBVIOUS
<1>1. Due(c, l, 1) /\ Owner[l] # c /\ createLag(c, l, id, s) BY <1>i DEF createSystemLag, Local
<1>2. 1 \in 1 .. Len(toSync[c][l]) /\ pc[c] = Idle /\ toSync[c][l][1] \in Task BY <1>0, <1>1, DueFacts
<1>3. id \in Id \cup {None} BY <1>2, <1>i DEF Task
<1>4. \A k \in Lag \ {l} : pc[c].lag # k BY <1>2, IdleFacts
<1>5. Types' /\ Shapes' /\ OwnWork' /\ Ids' /\ Elsewhere(c, l)
  BY <1>1, <1>2, <1>3, <1>4, CreateFacts
<1>6. OwnLags' BY <1>0, <1>1, <1>5, OwnLagsStep
<1> QED BY <1>5, <1>6 DEF IInv

\* The row of one LAG changes, and the other cards hear of it.
LEMMA RowFacts ==
  ASSUME Types, NEW l \in Lag, NEW id \in Id \cup {None}, NEW op \in {"SET", "DEL"},
         rows' = [rows EXCEPT ![l] = id], Notify(l, op)
  PROVE  /\ rows' \in [Lag -> Id \cup {None}] /\ rows'[l] = id
         /\ \A k \in Lag \ {l} : rows'[k] = rows[k]
         /\ events' \in [Card -> Seq(Event)]
<1>1. rows \in [Lag -> Id \cup {None}] /\ events \in [Card -> Seq(Event)] BY DEF Types
<1>e. PICK e : e = [op |-> op, lag |-> l] OBVIOUS
<1>2. e \in Event BY <1>e DEF Event
<1>3. \A c \in Card : Append(events[c], e) \in Seq(Event) BY <1>1, <1>2, AppendProperties
<1>4. events' = [c \in Card |-> IF Local(c, l) THEN events[c] ELSE Append(events[c], e)] BY <1>e DEF Notify
<1>5. events' \in [Card -> Seq(Event)] BY <1>1, <1>3, <1>4
<1> QED BY <1>1, <1>5

\* The end of a request: the row is written or deleted, the task erased.
LEMMA SyncStep ==
  ASSUME IInv, NEW c \in Card, NEW l \in Lag, NEW id \in Id \cup {None}, NEW op \in {"SET", "DEL"},
         l = pc[c].lag, pc[c].at # "idle",
         rows' = [rows EXCEPT ![l] = id], Notify(l, op), EraseSync(c, l, 1), pc' = [pc EXCEPT ![c] = Idle],
         UNCHANGED <<free, idTable, idSet, oldHeld, full, dropped, lags, inUse, history, bounds>>,
         lags[c][l] = id, idTable[l] = id
  PROVE  IInv'
<1>0. Types /\ Shapes /\ OwnWork /\ Ids /\ OwnLags BY DEF IInv
<1>1. Owner[l] = c /\ 1 \in 1 .. Len(toSync[c][l]) BY BusyFacts
<1>2. /\ rows' \in [Lag -> Id \cup {None}] /\ rows'[l] = id
      /\ \A k \in Lag \ {l} : rows'[k] = rows[k]
      /\ events' \in [Card -> Seq(Event)]
  BY <1>0, RowFacts
<1>3. /\ toSync' \in [Card -> [Lag -> Seq(Task)]] /\ Shapes'
      /\ \A d \in Card, k \in Lag : d # c \/ k # l => toSync'[d][k] = toSync[d][k]
  BY <1>0, <1>1, EraseFacts
<1>4. /\ pc' \in [Card -> Busy \cup {Idle}] /\ OwnWork' /\ pc'[c] = Idle
      /\ \A d \in Card \ {c} : pc'[d] = pc[d]
  BY <1>0, PcFacts
<1>5. Types' BY <1>0, <1>2, <1>3, <1>4 DEF Types, history, bounds
<1>6. Ids' BY <1>0, IdsFrame
<1>7. Elsewhere(c, l)
  <2> SUFFICES ASSUME NEW k \in Lag, k # l \/ Owner[k] # c
               PROVE  /\ rows'[k] = rows[k]
                      /\ toSync'[Owner[k]][k] = toSync[Owner[k]][k]
                      /\ \/ pc'[Owner[k]] = pc[Owner[k]]
                         \/ pc[Owner[k]].lag # k /\ pc'[Owner[k]].lag # k
    BY DEF Elsewhere, history
  <2>1. k # l BY <1>1
  <2>2. rows'[k] = rows[k] /\ toSync'[Owner[k]][k] = toSync[Owner[k]][k] BY <2>1, <1>2, <1>3, OwnerType
  <2>3. CASE Owner[k] # c BY <2>2, <2>3, <1>4, OwnerType
  <2>4. CASE Owner[k] = c
    <3>1. pc[c].lag # k /\ pc'[c].lag # k BY <2>1, <1>4, IdleFacts
    <3> QED BY <2>2, <2>4, <3>1
  <2> QED BY <2>3, <2>4
<1>8. OwnLag(l)'
  <2>1. pc'[c].lag # l BY <1>4, IdleFacts
  <2> QED BY <2>1, <1>1, <1>2 DEF OwnLag
<1>9. OwnLags' BY <1>0, <1>7, <1>8, OwnLagsStep
<1> QED BY <1>3, <1>4, <1>5, <1>6, <1>9 DEF IInv

\* A LAG that has been created is published.
LEMMA SyncAddStep == ASSUME IInv, NEW c \in Card, voqSyncAddLag(c) PROVE IInv'
<1>l. PICK l : l = pc[c].lag OBVIOUS
<1>i. PICK id : id = pc[c].id OBVIOUS
<1>1. /\ pc[c].at = "created" /\ rows' = [rows EXCEPT ![l] = id] /\ Notify(l, "SET")
      /\ EraseSync(c, l, 1) /\ pc' = [pc EXCEPT ![c] = Idle]
      /\ UNCHANGED <<free, idTable, idSet, oldHeld, full, dropped, lags, inUse, history, bounds>>
  BY <1>l, <1>i DEF voqSyncAddLag
<1>2. l \in Lag /\ id \in Id /\ Owner[l] = c /\ OwnLag(l) BY <1>1, <1>l, <1>i, BusyFacts
<1>3. lags[c][l] = id /\ idTable[l] = id BY <1>1, <1>2, <1>l, <1>i DEF OwnLag
<1>4. pc[c].at # "idle" BY <1>1
<1> QED BY <1>1, <1>2, <1>3, <1>4, <1>l, SyncStep

\* The row of a LAG that is gone is deleted.
LEMMA SyncDelStep == ASSUME IInv, NEW c \in Card, voqSyncDelLag(c) PROVE IInv'
<1>l. PICK l : l = pc[c].lag OBVIOUS
<1>1. /\ pc[c].at = "freed" /\ rows' = [rows EXCEPT ![l] = None] /\ Notify(l, "DEL")
      /\ EraseSync(c, l, 1) /\ pc' = [pc EXCEPT ![c] = Idle]
      /\ UNCHANGED <<free, idTable, idSet, oldHeld, full, dropped, lags, inUse, history, bounds>>
  BY <1>l DEF voqSyncDelLag
<1>2. l \in Lag /\ Owner[l] = c /\ OwnLag(l) BY <1>1, <1>l, BusyFacts
<1>3. lags[c][l] = None /\ idTable[l] = None BY <1>1, <1>2, <1>l DEF OwnLag
<1>4. pc[c].at # "idle" BY <1>1
<1> QED BY <1>1, <1>2, <1>3, <1>4, <1>l, SyncStep

\* A DEL of a LAG that does not exist: an id it has left is noted.
LEMMA DelUnknownStep ==
  ASSUME IInv, NEW c \in Card, NEW l \in Lag, delUnknownLag(c, l) PROVE IInv'
<1>0. Types /\ Shapes /\ OwnWork /\ Ids /\ OwnLags BY DEF IInv
<1>1. /\ Due(c, l, 1) /\ lags[c][l] = None /\ EraseSync(c, l, 1)
      /\ orphaned' = IF Owner[l] = c /\ idTable[l] # None THEN orphaned \cup {l} ELSE orphaned
      /\ excused' = excused \ {<<c, l>>}
      /\ UNCHANGED <<free, idTable, idSet, rows, oldHeld, full, dropped, lags, inUse, events, pc, wanted>>
  BY DEF delUnknownLag, bounds, chassisVars, Local
<1>2. 1 \in 1 .. Len(toSync[c][l]) /\ pc[c] = Idle BY <1>0, <1>1, DueFacts
<1>3. /\ toSync' \in [Card -> [Lag -> Seq(Task)]] /\ Shapes'
      /\ \A d \in Card, k \in Lag : d # c \/ k # l => toSync'[d][k] = toSync[d][k]
  BY <1>0, <1>1, <1>2, EraseFacts
<1>4. orphaned' \in SUBSET Lag /\ excused' \in SUBSET (Card \X Lag) BY <1>0, <1>1 DEF Types
<1>5. Types' BY <1>0, <1>1, <1>3, <1>4 DEF Types
<1>6. OwnWork' BY <1>0, <1>1 DEF OwnWork
<1>7. Ids' BY <1>0, <1>1, IdsFrame
<1>8. Elsewhere(c, l)
  <2> SUFFICES ASSUME NEW k \in Lag, k # l \/ Owner[k] # c
               PROVE  /\ toSync'[Owner[k]][k] = toSync[Owner[k]][k]
                      /\ k \in orphaned => k \in orphaned'
                      /\ <<Owner[k], k>> \in excused => <<Owner[k], k>> \in excused'
    BY <1>1 DEF Elsewhere
  <2>1. <<Owner[k], k>> # <<c, l>> OBVIOUS
  <2> QED BY <2>1, <1>1, <1>3, OwnerType
<1>9. ASSUME Owner[l] = c PROVE OwnLag(l)'
  <2>1. OwnLag(l) /\ pc[c].lag # l BY <1>0, <1>2, IdleFacts DEF OwnLags
  <2>2. rows'[l] = None /\ lags'[c][l] = None BY <2>1, <1>1, <1>9 DEF OwnLag
  <2>3. idTable'[l] # None => l \in orphaned' BY <1>1, <1>9
  <2> QED BY <2>1, <2>2, <2>3, <1>1, <1>9 DEF OwnLag
<1>10. OwnLags' BY <1>0, <1>8, <1>9, OwnLagsStep
<1> QED BY <1>3, <1>5, <1>6, <1>7, <1>10 DEF IInv

\* A LAG is removed from the ASIC.
LEMMA RemoveStep ==
  ASSUME IInv, NEW c \in Card, NEW l \in Lag, NEW s, removeLag(c, l, s) PROVE IInv'
<1>0. Types /\ Shapes /\ OwnWork /\ Ids /\ OwnLags BY DEF IInv
<1>h. PICK h : h = handleSaiRemoveStatus(s) OBVIOUS
<1>i. PICK id : id = lags[c][l] OBVIOUS
<1>1. /\ Due(c, l, 1) /\ id # None
      /\ lags' = IF h = "success" THEN [lags EXCEPT ![c][l] = None] ELSE lags
      /\ pc' = IF h = "success" /\ Owner[l] = c
               THEN [pc EXCEPT ![c] = [at |-> "removed", lag |-> l, id |-> id]] ELSE pc
      /\ IF h = "failed" \/ (h = "success" /\ Owner[l] # c) THEN EraseSync(c, l, 1) ELSE UNCHANGED toSync
      /\ excused' = IF h = "failed" THEN excused \cup {<<c, l>>} ELSE excused
      /\ UNCHANGED <<free, idTable, idSet, rows, oldHeld, full, dropped, inUse, events, orphaned, wanted>>
  <2>1. parseHandleSaiStatusFailure(h) <=> h = "failed" BY DEF parseHandleSaiStatusFailure
  <2>2. Local(c, l) <=> Owner[l] = c BY DEF Local
  <2> QED BY <1>h, <1>i, <2>1, <2>2 DEF removeLag, chassisVars
<1>2. 1 \in 1 .. Len(toSync[c][l]) /\ pc[c] = Idle /\ toSync[c][l] # <<>> BY <1>0, <1>1, DueFacts
<1>3. id \in Id BY <1>0, <1>1, <1>i DEF Types
<1>4. /\ toSync' \in [Card -> [Lag -> Seq(Task)]] /\ Shapes'
      /\ \A d \in Card, k \in Lag : d # c \/ k # l => toSync'[d][k] = toSync[d][k]
  <2>1. EraseSync(c, l, 1) \/ toSync' = toSync BY <1>1
  <2> QED BY <1>0, <1>2, <2>1, MayEraseFacts
<1>5. /\ lags' \in [Card -> [Lag -> Id \cup {None}]]
      /\ \A d \in Card, k \in Lag : d # c \/ k # l => lags'[d][k] = lags[d][k]
      /\ h = "success" => lags'[c][l] = None
      /\ h # "success" => lags'[c][l] = id
  <2>1. CASE h = "success"
    <3>1. LagBecomes(c, l, None) BY <1>1, <2>1 DEF LagBecomes
    <3>2. /\ lags' \in [Card -> [Lag -> Id \cup {None}]] /\ lags'[c][l] = None
          /\ \A d \in Card, k \in Lag : d # c \/ k # l => lags'[d][k] = lags[d][k]
      BY <1>0, <3>1, LagsFacts
    <3> QED BY <2>1, <3>2
  <2>2. CASE h # "success"
    <3>1. lags' = lags BY <1>1, <2>2
    <3> QED BY <1>0, <2>2, <3>1, <1>i DEF Types
  <2> QED BY <2>1, <2>2
<1>b. PICK b : b = IF h = "success" /\ Owner[l] = c THEN [at |-> "removed", lag |-> l, id |-> id] ELSE Idle
  OBVIOUS
<1>6. b \in Busy \cup {Idle} /\ (b # Idle => Owner[b.lag] = c) /\ (b = Idle \/ b.lag = l)
  BY <1>3, <1>b DEF Busy, Steps
<1>7. /\ pc' \in [Card -> Busy \cup {Idle}] /\ OwnWork' /\ pc'[c] = b
      /\ \A d \in Card \ {c} : pc'[d] = pc[d]
  <2>1. pc \in [Card -> Busy \cup {Idle}] BY <1>0 DEF Types
  <2>2. pc = [pc EXCEPT ![c] = Idle] BY <2>1, <1>2
  <2>3. pc' = [pc EXCEPT ![c] = b] BY <2>2, <1>1, <1>b
  <2> QED BY <1>0, <1>6, <2>3, PcFacts
<1>8. Types'
  <2>1. excused' \in SUBSET (Card \X Lag) BY <1>0, <1>1 DEF Types
  <2>2. /\ free' \in Seq(Id) /\ idSet' \in SUBSET Id /\ oldHeld' \in SUBSET Id
        /\ idTable' \in [Lag -> Id \cup {None}] /\ rows' \in [Lag -> Id \cup {None}]
        /\ inUse' \in [Card -> SUBSET Lag] /\ events' \in [Card -> Seq(Event)]
        /\ wanted' \in SUBSET Lag /\ full' \in BOOLEAN /\ dropped' \in SUBSET Id
        /\ orphaned' \in SUBSET Lag
    BY <1>0, <1>1 DEF Types
  <2> QED BY <2>1, <2>2, <1>4, <1>5, <1>7 DEF Types
<1>9. Ids' BY <1>0, <1>1, IdsFrame
<1>10. Elsewhere(c, l)
  <2> SUFFICES ASSUME NEW k \in Lag, k # l \/ Owner[k] # c
               PROVE  /\ lags'[Owner[k]][k] = lags[Owner[k]][k]
                      /\ toSync'[Owner[k]][k] = toSync[Owner[k]][k]
                      /\ <<Owner[k], k>> \in excused => <<Owner[k], k>> \in excused'
                      /\ \/ pc'[Owner[k]] = pc[Owner[k]]
                         \/ pc[Owner[k]].lag # k /\ pc'[Owner[k]].lag # k
    BY <1>1 DEF Elsewhere
  <2>1. lags'[Owner[k]][k] = lags[Owner[k]][k] /\ toSync'[Owner[k]][k] = toSync[Owner[k]][k]
    BY <1>4, <1>5, OwnerType
  <2>2. <<Owner[k], k>> \in excused => <<Owner[k], k>> \in excused' BY <1>1
  <2>3. CASE Owner[k] # c BY <2>1, <2>2, <2>3, <1>7, OwnerType
  <2>4. CASE Owner[k] = c
    <3>1. k # l BY <2>4
    <3>2. pc[c].lag # k /\ pc'[c].lag # k BY <3>1, <1>2, <1>6, <1>7, IdleFacts
    <3> QED BY <2>1, <2>2, <2>4, <3>2
  <2> QED BY <2>3, <2>4
<1>11. ASSUME Owner[l] = c PROVE OwnLag(l)'
  <2>1. OwnLag(l) /\ pc[c].lag # l BY <1>0, <1>2, IdleFacts DEF OwnLags
  <2>2. rows[l] = id /\ idTable[l] = id BY <2>1, <1>1, <1>11, <1>i DEF OwnLag
  <2>3. CASE h = "success"
    <3>1. pc'[c].lag = l /\ pc'[c].at = "removed" /\ pc'[c].id = id BY <2>3, <1>7, <1>11, <1>b
    <3>2. toSync'[c][l] # <<>> BY <2>3, <1>1, <1>2, <1>11
    <3> QED BY <3>1, <3>2, <2>2, <2>3, <1>1, <1>5, <1>11 DEF OwnLag
  <2>4. CASE h # "success"
    <3>1. pc'[c].lag # l BY <2>4, <1>7, <1>b, IdleFacts
    <3>2. lags'[c][l] = id BY <2>4, <1>5
    <3> QED BY <3>1, <3>2, <2>2, <1>1, <1>11 DEF OwnLag
  <2> QED BY <2>3, <2>4
<1>12. OwnLags' BY <1>0, <1>10, <1>11, OwnLagsStep
<1> QED BY <1>4, <1>7, <1>8, <1>9, <1>12 DEF IInv

\* The id of a LAG that has been removed goes back: it is the LAG's own, so
\* the retry of freeLagId is never taken.
LEMMA FreeStep == ASSUME IInv, NEW c \in Card, freeLagId(c) PROVE IInv'
<1>0. Types /\ Shapes /\ OwnWork /\ Ids /\ OwnLags BY DEF IInv
<1>l. PICK l : l = pc[c].lag OBVIOUS
<1>i. PICK id : id = pc[c].id OBVIOUS
<1>1. /\ pc[c].at = "removed" /\ lagIdDelEffect(l)
      /\ pc' = [pc EXCEPT ![c] = IF lagIdDel(l) # id THEN Idle ELSE [pc[c] EXCEPT !.at = "freed"]]
      /\ orphaned' = orphaned \ {l}
      /\ UNCHANGED <<rows, oldHeld, full, dropped, lags, inUse, toSync, events, excused, wanted>>
  BY <1>l, <1>i DEF freeLagId, bounds
<1>2. /\ pc[c] \in Busy /\ l \in Lag /\ id \in Id /\ Owner[l] = c /\ OwnLag(l) /\ toSync[c][l] # <<>>
  BY <1>1, <1>l, <1>i, BusyFacts
<1>3. idTable[l] = id /\ lags[c][l] = None BY <1>1, <1>2, <1>l, <1>i DEF OwnLag
<1>4. idTable' = [idTable EXCEPT ![l] = None] /\ free' \in Seq(Id) /\ idSet' \in SUBSET Id /\ Ids'
  <2>1. UNCHANGED <<oldHeld, dropped>> BY <1>1
  <2> QED BY <1>0, <1>1, <1>2, <2>1, DelFacts
<1>b. PICK b : b = [pc[c] EXCEPT !.at = "freed"] OBVIOUS
<1>5. b \in Busy /\ b.at = "freed" /\ b.lag = l BY <1>2, <1>b, <1>l DEF Busy, Steps
<1>6. pc' = [pc EXCEPT ![c] = b] BY <1>1, <1>3, <1>b DEF lagIdDel
<1>7. /\ pc' \in [Card -> Busy \cup {Idle}] /\ OwnWork' /\ pc'[c] = b
      /\ \A d \in Card \ {c} : pc'[d] = pc[d]
  BY <1>0, <1>2, <1>5, <1>6, PcFacts
<1>8. idTable' \in [Lag -> Id \cup {None}] /\ idTable'[l] = None /\ \A k \in Lag \ {l} : idTable'[k] = idTable[k]
  BY <1>0, <1>2, <1>4 DEF Types
<1>9. Types' BY <1>0, <1>1, <1>4, <1>7, <1>8 DEF Types
<1>10. Shapes' BY <1>0, <1>1 DEF Shapes
<1>11. Elsewhere(c, l)
  <2> SUFFICES ASSUME NEW k \in Lag, k # l \/ Owner[k] # c
               PROVE  /\ idTable'[k] = idTable[k]
                      /\ k \in orphaned => k \in orphaned'
                      /\ \/ pc'[Owner[k]] = pc[Owner[k]]
                         \/ pc[Owner[k]].lag # k /\ pc'[Owner[k]].lag # k
    BY <1>1 DEF Elsewhere
  <2>1. k # l BY <1>2
  <2>2. idTable'[k] = idTable[k] /\ (k \in orphaned => k \in orphaned') BY <2>1, <1>1, <1>8
  <2>3. CASE Owner[k] # c BY <2>2, <2>3, <1>7, OwnerType
  <2>4. CASE Owner[k] = c BY <2>1, <2>2, <2>4, <1>5, <1>7, <1>l
  <2> QED BY <2>3, <2>4
<1>12. OwnLag(l)' BY <1>1, <1>2, <1>3, <1>5, <1>7, <1>8 DEF OwnLag
<1>13. OwnLags' BY <1>0, <1>2, <1>11, <1>12, OwnLagsStep
<1> QED BY <1>4, <1>7, <1>9, <1>10, <1>13 DEF IInv
-----------------------------------------------------------------------------
(* The theorems                                                            *)

\* The chassis starts with every id listed once and no LAG anywhere.
LEMMA InitIInv == Init => IInv
<1> SUFFICES ASSUME Init PROVE IInv OBVIOUS
<1> USE DEF Init
<1>1. MaxId \in Nat /\ Id = 1 .. MaxId /\ free = [i \in 1 .. MaxId |-> i] BY LagAssumption DEF Id
<1>2. free \in Seq(Id) /\ Len(free) = MaxId /\ \A i \in 1 .. MaxId : free[i] = i
  <2>1. \A i \in 1 .. MaxId : i \in Id BY <1>1
  <2> QED BY <1>1, <2>1, SeqDef, LenProperties
<1>3. Types
  <2>1. <<>> \in Seq(Task) /\ <<>> \in Seq(Event) BY EmptySeq
  <2> QED BY <1>2, <2>1 DEF Types
<1>4. Shapes BY DEF Shapes, Shape
<1>5. OwnWork BY DEF OwnWork
<1>6. Ids
  <2>1. FreeOnce BY <1>2 DEF FreeOnce
  <2>2. FreeNotTaken BY <1>1, <1>2, IdFacts DEF FreeNotTaken
  <2>3. OneEach /\ SetExact BY DEF OneEach, SetExact
  <2>4. NothingMissing BY <1>1, <1>2 DEF NothingMissing, Listed
  <2> QED BY <2>1, <2>2, <2>3, <2>4 DEF Ids
<1>7. OwnLags
  <2> SUFFICES ASSUME NEW l \in Lag PROVE OwnLag(l) BY DEF OwnLags
  <2>1. pc[Owner[l]].lag # l BY OwnerType, IdleFacts
  <2> QED BY <2>1, OwnerType DEF OwnLag
<1> QED BY <1>3, <1>4, <1>5, <1>6, <1>7 DEF IInv

\* Nothing happens.
LEMMA StutterStep == ASSUME IInv, UNCHANGED vars PROVE IInv'
<1> USE DEF IInv, vars, chassisVars, cardVars, history, bounds
<1>1. Types' BY DEF Types
<1>2. Shapes' /\ OwnWork' BY DEF Shapes, OwnWork
<1>3. Ids' BY IdsFrame
<1>4. OwnLags' BY OwnLagFrame DEF OwnLags
<1> QED BY <1>1, <1>2, <1>3, <1>4

\* Every step of every card keeps the inductive invariant.
LEMMA NextIInv == IInv /\ [Next]_vars => IInv'
<1> SUFFICES ASSUME IInv, [Next]_vars PROVE IInv' OBVIOUS
<1>1. CASE \E l \in Lag : Configure(l) \/ Unconfigure(l) BY <1>1, ConfigureStep, UnconfigureStep
<1>2. CASE \E id \in Id : OldTake(id) \/ OldGive(id) BY <1>2, OldTakeStep, OldGiveStep
<1>3. CASE \E c \in Card : Notified(c) BY <1>3, NotifiedStep
<1>4. CASE \E c \in Card : doLagTask(c)
  <2>1. PICK c \in Card : doLagTask(c) BY <1>4
  <2>2. CASE \E l \in Lag : \E i \in 1 .. 2 : setKnownLag(c, l, i) BY <2>2, SetKnownStep
  <2>3. CASE \E l \in Lag : allocateLagId(c, l) BY <2>3, AllocateStep
  <2>4. CASE \E l \in Lag : \E s \in {"success", "full", "failed"} : createSystemLag(c, l, s)
    BY <2>4, CreateSystemStep
  <2>5. CASE \E l \in Lag : \E s \in {"success", "failed"} : removeLag(c, l, s) BY <2>5, RemoveStep
  <2>6. CASE \E l \in Lag : delUnknownLag(c, l) BY <2>6, DelUnknownStep
  <2>7. CASE \E s \in {"success", "full", "failed"} : createLocalLag(c, s) BY <2>7, CreateLocalStep
  <2>8. CASE voqSyncAddLag(c) BY <2>8, SyncAddStep
  <2>9. CASE freeLagId(c) BY <2>9, FreeStep
  <2>10. CASE voqSyncDelLag(c) BY <2>10, SyncDelStep
  <2> QED BY <2>1, <2>2, <2>3, <2>4, <2>5, <2>6, <2>7, <2>8, <2>9, <2>10 DEF doLagTask
<1>5. CASE \E c \in Card, l \in Lag : Use(c, l) \/ Unuse(c, l) BY <1>5, UseStep
<1>6. CASE UNCHANGED vars BY <1>6, StutterStep
<1> QED BY <1>1, <1>2, <1>3, <1>4, <1>5, <1>6 DEF Next

\* The inductive invariant holds throughout.
LEMMA SpecIInv == Spec => []IInv
<1>1. Init => IInv BY InitIInv
<1>2. IInv /\ [Next]_vars => IInv' BY NextIInv
<1> QED BY <1>1, <1>2, PTL DEF Spec

\* A LAG in the ASIC of its own card has the id that the table has for it.
LEMMA IdOfLag ==
  ASSUME IInv, NEW l \in Lag, lags[Owner[l]][l] # None
  PROVE  lags[Owner[l]][l] = idTable[l]
<1>1. OwnLag(l) BY DEF IInv, OwnLags
<1>2. CASE pc[Owner[l]].lag # l BY <1>1, <1>2 DEF OwnLag
<1>3. CASE pc[Owner[l]].lag = l
  <2>1. pc[Owner[l]] \in Busy \cup {Idle} BY OwnerType DEF IInv, Types
  <2>2. pc[Owner[l]] \in Busy BY <2>1, <1>3, IdleFacts
  <2>3. pc[Owner[l]].at \in Steps BY <2>2 DEF Busy
  <2> QED BY <1>1, <1>3, <2>3 DEF OwnLag, Steps
<1> QED BY <1>2, <1>3

\* The type invariant.
LEMMA IInvTypeOK == IInv => TypeOK
<1> SUFFICES ASSUME IInv PROVE TypeOK OBVIOUS
<1>1. Types /\ Shapes BY DEF IInv
<1>2. \A c \in Card, l \in Lag : toSync[c][l] \in Seq(Task) /\ Len(toSync[c][l]) <= 2
  BY <1>1 DEF Types, Shapes, Shape
<1>3. \A c \in Card : \A i \in DOMAIN events[c] : events[c][i] \in [op : {"SET", "DEL"}, lag : Lag]
  <2> SUFFICES ASSUME NEW c \in Card, NEW i \in DOMAIN events[c]
               PROVE  events[c][i] \in [op : {"SET", "DEL"}, lag : Lag]
    OBVIOUS
  <2>1. events[c] \in Seq(Event) BY <1>1 DEF Types
  <2>2. i \in 1 .. Len(events[c]) BY <2>1, LenProperties
  <2>3. events[c][i] \in Event BY <2>1, <2>2, ElementOfSeq
  <2> QED BY <2>3 DEF Event
<1>4. pc \in [Card -> [at : Steps, lag : Lag, id : Id] \cup {Idle}] BY <1>1 DEF Types, Busy
<1>5. {idTable, rows} \subseteq [Lag -> Id \cup {None}] BY <1>1 DEF Types
<1> QED BY <1>1, <1>2, <1>3, <1>4, <1>5 DEF TypeOK, Types

\* The three structures of lagids.lua agree, and no id is lost or kept.
LEMMA IInvConsistent == IInv => Consistent
<1> SUFFICES ASSUME IInv PROVE Consistent OBVIOUS
<1>0. Types /\ Ids /\ OwnLags BY DEF IInv
<1>a. PICK n \in Nat : n = Len(free) /\ DOMAIN free = 1 .. n BY <1>0, LenProperties DEF Types
<1>b. PICK taken : taken = {idTable[l] : l \in Lag} \ {None} OBVIOUS
<1>1. FreeListSound
  <2>1. IsInjective(free) BY <1>0, <1>a DEF IsInjective, Ids, FreeOnce
  <2>2. Range(free) \cap taken = {} BY <1>0, <1>a, <1>b DEF Range, Ids, FreeNotTaken
  <2>3. taken \cap oldHeld = {} BY <1>0, <1>b DEF Ids, SetExact
  <2>4. idSet = taken \cup oldHeld
    <3>1. taken \cup oldHeld \subseteq idSet BY <1>0, <1>b DEF Ids, SetExact
    <3>2. ASSUME NEW x \in idSet PROVE x \in taken \cup oldHeld
      <4>1. x # None BY <1>0, <3>2, IdFacts DEF Types
      <4> QED BY <1>0, <3>2, <4>1, <1>b DEF Ids, SetExact
    <3> QED BY <3>1, <3>2
  <2> QED BY <2>1, <2>2, <2>3, <2>4, <1>b DEF FreeListSound
<1>2. FullMeansFull
  <2>1. \A x : Listed(x) => x \in Range(free) BY <1>a DEF Listed, Range
  <2>2. Id \subseteq Range(free) \cup idSet \cup dropped BY <1>0, <2>1 DEF Ids, NothingMissing
  <2> QED BY <1>0, <2>2 DEF FullMeansFull, Ids, NothingMissing
<1>3. NoIdKept BY <1>0 DEF NoIdKept, OwnLags, OwnLag
<1> QED BY <1>1, <1>2, <1>3, IInvTypeOK DEF Consistent

\* CHASSIS_APP_DB is consistent whatever the cards interleave: every id is in
\* the free list once, held for a LAG that needs it, used by a card of the
\* previous image or was dropped from the list while such a card used it
\* (lagids.lua; addLag and removeLag of portsorch.cpp).
THEOREM SpecConsistent == Spec => []Consistent
BY SpecIInv, IInvConsistent, PTL

\* No two LAGs of the chassis have the same id in the ASICs of their cards,
\* and none has an id that a card of the previous image uses.
THEOREM SpecIdsUnique == Spec => []IdsUnique
<1>1. IInv => IdsUnique
  <2> SUFFICES ASSUME IInv, NEW l \in Lag, lags[Owner[l]][l] # None
               PROVE  /\ lags[Owner[l]][l] \notin oldHeld
                      /\ \A k \in Lag \ {l} : lags[Owner[k]][k] # lags[Owner[l]][l]
    BY DEF IdsUnique
  <2>0. OneEach /\ SetExact BY DEF IInv, Ids
  <2>1. lags[Owner[l]][l] = idTable[l] BY IdOfLag
  <2>2. lags[Owner[l]][l] \notin oldHeld BY <2>0, <2>1 DEF SetExact
  <2>3. ASSUME NEW k \in Lag \ {l}, lags[Owner[k]][k] = lags[Owner[l]][l] PROVE FALSE
    <3>1. lags[Owner[k]][k] = idTable[k] BY <2>3, IdOfLag
    <3> QED BY <2>0, <2>1, <2>3, <3>1 DEF OneEach
  <2> QED BY <2>2, <2>3
<1> QED BY <1>1, SpecIInv, PTL

\* A row of SYSTEM_LAG_TABLE tells the id its LAG has, on the card that owns
\* it and in the table of ids, whenever that card is not in the middle of a
\* request for the LAG (voqSyncAddLag, voqSyncDelLag).
THEOREM SpecRowsTruthful == Spec => []RowsTruthful
<1>1. IInv => RowsTruthful BY DEF IInv, OwnLags, OwnLag, RowsTruthful
<1> QED BY <1>1, SpecIInv, PTL
=============================================================================
