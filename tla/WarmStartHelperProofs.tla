----------------------- MODULE WarmStartHelperProofs ------------------------
(***************************************************************************)
(* Proofs about WarmStartHelper, for any keys, fields, rows and routes of  *)
(* zebra, and however often the connection is lost or the daemon dies: a   *)
(* restart ends with the rows zebra wants, and is hitless.  Both hold when *)
(* every key is written to a table that is registered with the helper;     *)
(* label routes are not (see Context).                                     *)
(***************************************************************************)
EXTENDS WarmStartHelper, FiniteSetTheorems, TLAPS

OnlyRegistered == \A k \in Key : TableOf[k] \in Registered

\* zebra has told all it wants for the route.
Known(k) == k \notin dirty \cup missed

\* The refresh map has what zebra wants.
RefreshOk(k) ==
  Known(k) => IF zebra[k] = NoRow THEN refreshMap[Home(k)].op # "SET"
              ELSE refreshMap[Home(k)].op = "SET" /\ refreshMap[Home(k)].fvs = zebra[k]

\* The row is what zebra wants, once orchagent has popped what is staged.
InStep(k) == Known(k) => Same(Effect(Home(k)), zebra[k])

\* A row that reconcile() has not come to: as it was read back.
Untouched(k) ==
  /\ staged[Home(k)] = NoStage
  /\ restorationVector[Home(k)] = appdb[Home(k)]
  /\ RefreshOk(k)

Done(k) == restorationVector[Home(k)] = NoRow /\ refreshMap[Home(k)] = NotRefreshed

KeyInv(k) ==
  /\ phase \in {"RECONCILED", "WSDISABLED"} => InStep(k)
  /\ phase = "RESTORED" => Untouched(k)
  /\ phase = "reconciling" => IF Done(k) THEN InStep(k) ELSE Untouched(k)

\* zebra has sent the route again, as it is in the database.
Promised(k) == refreshMap[Home(k)].op = "SET" /\ Same(refreshMap[Home(k)].fvs, zebra[k])

\* A route that was in step when the connection was lost.
SteadyInv(k) ==
  phase = "down" \/ ~early =>
    /\ zebra[k] # NoRow /\ Same(appdb[Home(k)], zebra[k]) /\ Same(Effect(Home(k)), zebra[k])
    /\ phase \in {"down", "RESTORED", "reconciling"} => staged[Home(k)] = NoStage
    /\ phase = "RESTORED" /\ k \notin dump => Promised(k)
    /\ phase = "reconciling" /\ restorationVector[Home(k)] # NoRow => Promised(k)

\* A row no key is written to.
Foreign(l) ==
  l # Home(l[2]) => /\ appdb[l] = NoRow /\ staged[l] = NoStage
                    /\ restorationVector[l] = NoRow /\ refreshMap[l] = NotRefreshed

IInv ==
  /\ TypeOK
  /\ \A k \in Key : KeyInv(k)
  /\ \A k \in steady : SteadyInv(k)
  /\ \A l \in Loc : Foreign(l)
  /\ phase = "RESTORED" => ~early
-----------------------------------------------------------------------------
(* Rows and lists                                                          *)

\* NoRow is a row, and what zebra wants is one or none.
LEMMA RowFacts == NoRow \in Row /\ Entry \cup {NoRow} \subseteq Row /\ NoRow \notin Entry
BY EntryAssumption DEF Row, NoRow

\* HSET of a row is a row.
LEMMA HSetType == \A row, fvs \in Row : HSet(row, fvs) \in Row
BY DEF HSet, Row

\* What a pop makes of the operations fpmsyncd stages.
LEMMA PoppedFacts ==
  /\ \A row \in Row : Popped(row, NoStage) = row
  /\ \A row : \A s : Popped(row, StageDel(s)) = NoRow
  /\ \A row, v \in Row : \A s : Popped(row, StageSet(StageDel(s), v)) = v
  /\ \A v \in Row : Popped(NoRow, StageSet(NoStage, v)) = v
  /\ \A row, v \in Row : \A b \in BOOLEAN : Popped(row, [del |-> b, fvs |-> v]) \in Row
<1> USE DEF Popped, HSet, NoStage, StageDel, StageSet, NoRow, Row
<1>1. \A row \in Row : Popped(row, NoStage) = row OBVIOUS
<1>2. \A row : \A s : Popped(row, StageDel(s)) = NoRow OBVIOUS
<1>3. \A row, v \in Row : \A s : Popped(row, StageSet(StageDel(s), v)) = v OBVIOUS
<1>4. \A v \in Row : Popped(NoRow, StageSet(NoStage, v)) = v OBVIOUS
<1>5. \A row, v \in Row : \A b \in BOOLEAN : Popped(row, [del |-> b, fvs |-> v]) \in Row OBVIOUS
<1> QED BY <1>1, <1>2, <1>3, <1>4, <1>5

\* The operations staged keep their type.
LEMMA StageTypes ==
  /\ NoStage \in [del : BOOLEAN, fvs : Row]
  /\ \A s : StageDel(s) \in [del : BOOLEAN, fvs : Row]
  /\ \A s \in [del : BOOLEAN, fvs : Row] : \A v \in Row : StageSet(s, v) \in [del : BOOLEAN, fvs : Row]
<1>1. NoStage \in [del : BOOLEAN, fvs : Row] BY RowFacts DEF NoStage
<1>2. \A s : StageDel(s) \in [del : BOOLEAN, fvs : Row] BY RowFacts DEF StageDel
<1>3. ASSUME NEW s \in [del : BOOLEAN, fvs : Row], NEW v \in Row
      PROVE  StageSet(s, v) \in [del : BOOLEAN, fvs : Row]
  <2>1. s.del \in BOOLEAN /\ s.fvs \in Row OBVIOUS
  <2>2. HSet(s.fvs, v) \in Row BY <2>1, HSetType
  <2> QED BY <2>1, <2>2 DEF StageSet
<1> QED BY <1>1, <1>2, <1>3

\* Same is an equivalence.
LEMMA SameFacts ==
  /\ \A v : Same(v, v)
  /\ \A v, w : Same(v, w) => Same(w, v)
  /\ \A u, v, w : Same(u, v) /\ Same(v, w) => Same(u, w)
BY DEF Same

\* CompareAllFV finds every difference: it looks at the fields of the second
\* row only, but the number of fields is the same.
LEMMA CompareSame ==
  ASSUME NEW v \in Row, NEW w \in Row, ~CompareAllFV(v, w) PROVE Same(v, w)
<1> DEFINE V == {f \in Field : v[f] # NoValue}
           W == {f \in Field : w[f] # NoValue}
<1>1. IsFiniteSet(V) /\ IsFiniteSet(W) BY FieldAssumption, FS_Subset
<1>2. Cardinality(V) = Cardinality(W) BY DEF CompareAllFV, Size
<1>3. W \subseteq V BY DEF CompareAllFV
<1>4. V = W
  <2> HIDE DEF V, W
  <2> QED BY <1>1, <1>2, <1>3, FS_Subset
<1>5. \A f \in Field : \A x \in Token : Occurrences(v[f], x) = Occurrences(w[f], x)
  <2> TAKE f \in Field
  <2> TAKE x \in Token
  <2>1. CASE f \in W BY <2>1 DEF CompareAllFV, CompareOneFV
  <2>2. CASE f \notin W
    <3>1. v[f] = NoValue /\ w[f] = NoValue BY <1>4, <2>2
    <3> QED BY <3>1
  <2> QED BY <2>1, <2>2
<1> QED BY <1>5 DEF Same

\* The members of a list, one by one.
LEMMA OccurrencesFacts ==
  /\ \A z : Occurrences(<<>>, z) = 0
  /\ \A x, z : Occurrences(<<x>>, z) = IF x = z THEN 1 ELSE 0
  /\ \A x, y, z : Occurrences(<<x, y>>, z) = IF x = z THEN (IF y = z THEN 2 ELSE 1)
                                             ELSE (IF y = z THEN 1 ELSE 0)
<1>0. /\ Cardinality({}) = 0 /\ Cardinality({1}) = 1 /\ Cardinality({2}) = 1
      /\ Cardinality({1, 2}) = 2
  <2>1. Cardinality({}) = 0 BY FS_EmptySet
  <2>2. Cardinality({1}) = 1 /\ Cardinality({2}) = 1 /\ IsFiniteSet({1}) BY FS_Singleton
  <2>3. Cardinality({1} \cup {2}) = 2 BY <2>2, FS_AddElement
  <2>4. {1} \cup {2} = {1, 2} OBVIOUS
  <2> QED BY <2>1, <2>2, <2>3, <2>4
<1>1. ASSUME NEW z PROVE Occurrences(<<>>, z) = 0
  <2>1. {i \in DOMAIN <<>> : <<>>[i] = z} = {} OBVIOUS
  <2> QED BY <2>1, <1>0 DEF Occurrences
<1>2. ASSUME NEW x, NEW z PROVE Occurrences(<<x>>, z) = IF x = z THEN 1 ELSE 0
  <2>1. {i \in DOMAIN <<x>> : <<x>>[i] = z} = IF x = z THEN {1} ELSE {} OBVIOUS
  <2> QED BY <2>1, <1>0 DEF Occurrences
<1>3. ASSUME NEW x, NEW y, NEW z
      PROVE  Occurrences(<<x, y>>, z) = IF x = z THEN (IF y = z THEN 2 ELSE 1)
                                        ELSE (IF y = z THEN 1 ELSE 0)
  <2>1. {i \in DOMAIN <<x, y>> : <<x, y>>[i] = z} =
          IF x = z THEN (IF y = z THEN {1, 2} ELSE {1}) ELSE (IF y = z THEN {2} ELSE {})
    OBVIOUS
  <2> QED BY <2>1, <1>0 DEF Occurrences
<1> QED BY <1>1, <1>2, <1>3

\* A list is none, one member or two.
LEMMA ListCases ==
  ASSUME NEW s \in Value \cup {NoValue}
  PROVE  \/ s = <<>>
         \/ \E x \in Token : s = <<x>>
         \/ \E x, y \in Token : s = <<x, y>>
BY NoValueAssumption DEF Value

\* Lists with the same members have the same length, and none is like none only.
LEMMA SameLists ==
  ASSUME NEW s \in Value \cup {NoValue}, NEW t \in Value \cup {NoValue},
         \A x \in Token : Occurrences(s, x) = Occurrences(t, x)
  PROVE  Len(s) = Len(t) /\ (s = NoValue <=> t = NoValue)
<1> USE NoValueAssumption
<1>1. ASSUME NEW a \in Value \cup {NoValue}, NEW b \in Value \cup {NoValue}, a = <<>>,
             \A x \in Token : Occurrences(a, x) = Occurrences(b, x)
      PROVE  b = <<>>
  <2>1. \A x \in Token : Occurrences(b, x) = 0 BY <1>1, OccurrencesFacts
  <2>2. ASSUME NEW x \in Token, b = <<x>> PROVE FALSE BY <2>1, <2>2, OccurrencesFacts
  <2>3. ASSUME NEW x \in Token, NEW y \in Token, b = <<x, y>> PROVE FALSE
    <3>1. Occurrences(b, x) # 0 BY <2>3, OccurrencesFacts
    <3> QED BY <2>1, <3>1
  <2> QED BY <2>2, <2>3, ListCases
<1>2. ASSUME NEW x \in Token, NEW y \in Token, NEW z \in Token,
             \A v \in Token : Occurrences(<<x>>, v) = Occurrences(<<y, z>>, v)
      PROVE  FALSE
  <2>1. Occurrences(<<x>>, y) = Occurrences(<<y, z>>, y) /\ Occurrences(<<x>>, z) = Occurrences(<<y, z>>, z)
    BY <1>2
  <2>2. CASE y = z
    <3>1. Occurrences(<<y, z>>, y) = 2 BY <2>2, OccurrencesFacts
    <3>2. Occurrences(<<x>>, y) \in {0, 1} BY OccurrencesFacts
    <3> QED BY <2>1, <3>1, <3>2
  <2>3. CASE y # z
    <3>1. Occurrences(<<y, z>>, y) = 1 /\ Occurrences(<<y, z>>, z) = 1 BY <2>3, OccurrencesFacts
    <3>2. x = y BY <2>1, <3>1, OccurrencesFacts
    <3>3. x = z BY <2>1, <3>1, OccurrencesFacts
    <3> QED BY <2>3, <3>2, <3>3
  <2> QED BY <2>2, <2>3
<1>3. s = <<>> <=> t = <<>> BY <1>1
<1>4. CASE s = <<>> BY <1>3, <1>4
<1>5. CASE s # <<>>
  <2>1. t # <<>> BY <1>3, <1>5
  <2>2. (\E x \in Token : s = <<x>>) \/ (\E x, y \in Token : s = <<x, y>>) BY <1>5, ListCases
  <2>3. (\E x \in Token : t = <<x>>) \/ (\E x, y \in Token : t = <<x, y>>) BY <2>1, ListCases
  <2>4. CASE (\E x \in Token : s = <<x>>) /\ (\E x \in Token : t = <<x>>)
    <3>1. Len(s) = 1 /\ Len(t) = 1 BY <2>4
    <3> QED BY <3>1, <1>5, <2>1
  <2>5. CASE (\E x, y \in Token : s = <<x, y>>) /\ (\E x, y \in Token : t = <<x, y>>)
    <3>1. Len(s) = 2 /\ Len(t) = 2 BY <2>5
    <3> QED BY <3>1, <1>5, <2>1
  <2>6. CASE (\E x \in Token : s = <<x>>) /\ (\E x, y \in Token : t = <<x, y>>)
    <3>1. PICK x \in Token : s = <<x>> BY <2>6
    <3>2. PICK y \in Token, z \in Token : t = <<y, z>> BY <2>6
    <3> QED BY <3>1, <3>2, <1>2
  <2>7. CASE (\E x, y \in Token : s = <<x, y>>) /\ (\E x \in Token : t = <<x>>)
    <3>1. PICK x \in Token : t = <<x>> BY <2>7
    <3>2. PICK y \in Token, z \in Token : s = <<y, z>> BY <2>7
    <3>3. \A v \in Token : Occurrences(<<x>>, v) = Occurrences(<<y, z>>, v) BY <3>1, <3>2
    <3> QED BY <3>3, <1>2
  <2> QED BY <2>2, <2>3, <2>4, <2>5, <2>6, <2>7
<1> QED BY <1>4, <1>5

\* CompareAllFV does not see the order of the members.
LEMMA SameCompare ==
  ASSUME NEW v \in Row, NEW w \in Row, Same(v, w) PROVE ~CompareAllFV(v, w)
<1>1. \A f \in Field : v[f] \in Value \cup {NoValue} /\ w[f] \in Value \cup {NoValue} BY DEF Row
<1>2. \A f \in Field : Len(v[f]) = Len(w[f]) /\ (v[f] = NoValue <=> w[f] = NoValue)
  BY <1>1, SameLists DEF Same
<1>3. {f \in Field : v[f] # NoValue} = {f \in Field : w[f] # NoValue} BY <1>2
<1>4. Size(v) = Size(w) BY <1>3 DEF Size
<1>5. \A f \in Field : w[f] # NoValue => v[f] # NoValue /\ ~CompareOneFV(v[f], w[f])
  BY <1>2 DEF Same, CompareOneFV
<1> QED BY <1>4, <1>5 DEF CompareAllFV

\* Only NoRow is the same as NoRow.
LEMMA SameNoRow ==
  ASSUME NEW v \in Row, NEW w \in Row, Same(v, w), v # NoRow PROVE w # NoRow
<1>1. \A f \in Field : v[f] \in Value \cup {NoValue} /\ w[f] \in Value \cup {NoValue} BY DEF Row
<1>2. \A f \in Field : v[f] = NoValue <=> w[f] = NoValue BY <1>1, SameLists DEF Same
<1> SUFFICES ASSUME w = NoRow PROVE v = NoRow OBVIOUS
<1>3. \A f \in Field : v[f] = NoValue BY <1>2 DEF NoRow
<1> QED BY <1>3 DEF NoRow, Row
-----------------------------------------------------------------------------
(* What a step leaves alone                                                *)

\* The row of a key.
LEMMA HomeFacts ==
  /\ \A k \in Key : Home(k) \in Loc /\ Home(k)[2] = k
  /\ \A j, k \in Key : Home(j) = Home(k) => j = k
  /\ \A l \in Loc : l[2] \in Key
  /\ OnlyRegistered => \A k \in Key : Context(k) = Home(k)
<1>1. \A k \in Key : TableOf[k] \in Table BY TableOfAssumption
<1>2. OnlyRegistered => \A k \in Key : Context(k) = Home(k)
  BY DEF OnlyRegistered, Registered, Context, Home
<1> QED BY <1>1, <1>2 DEF Home, Loc

\* What orchagent will have made of a row is a row.
LEMMA EffectType == ASSUME TypeOK, NEW l \in Loc PROVE Effect(l) \in Row
<1>1. appdb[l] \in Row /\ staged[l] \in [del : BOOLEAN, fvs : Row] BY DEF TypeOK
<1>2. staged[l].del \in BOOLEAN /\ staged[l].fvs \in Row BY <1>1
<1>3. staged[l] = [del |-> staged[l].del, fvs |-> staged[l].fvs] BY <1>1
<1> QED BY <1>1, <1>2, <1>3, PoppedFacts DEF Effect

\* A row for which nothing is staged.
LEMMA EffectOfNoStage == ASSUME TypeOK, NEW l \in Loc, staged[l] = NoStage PROVE Effect(l) = appdb[l]
<1>1. appdb[l] \in Row BY DEF TypeOK
<1> QED BY <1>1, PoppedFacts DEF Effect

\* A step that does not touch the row of k.
LEMMA KeyFrame ==
  ASSUME NEW k \in Key, KeyInv(k), zebra'[k] = zebra[k], appdb'[Home(k)] = appdb[Home(k)],
         staged'[Home(k)] = staged[Home(k)],
         restorationVector'[Home(k)] = restorationVector[Home(k)],
         refreshMap'[Home(k)] = refreshMap[Home(k)], phase' = phase, Known(k)' => Known(k)
  PROVE  KeyInv(k)'
<1>1. InStep(k) => InStep(k)' BY DEF InStep, Effect
<1>2. Untouched(k) => Untouched(k)' BY DEF Untouched, RefreshOk
<1>3. Done(k)' <=> Done(k) BY DEF Done
<1> QED BY <1>1, <1>2, <1>3 DEF KeyInv

\* What leaves a key's rows and maps alone keeps its part of the invariant.
LEMMA SteadyFrame ==
  ASSUME NEW k \in Key, SteadyInv(k), zebra'[k] = zebra[k], appdb'[Home(k)] = appdb[Home(k)],
         staged'[Home(k)] = staged[Home(k)],
         restorationVector'[Home(k)] = restorationVector[Home(k)],
         refreshMap'[Home(k)] = refreshMap[Home(k)], phase' = phase, early' = early,
         k \in dump => k \in dump'
  PROVE  SteadyInv(k)'
BY DEF SteadyInv, Effect, Promised

\* A row reconcile() has nothing to do for is in step.
LEMMA DoneInStep == ASSUME TypeOK, NEW k \in Key, Untouched(k), Done(k) PROVE InStep(k)
<1>1. Home(k) \in Loc BY HomeFacts
<1>2. Effect(Home(k)) = NoRow BY <1>1, EffectOfNoStage DEF Untouched, Done
<1>3. Known(k) => zebra[k] = NoRow BY DEF Untouched, RefreshOk, Done, NotRefreshed
<1> QED BY <1>2, <1>3, SameFacts DEF InStep
-----------------------------------------------------------------------------
(* zebra, orchagent and the connection                                     *)

\* In the beginning the rows are what zebra wants.
LEMMA InitIInv == Init => IInv
<1> SUFFICES ASSUME Init PROVE IInv OBVIOUS
<1> USE DEF Init
<1>1. TypeOK
  <2>1. zebra \in [Key -> Entry \cup {NoRow}] /\ \A k \in Key : zebra[k] \in Row BY RowFacts
  <2>2. appdb \in [Loc -> Row] BY <2>1, HomeFacts, RowFacts
  <2>3. staged \in [Loc -> [del : BOOLEAN, fvs : Row]] BY StageTypes
  <2>4. restorationVector \in [Loc -> Row] BY RowFacts
  <2>5. refreshMap \in [Loc -> Refreshed] BY DEF NotRefreshed, Refreshed
  <2>6. 0 \in 0 .. MaxDrops /\ 0 \in 0 .. MaxChanges BY BoundAssumption
  <2> QED BY <2>1, <2>2, <2>3, <2>4, <2>5, <2>6 DEF TypeOK
<1>2. ASSUME NEW k \in Key PROVE KeyInv(k)
  <2>1. Home(k) \in Loc /\ Home(k)[2] = k BY HomeFacts
  <2>2. appdb[Home(k)] = zebra[k] /\ staged[Home(k)] = NoStage BY <2>1
  <2>3. Effect(Home(k)) = zebra[k] BY <1>1, <2>1, <2>2, EffectOfNoStage
  <2>4. InStep(k) BY <2>3, SameFacts DEF InStep
  <2> QED BY <2>4 DEF KeyInv
<1>3. \A l \in Loc : Foreign(l) BY DEF Foreign
<1> QED BY <1>1, <1>2, <1>3 DEF IInv

\* zebra changes a route, and will tell.
LEMMA ChangeStep ==
  ASSUME IInv, NEW k \in Key, NEW e \in Entry \cup {NoRow}, ZebraChange(k, e) PROVE IInv'
<1>0. /\ zebra' = [zebra EXCEPT ![k] = e] /\ changes < MaxChanges /\ changes' = changes + 1
      /\ dirty' = IF phase = "down" THEN dirty ELSE dirty \cup {k}
      /\ steady' = IF Same(e, zebra[k]) THEN steady ELSE steady \ {k}
      /\ UNCHANGED <<appdb, staged, phase, restorationVector, refreshMap, dump, missed, early, drops>>
  BY DEF ZebraChange, helperVars
<1>a. TypeOK BY DEF IInv
<1>b. zebra'[k] = e /\ \A j \in Key \ {k} : zebra'[j] = zebra[j] BY <1>0, <1>a DEF TypeOK
<1>1. TypeOK'
  <2>1. zebra' \in [Key -> Entry \cup {NoRow}] BY <1>0, <1>a DEF TypeOK
  <2>2. dirty' \subseteq Key /\ steady' \subseteq Key BY <1>0, <1>a DEF TypeOK
  <2>3. changes' \in 0 .. MaxChanges BY <1>0, <1>a, BoundAssumption DEF TypeOK
  <2> QED BY <1>0, <1>a, <2>1, <2>2, <2>3 DEF TypeOK
<1>2. ASSUME NEW j \in Key PROVE KeyInv(j)'
  <2>0. KeyInv(j) BY DEF IInv
  <2>1. CASE j # k
    <3>1. Known(j)' => Known(j) BY <1>0 DEF Known
    <3> QED BY <1>0, <1>b, <2>0, <2>1, <3>1, KeyFrame
  <2>2. CASE j = k /\ phase = "down" BY <1>0, <2>2 DEF KeyInv
  <2>3. CASE j = k /\ phase # "down"
    <3>1. ~Known(k)' BY <1>0, <2>3 DEF Known
    <3>2. InStep(k)' BY <3>1 DEF InStep
    <3>3. RefreshOk(k)' BY <3>1 DEF RefreshOk
    <3>4. Untouched(k) => Untouched(k)' BY <1>0, <3>3 DEF Untouched
    <3>5. Done(k)' <=> Done(k) BY <1>0 DEF Done
    <3> QED BY <1>0, <2>0, <2>3, <3>2, <3>4, <3>5 DEF KeyInv
  <2> QED BY <2>1, <2>2, <2>3
<1>3. ASSUME NEW j \in steady' PROVE SteadyInv(j)'
  <2>0. j \in steady /\ j \in Key /\ SteadyInv(j) BY <1>0, <1>a, <1>3 DEF IInv, TypeOK
  <2>1. CASE j # k BY <1>0, <1>b, <2>0, <2>1, SteadyFrame
  <2>2. CASE j = k
    <3>1. Same(e, zebra[k]) BY <1>0, <1>3, <2>2
    <3>2. \A v : Same(v, zebra[k]) => Same(v, e) BY <3>1, SameFacts
    <3>3. zebra[k] # NoRow => e # NoRow
      <4>1. e \in Row /\ zebra[k] \in Row BY <1>a, RowFacts DEF TypeOK
      <4> QED BY <3>1, <4>1, SameNoRow, SameFacts
    <3>4. Promised(k) => Promised(k)' BY <1>0, <1>b, <3>2 DEF Promised
    <3> QED BY <1>0, <1>b, <2>0, <2>2, <3>2, <3>3, <3>4 DEF SteadyInv, Effect
  <2> QED BY <2>1, <2>2
<1>4. \A l \in Loc : Foreign(l)' BY <1>0 DEF IInv, Foreign
<1> QED BY <1>0, <1>1, <1>2, <1>3, <1>4 DEF IInv

\* orchagent pops a row.
LEMMA PopStep == ASSUME IInv, NEW l \in Loc, Pop(l) PROVE IInv'
<1>0. /\ staged[l] # NoStage
      /\ appdb' = [appdb EXCEPT ![l] = Effect(l)] /\ staged' = [staged EXCEPT ![l] = NoStage]
      /\ UNCHANGED <<zebra, phase, restorationVector, refreshMap, dump, dirty, missed, steady, early, drops, changes>>
  BY DEF Pop, helperVars, feedVars, histVars, boundVars
<1>a. TypeOK BY DEF IInv
<1>e. PICK e : e = Effect(l) OBVIOUS
<1>b. e \in Row BY <1>a, <1>e, EffectType
<1>c. /\ appdb'[l] = e /\ \A m \in Loc \ {l} : appdb'[m] = appdb[m]
      /\ staged'[l] = NoStage /\ \A m \in Loc \ {l} : staged'[m] = staged[m]
  BY <1>0, <1>a, <1>e DEF TypeOK
<1>1. TypeOK'
  <2>1. appdb' \in [Loc -> Row] BY <1>0, <1>a, <1>b, <1>e DEF TypeOK
  <2>2. staged' \in [Loc -> [del : BOOLEAN, fvs : Row]] BY <1>0, <1>a, StageTypes DEF TypeOK
  <2> QED BY <1>0, <1>a, <2>1, <2>2 DEF TypeOK
<1>d. Effect(l)' = Effect(l) BY <1>1, <1>c, <1>b, <1>e, PoppedFacts DEF Effect
<1>2. ASSUME NEW k \in Key PROVE KeyInv(k)'
  <2>0. KeyInv(k) /\ Home(k) \in Loc BY HomeFacts DEF IInv
  <2>1. Known(k)' <=> Known(k) BY <1>0 DEF Known
  <2>2. CASE Home(k) # l BY <1>0, <1>c, <2>0, <2>1, <2>2, KeyFrame
  <2>3. CASE Home(k) = l
    <3>1. ~Untouched(k) BY <1>0, <2>3 DEF Untouched
    <3>2. InStep(k) => InStep(k)' BY <1>0, <1>d, <2>1, <2>3 DEF InStep
    <3>3. Done(k)' <=> Done(k) BY <1>0 DEF Done
    <3> QED BY <1>0, <2>0, <3>1, <3>2, <3>3 DEF KeyInv
  <2> QED BY <2>2, <2>3
<1>3. ASSUME NEW k \in steady' PROVE SteadyInv(k)'
  <2>0. k \in Key /\ SteadyInv(k) /\ Home(k) \in Loc BY <1>0, <1>a, <1>3, HomeFacts DEF IInv, TypeOK
  <2>1. CASE Home(k) # l BY <1>0, <1>c, <2>0, <2>1, SteadyFrame
  <2>2. CASE Home(k) = l
    <3>1. CASE phase \in {"down", "RESTORED", "reconciling"} BY <1>0, <2>0, <2>2, <3>1 DEF SteadyInv
    <3>2. CASE phase \notin {"down", "RESTORED", "reconciling"}
      BY <1>0, <1>c, <1>d, <1>e, <2>0, <2>2, <3>2 DEF SteadyInv
    <3> QED BY <3>1, <3>2
  <2> QED BY <2>1, <2>2
<1>4. ASSUME NEW m \in Loc PROVE Foreign(m)'
  <2>0. Foreign(m) BY DEF IInv
  <2>1. CASE m = l BY <1>0, <2>0, <2>1 DEF Foreign
  <2>2. CASE m # l BY <1>0, <1>c, <2>0, <2>2 DEF Foreign
  <2> QED BY <2>1, <2>2
<1> QED BY <1>0, <1>1, <1>2, <1>3, <1>4 DEF IInv

\* The connection is lost: the routes that are in step are noted.
LEMMA LostStep ==
  ASSUME IInv, NEW lost \in SUBSET Loc, ConnectionLost(lost) PROVE IInv'
<1>0. /\ drops < MaxDrops /\ drops' = drops + 1 /\ phase' = "down"
      /\ staged' = [l \in Loc |-> IF l \in lost THEN NoStage ELSE staged[l]]
      /\ dump' = {} /\ dirty' = {} /\ missed' = {}
      /\ steady' = {k \in Key : /\ zebra[k] # NoRow /\ Same(appdb[Home(k)], zebra[k])
                                /\ staged[Home(k)] = NoStage}
      /\ UNCHANGED <<zebra, appdb, restorationVector, refreshMap, early, changes>>
  BY DEF ConnectionLost
<1>a. TypeOK BY DEF IInv
<1>1. TypeOK'
  <2>1. staged' \in [Loc -> [del : BOOLEAN, fvs : Row]] BY <1>0, <1>a, StageTypes DEF TypeOK
  <2>2. drops' \in 0 .. MaxDrops BY <1>0, <1>a, BoundAssumption DEF TypeOK
  <2>3. dump' \subseteq Key /\ dirty' \subseteq Key /\ missed' \subseteq Key /\ steady' \subseteq Key BY <1>0
  <2> QED BY <1>0, <1>a, <2>1, <2>2, <2>3 DEF TypeOK
<1>2. \A k \in Key : KeyInv(k)' BY <1>0 DEF KeyInv
<1>3. ASSUME NEW k \in steady' PROVE SteadyInv(k)'
  <2>1. /\ k \in Key /\ zebra[k] # NoRow /\ Same(appdb[Home(k)], zebra[k]) /\ staged[Home(k)] = NoStage
    BY <1>0, <1>3
  <2>2. Home(k) \in Loc BY <2>1, HomeFacts
  <2>3. staged'[Home(k)] = NoStage BY <1>0, <2>1, <2>2
  <2>4. Effect(Home(k))' = appdb[Home(k)]
    <3>1. appdb[Home(k)] \in Row BY <1>a, <2>2 DEF TypeOK
    <3> QED BY <1>0, <2>3, <3>1, PoppedFacts DEF Effect
  <2> QED BY <1>0, <2>1, <2>3, <2>4 DEF SteadyInv
<1>4. \A l \in Loc : Foreign(l)' BY <1>0 DEF IInv, Foreign
<1> QED BY <1>0, <1>1, <1>2, <1>3, <1>4 DEF IInv
-----------------------------------------------------------------------------
(* checkAndStart and runRestoration                                        *)

\* The rows are read back and what was staged for them is dropped.
LEMMA StartWarmStep == ASSUME IInv, OnlyRegistered, StartWarm PROVE IInv'
<1>0. /\ phase = "down"
      /\ dump' = {k \in Key : zebra[k] # NoRow} /\ dirty' = {k \in Key : zebra[k] # NoRow}
      /\ early' = FALSE /\ refreshMap' = [l \in Loc |-> NotRefreshed]
      /\ staged' = [l \in Loc |-> IF l[1] \in Registered THEN NoStage ELSE staged[l]]
      /\ restorationVector' = [l \in Loc |-> IF l[1] \in Registered THEN appdb[l] ELSE NoRow]
      /\ phase' = IF \A l \in Loc : restorationVector'[l] = NoRow THEN "RECONCILED" ELSE "RESTORED"
      /\ missed' = {k \in Withdrawn : TableOf[k] \notin Registered}
      /\ UNCHANGED <<zebra, appdb, steady, drops, changes>>
  BY DEF StartWarm, Connected, StateAfter, boundVars
<1>a. TypeOK BY DEF IInv
<1>1. TypeOK'
  <2>1. staged' \in [Loc -> [del : BOOLEAN, fvs : Row]] BY <1>0, <1>a, StageTypes DEF TypeOK
  <2>2. restorationVector' \in [Loc -> Row] BY <1>0, <1>a, RowFacts DEF TypeOK
  <2>3. refreshMap' \in [Loc -> Refreshed] BY <1>0 DEF NotRefreshed, Refreshed
  <2>4. phase' \in {"RECONCILED", "RESTORED"} BY <1>0
  <2>5. dump' \subseteq Key /\ dirty' \subseteq Key /\ missed' \subseteq Key BY <1>0 DEF Withdrawn
  <2> QED BY <1>0, <1>a, <2>1, <2>2, <2>3, <2>4, <2>5 DEF TypeOK
<1>2. ASSUME NEW k \in Key
      PROVE  /\ staged'[Home(k)] = NoStage /\ restorationVector'[Home(k)] = appdb[Home(k)]
             /\ refreshMap'[Home(k)] = NotRefreshed
  <2>1. Home(k) \in Loc /\ Home(k)[1] \in Registered BY HomeFacts DEF OnlyRegistered, Home
  <2> QED BY <1>0, <2>1
<1>3. ASSUME NEW k \in Key PROVE KeyInv(k)'
  <2>1. Known(k)' => zebra'[k] = NoRow BY <1>0 DEF Known
  <2>2. RefreshOk(k)' BY <1>2, <2>1 DEF RefreshOk, NotRefreshed
  <2>3. Untouched(k)' BY <1>0, <1>2, <2>2 DEF Untouched
  <2>4. ASSUME phase' = "RECONCILED" PROVE InStep(k)'
    <3>1. Home(k) \in Loc BY HomeFacts
    <3>2. restorationVector'[Home(k)] = NoRow BY <1>0, <2>4, <3>1
    <3>3. appdb'[Home(k)] = NoRow BY <1>0, <1>2, <3>2
    <3>4. Effect(Home(k))' = NoRow BY <1>2, <3>3, PoppedFacts, RowFacts DEF Effect
    <3> QED BY <2>1, <3>4, SameFacts DEF InStep
  <2> QED BY <1>0, <2>3, <2>4 DEF KeyInv
<1>4. ASSUME NEW k \in steady' PROVE SteadyInv(k)'
  <2>1. k \in Key /\ SteadyInv(k) BY <1>0, <1>a, <1>4 DEF IInv, TypeOK
  <2>2. zebra[k] # NoRow /\ Same(appdb[Home(k)], zebra[k]) BY <1>0, <2>1 DEF SteadyInv
  <2>3. staged'[Home(k)] = NoStage BY <1>2, <2>1
  <2>4. Effect(Home(k))' = appdb[Home(k)]
    <3>1. Home(k) \in Loc BY <2>1, HomeFacts
    <3>2. appdb[Home(k)] \in Row BY <3>1, <1>a DEF TypeOK
    <3> QED BY <1>0, <2>3, <3>2, PoppedFacts DEF Effect
  <2>5. k \in dump' BY <1>0, <2>1, <2>2
  <2>6. phase' # "reconciling" BY <1>0
  <2> QED BY <1>0, <2>2, <2>3, <2>4, <2>5, <2>6 DEF SteadyInv
<1>5. ASSUME NEW l \in Loc PROVE Foreign(l)'
  <2>1. Foreign(l) BY DEF IInv
  <2> QED BY <1>0, <2>1 DEF Foreign
<1> QED BY <1>0, <1>1, <1>3, <1>4, <1>5 DEF IInv

\* Without warm restart nothing is read back.
LEMMA StartColdStep == ASSUME IInv, StartCold PROVE IInv'
<1>0. /\ phase = "down"
      /\ dump' = {k \in Key : zebra[k] # NoRow} /\ dirty' = {k \in Key : zebra[k] # NoRow}
      /\ early' = FALSE /\ refreshMap' = [l \in Loc |-> NotRefreshed]
      /\ phase' = "WSDISABLED" /\ restorationVector' = [l \in Loc |-> NoRow]
      /\ missed' = {k \in Key : zebra[k] = NoRow /\ Effect(Home(k)) # NoRow}
      /\ UNCHANGED <<zebra, appdb, staged, steady, drops, changes>>
  BY DEF StartCold, Connected, Withdrawn, boundVars
<1>a. TypeOK BY DEF IInv
<1>1. TypeOK'
  <2>1. restorationVector' \in [Loc -> Row] BY <1>0, RowFacts
  <2>2. refreshMap' \in [Loc -> Refreshed] BY <1>0 DEF NotRefreshed, Refreshed
  <2>3. dump' \subseteq Key /\ dirty' \subseteq Key /\ missed' \subseteq Key BY <1>0
  <2> QED BY <1>0, <1>a, <2>1, <2>2, <2>3 DEF TypeOK
<1>2. ASSUME NEW k \in Key PROVE KeyInv(k)'
  <2>1. Known(k)' => zebra[k] = NoRow /\ Effect(Home(k)) = NoRow BY <1>0 DEF Known
  <2>2. Effect(Home(k))' = Effect(Home(k)) BY <1>0 DEF Effect
  <2>3. InStep(k)' BY <1>0, <2>1, <2>2, SameFacts DEF InStep
  <2> QED BY <1>0, <2>3 DEF KeyInv
<1>3. ASSUME NEW k \in steady' PROVE SteadyInv(k)'
  <2>1. SteadyInv(k) BY <1>0, <1>3 DEF IInv
  <2> QED BY <1>0, <2>1 DEF SteadyInv, Effect
<1>4. \A l \in Loc : Foreign(l)' BY <1>0 DEF IInv, Foreign
<1> QED BY <1>0, <1>1, <1>2, <1>3, <1>4 DEF IInv
-----------------------------------------------------------------------------
(* The routes zebra sends                                                  *)

\* What zebra wants for k is now in the refresh map.
LEMMA RefreshStep ==
  ASSUME IInv, OnlyRegistered, NEW k \in Key, NEW r \in Refreshed, phase = "RESTORED",
         IF zebra[k] = NoRow THEN r.op # "SET" ELSE r.op = "SET" /\ r.fvs = zebra[k],
         refreshMap' = [refreshMap EXCEPT ![Context(k)] = r],
         dump' = dump \ {k}, dirty' = dirty \ {k}, missed' = missed \ {k},
         UNCHANGED <<staged, zebra, appdb, phase, restorationVector, steady, early, drops, changes>>
  PROVE  IInv'
<1>a. TypeOK BY DEF IInv
<1>0. Context(k) = Home(k) /\ Home(k) \in Loc BY HomeFacts
<1>b. refreshMap'[Home(k)] = r /\ \A l \in Loc \ {Home(k)} : refreshMap'[l] = refreshMap[l]
  BY <1>0, <1>a DEF TypeOK
<1>1. TypeOK'
  <2>1. refreshMap' \in [Loc -> Refreshed] BY <1>0, <1>a DEF TypeOK
  <2>2. dump' \subseteq Key /\ dirty' \subseteq Key /\ missed' \subseteq Key BY <1>a DEF TypeOK
  <2> QED BY <1>a, <2>1, <2>2 DEF TypeOK
<1>2. ASSUME NEW j \in Key PROVE KeyInv(j)'
  <2>0. KeyInv(j) BY DEF IInv
  <2>1. CASE j = k
    <3>1. RefreshOk(k)' BY <1>b DEF RefreshOk
    <3>2. Untouched(k)' BY <2>0, <2>1, <3>1 DEF Untouched, KeyInv
    <3> QED BY <2>1, <3>2 DEF KeyInv
  <2>2. CASE j # k
    <3>1. Home(j) \in Loc \ {Home(k)} BY <2>2, HomeFacts
    <3>2. Known(j)' => Known(j) BY <2>2 DEF Known
    <3> QED BY <1>b, <2>0, <3>1, <3>2, KeyFrame
  <2> QED BY <2>1, <2>2
<1>3. ASSUME NEW j \in steady' PROVE SteadyInv(j)'
  <2>0. j \in Key /\ SteadyInv(j) BY <1>3, <1>a DEF IInv, TypeOK
  <2>1. CASE j = k
    <3>1. zebra[k] # NoRow => Promised(k)' BY <1>b, SameFacts DEF Promised
    <3>2. ~early BY DEF IInv
    <3>3. zebra[k] # NoRow BY <2>0, <2>1, <3>2 DEF SteadyInv
    <3> QED BY <2>0, <2>1, <3>1, <3>3 DEF SteadyInv, Effect
  <2>2. CASE j # k
    <3>1. Home(j) \in Loc \ {Home(k)} BY <2>0, <2>2, HomeFacts
    <3>2. j \in dump => j \in dump' BY <2>2
    <3> QED BY <1>b, <2>0, <3>1, <3>2, SteadyFrame
  <2> QED BY <2>1, <2>2
<1>4. ASSUME NEW l \in Loc PROVE Foreign(l)'
  <2>0. Foreign(l) BY DEF IInv
  <2>1. CASE l = Home(k) BY <2>1, HomeFacts DEF Foreign
  <2>2. CASE l # Home(k) BY <1>b, <2>0, <2>2 DEF Foreign
  <2> QED BY <2>1, <2>2
<1> QED BY <1>1, <1>2, <1>3, <1>4 DEF IInv

\* What zebra wants for k is staged, outside a restart.
LEMMA WriteStep ==
  ASSUME IInv, NEW k \in Key, phase \in {"RECONCILED", "WSDISABLED"},
         NEW s \in [del : BOOLEAN, fvs : Row], Popped(appdb[Home(k)], s) = zebra[k],
         staged' = [staged EXCEPT ![Home(k)] = s],
         dump' = dump \ {k}, dirty' = dirty \ {k}, missed' = missed \ {k},
         UNCHANGED <<refreshMap, zebra, appdb, phase, restorationVector, steady, early, drops, changes>>
  PROVE  IInv'
<1>a. TypeOK BY DEF IInv
<1>0. Home(k) \in Loc BY HomeFacts
<1>b. staged'[Home(k)] = s /\ \A l \in Loc \ {Home(k)} : staged'[l] = staged[l]
  BY <1>0, <1>a DEF TypeOK
<1>c. Effect(Home(k))' = zebra[k] BY <1>b DEF Effect
<1>1. TypeOK'
  <2>1. staged' \in [Loc -> [del : BOOLEAN, fvs : Row]] BY <1>0, <1>a DEF TypeOK
  <2>2. dump' \subseteq Key /\ dirty' \subseteq Key /\ missed' \subseteq Key BY <1>a DEF TypeOK
  <2> QED BY <1>a, <2>1, <2>2 DEF TypeOK
<1>2. ASSUME NEW j \in Key PROVE KeyInv(j)'
  <2>0. KeyInv(j) BY DEF IInv
  <2>1. CASE j = k
    <3>1. InStep(k)' BY <1>c, SameFacts DEF InStep
    <3> QED BY <2>1, <3>1 DEF KeyInv
  <2>2. CASE j # k
    <3>1. Home(j) \in Loc \ {Home(k)} BY <2>2, HomeFacts
    <3>2. Known(j)' => Known(j) BY <2>2 DEF Known
    <3> QED BY <1>b, <2>0, <3>1, <3>2, KeyFrame
  <2> QED BY <2>1, <2>2
<1>3. ASSUME NEW j \in steady' PROVE SteadyInv(j)'
  <2>0. j \in Key /\ SteadyInv(j) BY <1>3, <1>a DEF IInv, TypeOK
  <2>1. CASE j = k BY <1>c, <2>0, <2>1, SameFacts DEF SteadyInv
  <2>2. CASE j # k
    <3>1. Home(j) \in Loc \ {Home(k)} BY <2>0, <2>2, HomeFacts
    <3>2. j \in dump => j \in dump' BY <2>2
    <3> QED BY <1>b, <2>0, <3>1, <3>2, SteadyFrame
  <2> QED BY <2>1, <2>2
<1>4. ASSUME NEW l \in Loc PROVE Foreign(l)'
  <2>0. Foreign(l) BY DEF IInv
  <2>1. CASE l = Home(k) BY <2>1, HomeFacts DEF Foreign
  <2>2. CASE l # Home(k) BY <1>b, <2>0, <2>2 DEF Foreign
  <2> QED BY <2>1, <2>2
<1> QED BY <1>1, <1>2, <1>3, <1>4 DEF IInv

\* zebra sends a route.
LEMMA SetStep ==
  ASSUME IInv, OnlyRegistered, NEW k \in Key, SetTableWithWarmRestart(k) PROVE IInv'
<1>a. TypeOK BY DEF IInv
<1>0. /\ phase \in {"RESTORED", "RECONCILED", "WSDISABLED"} /\ zebra[k] # NoRow
      /\ dump' = dump \ {k} /\ dirty' = dirty \ {k} /\ missed' = missed \ {k}
      /\ UNCHANGED <<zebra, appdb, phase, restorationVector, steady, early, drops, changes>>
  BY DEF SetTableWithWarmRestart, Listening, Received, histVars, boundVars
<1>1. zebra[k] \in Entry /\ zebra[k] \in Row BY <1>0, <1>a, RowFacts DEF TypeOK
<1>2. CASE phase = "RESTORED"
  <2>r. PICK r : r = [op |-> "SET", fvs |-> zebra[k]] OBVIOUS
  <2>1. r \in Refreshed /\ r.op = "SET" /\ r.fvs = zebra[k] BY <1>1, <2>r DEF Refreshed
  <2>2. refreshMap' = [refreshMap EXCEPT ![Context(k)] = r] /\ staged' = staged
    BY <1>2, <2>r DEF SetTableWithWarmRestart, InProgress, InsertRefreshMap
  <2> QED BY <1>0, <1>2, <2>1, <2>2, RefreshStep
<1>3. CASE phase # "RESTORED"
  <2>s. PICK s : s = StageSet(StageDel(staged[Home(k)]), zebra[k]) OBVIOUS
  <2>1. staged' = [staged EXCEPT ![Home(k)] = s] /\ refreshMap' = refreshMap
    BY <1>3, <2>s DEF SetTableWithWarmRestart, InProgress
  <2>2. s \in [del : BOOLEAN, fvs : Row] BY <1>1, <2>s, StageTypes
  <2>3. appdb[Home(k)] \in Row BY <1>a, HomeFacts DEF TypeOK
  <2>4. Popped(appdb[Home(k)], s) = zebra[k] BY <1>1, <2>3, <2>s, PoppedFacts
  <2>5. phase \in {"RECONCILED", "WSDISABLED"} BY <1>0, <1>3
  <2> QED BY <1>0, <2>1, <2>2, <2>4, <2>5, WriteStep
<1> QED BY <1>2, <1>3

\* zebra withdraws a route.
LEMMA DelStep ==
  ASSUME IInv, OnlyRegistered, NEW k \in Key, DelTableWithWarmRestart(k) PROVE IInv'
<1>a. TypeOK BY DEF IInv
<1>0. /\ phase \in {"RESTORED", "RECONCILED", "WSDISABLED"} /\ zebra[k] = NoRow
      /\ dump' = dump \ {k} /\ dirty' = dirty \ {k} /\ missed' = missed \ {k}
      /\ UNCHANGED <<zebra, appdb, phase, restorationVector, steady, early, drops, changes>>
  BY DEF DelTableWithWarmRestart, Listening, Received, histVars, boundVars
<1>2. CASE phase = "RESTORED"
  <2>r. PICK r : r = [op |-> "DEL", fvs |-> NoRow] OBVIOUS
  <2>1. r \in Refreshed /\ r.op # "SET" BY <2>r DEF Refreshed
  <2>2. refreshMap' = [refreshMap EXCEPT ![Context(k)] = r] /\ staged' = staged
    BY <1>2, <2>r DEF DelTableWithWarmRestart, InProgress, InsertRefreshMap
  <2> QED BY <1>0, <1>2, <2>1, <2>2, RefreshStep
<1>3. CASE phase # "RESTORED"
  <2>s. PICK s : s = StageDel(staged[Home(k)]) OBVIOUS
  <2>1. staged' = [staged EXCEPT ![Home(k)] = s] /\ refreshMap' = refreshMap
    BY <1>3, <2>s DEF DelTableWithWarmRestart, InProgress
  <2>2. s \in [del : BOOLEAN, fvs : Row] BY <2>s, StageTypes
  <2>4. Popped(appdb[Home(k)], s) = zebra[k] BY <1>0, <2>s, PoppedFacts
  <2>5. phase \in {"RECONCILED", "WSDISABLED"} BY <1>0, <1>3
  <2> QED BY <1>0, <2>1, <2>2, <2>4, <2>5, WriteStep
<1> QED BY <1>2, <1>3
-----------------------------------------------------------------------------
(* reconcile                                                               *)

\* A timer expires.
LEMMA EndStep == ASSUME IInv, OnWarmStartEnd PROVE IInv'
<1>0. /\ phase = "RESTORED" /\ phase' = "reconciling" /\ early' = (dump # {})
      /\ UNCHANGED <<zebra, appdb, staged, restorationVector, refreshMap, dump, dirty, missed, steady, drops, changes>>
  BY DEF OnWarmStartEnd, InProgress, feedVars, boundVars
<1>a. TypeOK BY DEF IInv
<1>1. TypeOK' BY <1>0, <1>a DEF TypeOK
<1>2. ASSUME NEW k \in Key PROVE KeyInv(k)'
  <2>1. Untouched(k) BY <1>0 DEF IInv, KeyInv
  <2>2. Done(k) => InStep(k) BY <1>a, <2>1, DoneInStep
  <2>3. Untouched(k)' BY <1>0, <2>1 DEF Untouched, RefreshOk, Known
  <2>4. Done(k)' => InStep(k)' BY <1>0, <2>2 DEF Done, InStep, Known, Effect
  <2> QED BY <1>0, <2>3, <2>4 DEF KeyInv
<1>3. ASSUME NEW k \in steady' PROVE SteadyInv(k)'
  <2>1. SteadyInv(k) /\ ~early BY <1>0, <1>3 DEF IInv
  <2>2. dump = {} => Promised(k)' BY <1>0, <2>1 DEF SteadyInv, Promised
  <2> QED BY <1>0, <2>1, <2>2 DEF SteadyInv, Effect
<1>4. \A l \in Loc : Foreign(l)' BY <1>0 DEF IInv, Foreign
<1> QED BY <1>0, <1>1, <1>2, <1>3, <1>4 DEF IInv

\* One row of reconcile(): it is dealt with, and in step.
LEMMA ReconcileStep ==
  ASSUME IInv, NEW k \in Key, phase = "reconciling", NEW s \in [del : BOOLEAN, fvs : Row],
         staged' = [staged EXCEPT ![Home(k)] = s],
         restorationVector' = [restorationVector EXCEPT ![Home(k)] = NoRow],
         refreshMap' = [refreshMap EXCEPT ![Home(k)] = NotRefreshed],
         UNCHANGED <<zebra, appdb, phase, dump, dirty, missed, steady, early, drops, changes>>,
         Known(k) => Same(Popped(appdb[Home(k)], s), zebra[k]),
         k \in steady /\ ~early => s = NoStage
  PROVE  IInv'
<1>a. TypeOK BY DEF IInv
<1>0. Home(k) \in Loc BY HomeFacts
<1>b. /\ staged'[Home(k)] = s /\ restorationVector'[Home(k)] = NoRow /\ refreshMap'[Home(k)] = NotRefreshed
      /\ \A l \in Loc \ {Home(k)} : /\ staged'[l] = staged[l] /\ refreshMap'[l] = refreshMap[l]
                                    /\ restorationVector'[l] = restorationVector[l]
  BY <1>0, <1>a DEF TypeOK
<1>1. TypeOK'
  <2>1. staged' \in [Loc -> [del : BOOLEAN, fvs : Row]] BY <1>0, <1>a DEF TypeOK
  <2>2. restorationVector' \in [Loc -> Row] BY <1>0, <1>a, RowFacts DEF TypeOK
  <2>3. refreshMap' \in [Loc -> Refreshed]
    <3>1. NotRefreshed \in Refreshed BY DEF NotRefreshed, Refreshed
    <3> QED BY <1>0, <1>a, <3>1 DEF TypeOK
  <2> QED BY <1>a, <2>1, <2>2, <2>3 DEF TypeOK
<1>2. ASSUME NEW j \in Key PROVE KeyInv(j)'
  <2>0. KeyInv(j) BY DEF IInv
  <2>1. CASE j = k
    <3>1. InStep(k)' BY <1>b DEF InStep, Known, Effect
    <3>2. Done(k)' BY <1>b DEF Done
    <3> QED BY <2>1, <3>1, <3>2 DEF KeyInv
  <2>2. CASE j # k
    <3>1. Home(j) \in Loc \ {Home(k)} BY <2>2, HomeFacts
    <3>2. Known(j)' => Known(j) BY DEF Known
    <3> QED BY <1>b, <2>0, <3>1, <3>2, KeyFrame
  <2> QED BY <2>1, <2>2
<1>3. ASSUME NEW j \in steady' PROVE SteadyInv(j)'
  <2>0. j \in Key /\ SteadyInv(j) BY <1>3, <1>a DEF IInv, TypeOK
  <2>1. CASE j = k /\ ~early
    <3>1. staged'[Home(k)] = NoStage /\ staged[Home(k)] = NoStage BY <1>3, <1>b, <2>0, <2>1 DEF SteadyInv
    <3>2. Effect(Home(k))' = Effect(Home(k)) BY <3>1 DEF Effect
    <3> QED BY <1>b, <2>0, <2>1, <3>1, <3>2 DEF SteadyInv
  <2>2. CASE early BY <2>2 DEF SteadyInv
  <2>3. CASE j # k
    <3>1. Home(j) \in Loc \ {Home(k)} BY <2>0, <2>3, HomeFacts
    <3> QED BY <1>b, <2>0, <3>1, SteadyFrame
  <2> QED BY <2>1, <2>2, <2>3
<1>4. ASSUME NEW l \in Loc PROVE Foreign(l)'
  <2>0. Foreign(l) BY DEF IInv
  <2>1. CASE l = Home(k) BY <2>1, HomeFacts DEF Foreign
  <2>2. CASE l # Home(k) BY <1>b, <2>0, <2>2 DEF Foreign
  <2> QED BY <2>1, <2>2
<1> QED BY <1>1, <1>2, <1>3, <1>4 DEF IInv

\* A row that was read back is compared with what zebra sent.
LEMMA RestoredStep == ASSUME IInv, NEW l \in Loc, ReconcileRestored(l) PROVE IInv'
<1>a. TypeOK BY DEF IInv
<1>k. PICK k : k = l[2] OBVIOUS
<1>0. /\ phase = "reconciling" /\ restorationVector[l] # NoRow
      /\ UNCHANGED <<zebra, appdb, phase, dump, dirty, missed, steady, early, drops, changes>>
  BY DEF ReconcileRestored, feedVars, histVars, boundVars
<1>1. l = Home(k) /\ k \in Key BY <1>0, <1>k, HomeFacts DEF IInv, Foreign
<1>2. Untouched(k) BY <1>0, <1>1 DEF IInv, KeyInv, Done
<1>r. PICK r : r = refreshMap[Home(k)] OBVIOUS
<1>v. PICK v : v = appdb[Home(k)] OBVIOUS
<1>s. PICK s : s = ReconciledRow(NoStage, v, r) OBVIOUS
<1>3. /\ staged[Home(k)] = NoStage /\ restorationVector[Home(k)] = v /\ v \in Row /\ r \in Refreshed
  BY <1>1, <1>2, <1>a, <1>r, <1>v DEF Untouched, TypeOK
<1>4. /\ staged' = [staged EXCEPT ![Home(k)] = s]
      /\ restorationVector' = [restorationVector EXCEPT ![Home(k)] = NoRow]
      /\ refreshMap' = [refreshMap EXCEPT ![Home(k)] = NotRefreshed]
  BY <1>1, <1>3, <1>r, <1>s DEF ReconcileRestored
<1>5. r.op \in {"none", "DEL", "SET"} /\ (r.op = "SET" => r.fvs \in Row) BY <1>3, RowFacts DEF Refreshed
<1>6. /\ Known(k) /\ zebra[k] = NoRow => r.op # "SET"
      /\ Known(k) /\ zebra[k] # NoRow => r.op = "SET" /\ r.fvs = zebra[k]
  BY <1>2, <1>r DEF Untouched, RefreshOk
<1>7. ASSUME k \in steady, ~early PROVE r.op = "SET" /\ ~CompareAllFV(v, r.fvs)
  <2>1. SteadyInv(k) BY <1>7 DEF IInv
  <2>2. Promised(k) /\ Same(v, zebra[k]) BY <1>0, <1>1, <1>7, <2>1, <1>v DEF SteadyInv
  <2>3. r.op = "SET" /\ Same(r.fvs, zebra[k]) BY <2>2, <1>r DEF Promised
  <2>4. Same(v, r.fvs) BY <2>2, <2>3, SameFacts
  <2> QED BY <1>3, <1>5, <2>3, <2>4, SameCompare
<1>8. s \in [del : BOOLEAN, fvs : Row] /\ (Known(k) => Same(Popped(v, s), zebra[k]))
  <2>1. CASE r.op # "SET"
    <3>1. s = StageDel(NoStage) BY <1>5, <2>1, <1>s DEF ReconciledRow
    <3>2. Popped(v, s) = NoRow BY <3>1, PoppedFacts
    <3> QED BY <1>6, <2>1, <3>1, <3>2, StageTypes, SameFacts
  <2>2. CASE r.op = "SET" /\ CompareAllFV(v, r.fvs)
    <3>1. s = StageSet(StageDel(NoStage), r.fvs) BY <2>2, <1>s DEF ReconciledRow
    <3>2. Popped(v, s) = r.fvs BY <1>3, <1>5, <2>2, <3>1, PoppedFacts
    <3>3. s \in [del : BOOLEAN, fvs : Row] BY <1>5, <2>2, <3>1, StageTypes
    <3> QED BY <1>6, <2>2, <3>2, <3>3, SameFacts
  <2>3. CASE r.op = "SET" /\ ~CompareAllFV(v, r.fvs)
    <3>1. s = NoStage BY <2>3, <1>s DEF ReconciledRow
    <3>2. Popped(v, s) = v BY <1>3, <3>1, PoppedFacts
    <3>3. Same(v, r.fvs) BY <1>3, <1>5, <2>3, CompareSame
    <3> QED BY <1>6, <2>3, <3>1, <3>2, <3>3, StageTypes
  <2> QED BY <2>1, <2>2, <2>3
<1>9. k \in steady /\ ~early => s = NoStage BY <1>7, <1>s DEF ReconciledRow
<1> QED BY <1>0, <1>1, <1>4, <1>8, <1>9, <1>v, ReconcileStep

\* What zebra sent for a row that was not there is written.
LEMMA NewStep == ASSUME IInv, NEW l \in Loc, ReconcileNew(l) PROVE IInv'
<1>a. TypeOK BY DEF IInv
<1>k. PICK k : k = l[2] OBVIOUS
<1>0. /\ phase = "reconciling" /\ restorationVector[l] = NoRow /\ refreshMap[l] # NotRefreshed
      /\ UNCHANGED <<zebra, appdb, phase, restorationVector, dump, dirty, missed, steady, early, drops, changes>>
  BY DEF ReconcileNew, feedVars, histVars, boundVars
<1>1. l = Home(k) /\ k \in Key BY <1>0, <1>k, HomeFacts DEF IInv, Foreign
<1>2. Untouched(k) BY <1>0, <1>1 DEF IInv, KeyInv, Done
<1>r. PICK r : r = refreshMap[Home(k)] OBVIOUS
<1>s. PICK s : s = IF r.op = "DEL" THEN NoStage ELSE StageSet(NoStage, r.fvs) OBVIOUS
<1>3. /\ staged[Home(k)] = NoStage /\ appdb[Home(k)] = NoRow /\ r \in Refreshed /\ r # NotRefreshed
  BY <1>0, <1>1, <1>2, <1>a, <1>r DEF Untouched, TypeOK
<1>4. /\ staged' = [staged EXCEPT ![Home(k)] = s]
      /\ refreshMap' = [refreshMap EXCEPT ![Home(k)] = NotRefreshed]
  BY <1>1, <1>3, <1>r, <1>s DEF ReconcileNew
<1>5. restorationVector' = [restorationVector EXCEPT ![Home(k)] = NoRow] BY <1>0, <1>1, <1>a DEF TypeOK
<1>6. r.op = "DEL" \/ (r.op = "SET" /\ r.fvs \in Row) BY <1>3, RowFacts DEF Refreshed, NotRefreshed
<1>7. s \in [del : BOOLEAN, fvs : Row] /\ (Known(k) => Same(Popped(NoRow, s), zebra[k]))
  <2>1. CASE r.op = "DEL"
    <3>1. s = NoStage BY <2>1, <1>s
    <3>2. Popped(NoRow, s) = NoRow BY <3>1, PoppedFacts, RowFacts
    <3>3. Known(k) => zebra[k] = NoRow BY <1>2, <1>r, <2>1 DEF Untouched, RefreshOk
    <3> QED BY <3>1, <3>2, <3>3, StageTypes, SameFacts
  <2>2. CASE r.op = "SET" /\ r.fvs \in Row
    <3>1. s = StageSet(NoStage, r.fvs) BY <2>2, <1>s
    <3>2. Popped(NoRow, s) = r.fvs BY <2>2, <3>1, PoppedFacts
    <3>3. Known(k) => r.fvs = zebra[k] BY <1>2, <1>r, <2>2 DEF Untouched, RefreshOk
    <3>4. s \in [del : BOOLEAN, fvs : Row] BY <2>2, <3>1, StageTypes
    <3> QED BY <3>2, <3>3, <3>4, SameFacts
  <2> QED BY <1>6, <2>1, <2>2
<1>8. k \in steady /\ ~early => FALSE
  <2> SUFFICES ASSUME k \in steady, ~early PROVE FALSE OBVIOUS
  <2>1. zebra[k] # NoRow /\ Same(NoRow, zebra[k]) BY <1>3 DEF IInv, SteadyInv
  <2>2. zebra[k] \in Row BY <1>1, <1>a, RowFacts DEF TypeOK
  <2> QED BY <2>1, <2>2, RowFacts, SameFacts, SameNoRow
<1> QED BY <1>0, <1>1, <1>3, <1>4, <1>5, <1>7, <1>8, ReconcileStep

\* reconcile() is over.
LEMMA EndsStep == ASSUME IInv, ReconcileEnds PROVE IInv'
<1>0. /\ phase = "reconciling" /\ phase' = "RECONCILED"
      /\ \A l \in Loc : restorationVector[l] = NoRow /\ refreshMap[l] = NotRefreshed
      /\ UNCHANGED <<zebra, appdb, staged, restorationVector, refreshMap, dump, dirty, missed, steady, early, drops, changes>>
  BY DEF ReconcileEnds, feedVars, histVars, boundVars
<1>1. TypeOK' BY <1>0 DEF IInv, TypeOK
<1>2. ASSUME NEW k \in Key PROVE KeyInv(k)'
  <2>1. Done(k) BY <1>0, HomeFacts DEF Done
  <2>2. InStep(k) BY <1>0, <2>1 DEF IInv, KeyInv
  <2>3. InStep(k)' BY <1>0, <2>2 DEF InStep, Known, Effect
  <2> QED BY <1>0, <2>3 DEF KeyInv
<1>3. ASSUME NEW k \in steady' PROVE SteadyInv(k)'
  <2>1. SteadyInv(k) BY <1>0, <1>3 DEF IInv
  <2> QED BY <1>0, <2>1 DEF SteadyInv, Effect
<1>4. \A l \in Loc : Foreign(l)' BY <1>0 DEF IInv, Foreign
<1> QED BY <1>0, <1>1, <1>2, <1>3, <1>4 DEF IInv
-----------------------------------------------------------------------------
(* The theorems                                                            *)

\* Nothing happens.
LEMMA StutterStep == ASSUME IInv, UNCHANGED vars PROVE IInv'
<1> USE DEF vars, helperVars, feedVars, histVars, boundVars
<1>1. TypeOK' BY DEF IInv, TypeOK
<1>2. ASSUME NEW k \in Key PROVE KeyInv(k)'
  <2>1. KeyInv(k) /\ (Known(k)' => Known(k)) BY DEF IInv, Known
  <2> QED BY <2>1, KeyFrame
<1>3. ASSUME NEW k \in steady' PROVE SteadyInv(k)'
  <2>1. k \in Key /\ SteadyInv(k) BY <1>3 DEF IInv, TypeOK
  <2> QED BY <2>1, SteadyFrame
<1>4. \A l \in Loc : Foreign(l)' BY DEF IInv, Foreign
<1> QED BY <1>1, <1>2, <1>3, <1>4 DEF IInv

\* Every step keeps the inductive invariant.
LEMMA NextIInv == OnlyRegistered /\ IInv /\ [Next]_vars => IInv'
<1> SUFFICES ASSUME OnlyRegistered, IInv, [Next]_vars PROVE IInv' OBVIOUS
<1>1. CASE \E k \in Key : \E e \in Entry \cup {NoRow} : ZebraChange(k, e) BY <1>1, ChangeStep
<1>2. CASE \E k \in Key : SetTableWithWarmRestart(k) \/ DelTableWithWarmRestart(k)
  BY <1>2, SetStep, DelStep
<1>3. CASE \E l \in Loc : Pop(l) \/ ReconcileRestored(l) \/ ReconcileNew(l)
  BY <1>3, PopStep, RestoredStep, NewStep
<1>4. CASE \E lost \in SUBSET Loc : ConnectionLost(lost) BY <1>4, LostStep
<1>5. CASE StartWarm \/ StartCold BY <1>5, StartWarmStep, StartColdStep
<1>6. CASE OnWarmStartEnd \/ ReconcileEnds BY <1>6, EndStep, EndsStep
<1>7. CASE UNCHANGED vars BY <1>7, StutterStep
<1> QED BY <1>1, <1>2, <1>3, <1>4, <1>5, <1>6, <1>7 DEF Next

\* The inductive invariant holds throughout.
LEMMA SpecIInv == OnlyRegistered /\ Spec => []IInv
<1>1. Init => IInv BY InitIInv
<1>2. OnlyRegistered => (IInv /\ [Next]_vars => IInv') BY NextIInv
<1> QED
  <2> SUFFICES ASSUME OnlyRegistered PROVE Spec => []IInv OBVIOUS
  <2>1. IInv /\ [Next]_vars => IInv' BY <1>2
  <2> QED BY <1>1, <2>1, PTL DEF Spec

\* Types do not depend on where the keys are written.
LEMMA NextTypeOK == TypeOK /\ [Next]_vars => TypeOK'
<1> SUFFICES ASSUME TypeOK, [Next]_vars PROVE TypeOK' OBVIOUS
<1> DEFINE Stages == [del : BOOLEAN, fvs : Row]
<1>0. \A l \in Loc : /\ appdb[l] \in Row /\ staged[l] \in Stages /\ refreshMap[l] \in Refreshed
                     /\ refreshMap[l].fvs \in Row
  BY RowFacts DEF TypeOK, Refreshed
<1>a. NotRefreshed \in Refreshed /\ \A e \in Entry : [op |-> "SET", fvs |-> e] \in Refreshed
  BY DEF NotRefreshed, Refreshed
<1>b. \A k \in Key : zebra[k] \in Entry \cup {NoRow} /\ zebra[k] \in Row BY RowFacts DEF TypeOK
<1>1. CASE \E k \in Key : \E e \in Entry \cup {NoRow} : ZebraChange(k, e)
  <2> PICK k \in Key, e \in Entry \cup {NoRow} : ZebraChange(k, e) BY <1>1
  <2>1. changes' \in 0 .. MaxChanges BY BoundAssumption DEF TypeOK, ZebraChange
  <2> QED BY <2>1 DEF TypeOK, ZebraChange, helperVars
<1>2. CASE \E k \in Key : SetTableWithWarmRestart(k)
  <2> PICK k \in Key : SetTableWithWarmRestart(k) BY <1>2
  <2>1. zebra[k] \in Entry /\ zebra[k] \in Row BY <1>b DEF SetTableWithWarmRestart
  <2>2. [op |-> "SET", fvs |-> zebra[k]] \in Refreshed BY <2>1, <1>a
  <2>3. refreshMap' \in [Loc -> Refreshed] BY <2>2 DEF TypeOK, SetTableWithWarmRestart, InsertRefreshMap
  <2>4. StageSet(StageDel(staged[Home(k)]), zebra[k]) \in Stages BY <2>1, StageTypes
  <2>5. staged' \in [Loc -> Stages] BY <2>4 DEF TypeOK, SetTableWithWarmRestart
  <2> QED BY <2>3, <2>5 DEF TypeOK, SetTableWithWarmRestart, Received, histVars, boundVars
<1>3. CASE \E k \in Key : DelTableWithWarmRestart(k)
  <2> PICK k \in Key : DelTableWithWarmRestart(k) BY <1>3
  <2>1. [op |-> "DEL", fvs |-> NoRow] \in Refreshed BY DEF Refreshed
  <2>2. refreshMap' \in [Loc -> Refreshed] BY <2>1 DEF TypeOK, DelTableWithWarmRestart, InsertRefreshMap
  <2>3. staged' \in [Loc -> Stages] BY StageTypes DEF TypeOK, DelTableWithWarmRestart
  <2> QED BY <2>2, <2>3 DEF TypeOK, DelTableWithWarmRestart, Received, histVars, boundVars
<1>4. CASE \E l \in Loc : Pop(l)
  <2> PICK l \in Loc : Pop(l) BY <1>4
  <2>1. Effect(l) \in Row BY EffectType
  <2>2. appdb' \in [Loc -> Row] BY <2>1 DEF TypeOK, Pop
  <2>3. staged' \in [Loc -> Stages] BY StageTypes DEF TypeOK, Pop
  <2> QED BY <2>2, <2>3 DEF TypeOK, Pop, helperVars, feedVars, histVars, boundVars
<1>5. CASE \E l \in Loc : ReconcileRestored(l)
  <2> PICK l \in Loc : ReconcileRestored(l) BY <1>5
  <2>1. ReconciledRow(staged[l], restorationVector[l], refreshMap[l]) \in Stages
    BY <1>0, StageTypes DEF ReconciledRow
  <2>2. staged' \in [Loc -> Stages] BY <2>1 DEF TypeOK, ReconcileRestored
  <2>3. restorationVector' \in [Loc -> Row] BY RowFacts DEF TypeOK, ReconcileRestored
  <2>4. refreshMap' \in [Loc -> Refreshed] BY <1>a DEF TypeOK, ReconcileRestored
  <2> QED BY <2>2, <2>3, <2>4 DEF TypeOK, ReconcileRestored, feedVars, histVars, boundVars
<1>6. CASE \E l \in Loc : ReconcileNew(l)
  <2> PICK l \in Loc : ReconcileNew(l) BY <1>6
  <2>1. StageSet(staged[l], refreshMap[l].fvs) \in Stages /\ staged[l] \in Stages BY <1>0, StageTypes
  <2>2. staged' \in [Loc -> Stages] BY <2>1 DEF TypeOK, ReconcileNew
  <2>3. refreshMap' \in [Loc -> Refreshed] BY <1>a DEF TypeOK, ReconcileNew
  <2> QED BY <2>2, <2>3 DEF TypeOK, ReconcileNew, feedVars, histVars, boundVars
<1>7. CASE \E lost \in SUBSET Loc : ConnectionLost(lost)
  <2> PICK lost \in SUBSET Loc : ConnectionLost(lost) BY <1>7
  <2>1. drops' \in 0 .. MaxDrops BY BoundAssumption DEF TypeOK, ConnectionLost
  <2>2. staged' \in [Loc -> Stages] BY <1>0, StageTypes DEF ConnectionLost
  <2> QED BY <2>1, <2>2 DEF TypeOK, ConnectionLost
<1>8. CASE StartWarm
  <2>1. staged' \in [Loc -> Stages] BY <1>0, <1>8, StageTypes DEF StartWarm
  <2>2. restorationVector' \in [Loc -> Row] BY <1>0, <1>8, RowFacts DEF StartWarm
  <2>3. refreshMap' \in [Loc -> Refreshed] BY <1>8, <1>a DEF StartWarm, Connected
  <2>4. phase' \in {"RECONCILED", "RESTORED"} BY <1>8 DEF StartWarm, StateAfter
  <2>5. early' \in BOOLEAN /\ dump' \subseteq Key /\ dirty' \subseteq Key /\ missed' \subseteq Key
    BY <1>8 DEF StartWarm, Connected, Withdrawn
  <2> QED BY <1>8, <2>1, <2>2, <2>3, <2>4, <2>5 DEF TypeOK, StartWarm, boundVars
<1>9. CASE StartCold
  <2>1. restorationVector' \in [Loc -> Row] BY <1>9, RowFacts DEF StartCold
  <2>2. refreshMap' \in [Loc -> Refreshed] BY <1>9, <1>a DEF StartCold, Connected
  <2>3. early' \in BOOLEAN /\ dump' \subseteq Key /\ dirty' \subseteq Key /\ missed' \subseteq Key
    BY <1>9 DEF StartCold, Connected, Withdrawn
  <2> QED BY <1>9, <2>1, <2>2, <2>3 DEF TypeOK, StartCold, boundVars
<1>10. CASE OnWarmStartEnd BY <1>10 DEF TypeOK, OnWarmStartEnd, feedVars, boundVars
<1>11. CASE ReconcileEnds BY <1>11 DEF TypeOK, ReconcileEnds, feedVars, histVars, boundVars
<1>12. CASE UNCHANGED vars BY <1>12 DEF TypeOK, vars, helperVars, feedVars, histVars, boundVars
<1> QED BY <1>1, <1>2, <1>3, <1>4, <1>5, <1>6, <1>7, <1>8, <1>9, <1>10, <1>11, <1>12 DEF Next

\* Every variable of the helper, its client and the tables has its type, and
\* m_state is INITIALIZED only within checkAndStart.
THEOREM SpecTypeOK == Spec => []TypeOK
<1>1. Init => TypeOK BY InitIInv DEF IInv
<1> QED BY <1>1, NextTypeOK, PTL DEF Spec

\* When reconcile() is over (and when warm restart is not enabled), each row
\* is what zebra wants, the order within a list aside, and there is no other
\* row; whatever changed, was lost or was begun anew meanwhile.
THEOREM SpecReconciles == OnlyRegistered /\ Spec => []Reconciles
<1>1. IInv => Reconciles
  <2> SUFFICES ASSUME IInv, phase \in {"RECONCILED", "WSDISABLED"}
               PROVE  /\ \A k \in Key \ (dirty \cup missed) : Same(Effect(Home(k)), zebra[k])
                      /\ \A l \in Loc : l # Home(l[2]) => Effect(l) = NoRow
    BY DEF Reconciles
  <2>1. \A k \in Key \ (dirty \cup missed) : Same(Effect(Home(k)), zebra[k])
    BY DEF IInv, KeyInv, InStep, Known
  <2>2. ASSUME NEW l \in Loc, l # Home(l[2]) PROVE Effect(l) = NoRow
    <3>1. TypeOK /\ staged[l] = NoStage /\ appdb[l] = NoRow BY <2>2 DEF IInv, Foreign
    <3> QED BY <3>1, EffectOfNoStage
  <2> QED BY <2>1, <2>2
<1> QED BY <1>1, SpecIInv, PTL

\* A warm restart is hitless: reconcile() writes nothing for a route that zebra
\* sends as it was, its next hops in any order (compareAllFV finds no
\* difference exactly when there is none).
THEOREM SpecHitless == OnlyRegistered /\ Spec => []Hitless
<1>1. IInv => Hitless BY DEF IInv, SteadyInv, Hitless
<1> QED BY <1>1, SpecIInv, PTL
=============================================================================
