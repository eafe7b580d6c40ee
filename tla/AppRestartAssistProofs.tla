----------------------- MODULE AppRestartAssistProofs -----------------------
(***************************************************************************)
(* Proofs about AppRestartAssist for a client like neighsyncd, which       *)
(* writes all the fields of an entry and touches its table only through    *)
(* the cache while a restart is in progress: for any number of entries,    *)
(* restarts and changes, reconciliation leaves what the kernel holds (one  *)
(* pattern of events excepted) and does not disturb what did not change.   *)
(***************************************************************************)
EXTENDS AppRestartAssist, TLAPS

\* Every entry has all the fields.
FullEntries == Entry \subseteq [Field -> Value]
Slot == Entry \cup {NoRow}

\* What the daemon reads and writes is an entry or no row at all.
Shapes ==
  /\ kernel \in [Key -> Slot] /\ appdb \in [Key -> Slot]
  /\ staged \in [Key -> [del : BOOLEAN, fvs : Slot]]
  /\ cache \in [Key -> [state : CacheState, fvs : Slot]]
  /\ \A k \in Key : cache[k].fvs = NoRow <=> cache[k].state = "none"

\* The cache is in use between the restart and the end of reconciliation.
Phases ==
  /\ phase \in {"down", "restored", "reconciling", "normal"}
  /\ phase \in {"down", "normal"} => \A k \in Key : cache[k] = NotCached
  /\ phase = "restored" => \A k \in Key : staged[k] = NoStage

\* What a key will hold when reconciliation is over.
Outcome(k) ==
  IF cache[k].state \in {"STALE", "DELETE"} THEN NoRow
  ELSE IF cache[k].state = "NEW" THEN cache[k].fvs ELSE Effect(k)

\* The marks are right: a key that is not cached has no row, STALE means read
\* back, SAME means that the row is what was announced.
Marks ==
  phase = "restored" =>
    \A k \in Key :
      /\ cache[k].state = "none" => Effect(k) = NoRow
      /\ cache[k].state = "STALE" => Effect(k) = cache[k].fvs
      /\ cache[k].state = "SAME" /\ k \notin readded => Effect(k) = cache[k].fvs

\* What has been announced is what reconciliation will leave.
Agree ==
  phase # "down" => \A k \in Key : k \notin dirty /\ k \notin readded => Outcome(k) = kernel[k]

IInv == Shapes /\ Phases /\ Marks /\ Agree
-----------------------------------------------------------------------------
\* HSET of all the fields replaces a row, HSET of none leaves it alone.
LEMMA HSetFacts ==
  ASSUME FullEntries
  PROVE  /\ \A row \in Slot, e \in Entry : HSet(row, e) = e
         /\ \A row \in Slot : HSet(row, NoRow) = row
         /\ \A c \in Entry, e \in Entry : Contains(c, e) <=> c = e
         /\ NoRow \notin Entry
<1>1. \A e \in Entry : e \in [Field -> Value] BY DEF FullEntries
<1>2. \A row \in Slot : row \in [Field -> Value \cup {NoValue}]
  BY EntryAssumption DEF Slot, NoRow, Row
<1>3. \A e \in Entry, f \in Field : e[f] # NoValue BY <1>1, ValueAssumption
<1>4. \A row \in Slot, e \in Entry : HSet(row, e) = e BY <1>1, <1>3 DEF HSet
<1>5. \A row \in Slot : HSet(row, NoRow) = row BY <1>2 DEF HSet, NoRow
<1>6. \A c \in Entry, e \in Entry : Contains(c, e) <=> c = e BY <1>1, <1>3 DEF Contains
<1>7. NoRow \notin Entry BY EntryAssumption
<1> QED BY <1>4, <1>5, <1>6, <1>7

\* What popping and staging do to entries.
LEMMA TableFacts ==
  ASSUME FullEntries
  PROVE  /\ \A row \in Slot, s \in [del : BOOLEAN, fvs : Slot] :
              /\ Popped(row, s) \in Slot
              /\ s.fvs # NoRow => Popped(row, s) = s.fvs
              /\ s.fvs = NoRow /\ s.del => Popped(row, s) = NoRow
              /\ s.fvs = NoRow /\ ~s.del => Popped(row, s) = row
         /\ \A s \in [del : BOOLEAN, fvs : Slot], e \in Entry :
              StageSet(s, e) = [del |-> s.del, fvs |-> e]
<1>1. NoRow \in Slot /\ Entry \subseteq Slot BY DEF Slot
<1>2. ASSUME NEW row \in Slot, NEW s \in [del : BOOLEAN, fvs : Slot]
      PROVE  /\ Popped(row, s) \in Slot
             /\ s.fvs # NoRow => Popped(row, s) = s.fvs
             /\ s.fvs = NoRow /\ s.del => Popped(row, s) = NoRow
             /\ s.fvs = NoRow /\ ~s.del => Popped(row, s) = row
  <2> DEFINE base == IF s.del THEN NoRow ELSE row
  <2>1. base \in Slot /\ Popped(row, s) = HSet(base, s.fvs) BY <1>1 DEF Popped
  <2>2. (s.del => base = NoRow) /\ (~s.del => base = row) OBVIOUS
  <2> HIDE DEF base
  <2>3. s.fvs # NoRow => s.fvs \in Entry BY DEF Slot
  <2> QED BY <1>1, <2>1, <2>2, <2>3, HSetFacts
<1>3. ASSUME NEW s \in [del : BOOLEAN, fvs : Slot], NEW e \in Entry
      PROVE  StageSet(s, e) = [del |-> s.del, fvs |-> e]
  BY HSetFacts DEF StageSet
<1> QED BY <1>2, <1>3

\* The effect of a key is an entry or no row; popping does not change it.
LEMMA EffectFacts ==
  ASSUME FullEntries, Shapes
  PROVE  /\ \A k \in Key : Effect(k) \in Slot
         /\ \A k \in Key : staged[k] = NoStage => Effect(k) = appdb[k]
<1>1. NoStage.fvs = NoRow /\ ~NoStage.del BY DEF NoStage
<1> QED BY <1>1, TableFacts DEF Shapes, Effect

\* A running daemon is in step with the kernel.
LEMMA InitIInv == ASSUME FullEntries PROVE Init => IInv
<1> SUFFICES ASSUME Init PROVE IInv OBVIOUS
<1>1. Shapes
  BY DEF Init, Shapes, Slot, NoStage, NotCached, CacheState
<1>2. \A k \in Key : Effect(k) = kernel[k] BY <1>1, EffectFacts DEF Init
<1>3. Phases /\ Marks BY DEF Phases, Marks, Init
<1>4. Agree BY <1>2 DEF Agree, Outcome, Init, NotCached
<1> QED BY <1>1, <1>3, <1>4 DEF IInv

\* A change in the kernel is not announced yet.
LEMMA KernelStep ==
  ASSUME FullEntries, IInv, NEW k \in Key, NEW e \in Slot, KernelChange(k, e) PROVE IInv'
<1> USE DEF KernelChange, appVars
<1>1. Shapes' BY DEF IInv, Shapes
<1>2. \A j \in Key : Effect(j)' = Effect(j) BY DEF Effect
<1>3. Phases' /\ Marks' BY <1>2 DEF IInv, Phases, Marks
<1>4. Agree' BY <1>2 DEF IInv, Agree, Outcome, Shapes
<1> QED BY <1>1, <1>3, <1>4 DEF IInv

\* Orchagent pops what is staged for a key.
LEMMA PopStep == ASSUME FullEntries, IInv, NEW k \in Key, Pop(k) PROVE IInv'
<1> USE DEF Pop, appVars
<1>1. Shapes'
  <2>1. Effect(k) \in Slot BY EffectFacts DEF IInv
  <2>2. NoStage \in [del : BOOLEAN, fvs : Slot] BY DEF NoStage, Slot
  <2> QED BY <2>1, <2>2 DEF IInv, Shapes
<1>2. \A j \in Key : Effect(j)' = Effect(j)
  <2>1. ASSUME NEW j \in Key PROVE Effect(j)' = Effect(j)
    <3>1. CASE j = k
      <4>1. appdb'[k] = Effect(k) /\ staged'[k] = NoStage BY DEF IInv, Shapes
      <4>2. Effect(k)' = Popped(Effect(k), NoStage) BY <4>1 DEF Effect
      <4>3. Effect(k) \in Slot BY EffectFacts DEF IInv
      <4>4. NoStage \in [del : BOOLEAN, fvs : Slot] /\ NoStage.fvs = NoRow /\ ~NoStage.del
        BY DEF NoStage, Slot
      <4> QED BY <3>1, <4>2, <4>3, <4>4, TableFacts
    <3>2. CASE j # k BY <3>2 DEF Effect, IInv, Shapes
    <3> QED BY <3>1, <3>2
  <2> QED BY <2>1
<1>3. Phases' BY DEF IInv, Phases, Shapes
<1>4. Marks' BY <1>2 DEF IInv, Marks, histVars
<1>5. Agree' BY <1>2 DEF IInv, Agree, Outcome, histVars
<1> QED BY <1>1, <1>3, <1>4, <1>5 DEF IInv

\* The daemon goes down with its cache.
LEMMA DownStep == ASSUME FullEntries, IInv, GoDown PROVE IInv'
<1>1. Shapes' BY DEF GoDown, IInv, Shapes, NotCached, CacheState, Slot
<1>2. Phases' /\ Marks' /\ Agree' BY DEF GoDown, Phases, Marks, Agree
<1> QED BY <1>1, <1>2 DEF IInv

\* The daemon comes back: every row is STALE until it is announced.
LEMMA ReadStep == ASSUME FullEntries, IInv, ReadTablesToMap PROVE IInv'
<1> USE DEF ReadTablesToMap
<1>1. \A k \in Key :
        /\ cache'[k] = Restored(appdb[k]) /\ staged'[k] = NoStage /\ appdb'[k] = appdb[k]
        /\ appdb[k] \in Slot
  BY DEF IInv, Shapes
<1>2. \A k \in Key :
        /\ appdb[k] = NoRow => cache'[k].state = "none" /\ cache'[k].fvs = NoRow
        /\ appdb[k] # NoRow => cache'[k].state = "STALE" /\ cache'[k].fvs = appdb[k]
  <2>1. ASSUME NEW k \in Key, appdb[k] = NoRow
        PROVE  cache'[k].state = "none" /\ cache'[k].fvs = NoRow
    <3>1. cache'[k] = [state |-> "none", fvs |-> NoRow] BY <1>1, <2>1 DEF Restored, NotCached
    <3> QED BY <3>1
  <2>2. ASSUME NEW k \in Key, appdb[k] # NoRow
        PROVE  cache'[k].state = "STALE" /\ cache'[k].fvs = appdb[k]
    <3>1. cache'[k] = [state |-> "STALE", fvs |-> appdb[k]] BY <1>1, <2>2 DEF Restored
    <3> QED BY <3>1
  <2> QED BY <2>1, <2>2
<1>3. Shapes'
  <2>1. cache' \in [Key -> [state : CacheState, fvs : Slot]]
    <3>1. ASSUME NEW row \in Slot PROVE Restored(row) \in [state : CacheState, fvs : Slot]
      BY DEF Restored, NotCached, CacheState, Slot
    <3>2. \A k \in Key : Restored(appdb[k]) \in [state : CacheState, fvs : Slot] BY <1>1, <3>1
    <3> QED BY <3>2
  <2>2. \A k \in Key : cache'[k].fvs = NoRow <=> cache'[k].state = "none" BY <1>2
  <2>3. staged' \in [Key -> [del : BOOLEAN, fvs : Slot]] BY DEF NoStage, Slot
  <2> QED BY <2>1, <2>2, <2>3 DEF IInv, Shapes
<1>4. \A k \in Key : Effect(k)' = appdb[k]
  <2>1. NoStage \in [del : BOOLEAN, fvs : Slot] /\ NoStage.fvs = NoRow /\ ~NoStage.del
    BY DEF NoStage, Slot
  <2> QED BY <1>1, <2>1, TableFacts DEF Effect
<1>5. Phases' BY <1>1 DEF Phases
<1>6. Marks' BY <1>2, <1>4 DEF Marks
<1>7. Agree' BY <1>2, <1>4 DEF Agree, Outcome
<1> QED BY <1>3, <1>5, <1>6, <1>7 DEF IInv

\* The mark of an entry after an announcement, in terms of its fields.
LEMMA InsertFacts ==
  ASSUME FullEntries, NEW c \in [state : CacheState, fvs : Slot], NEW e \in Entry,
         c.fvs = NoRow <=> c.state = "none"
  PROVE  /\ InsertSet(c, e) \in [state : CacheState, fvs : Slot]
         /\ InsertSet(c, e).fvs = e
         /\ InsertSet(c, e).state \in {"NEW", "SAME"}
         /\ InsertSet(c, e).state = "SAME" => c.fvs = e /\ c.state \in {"STALE", "SAME", "DELETE"}
         /\ InsertDel(c) \in [state : CacheState, fvs : Slot]
         /\ InsertDel(c).fvs = c.fvs
         /\ c.state = "none" => InsertDel(c).state = "none"
         /\ c.state # "none" => InsertDel(c).state = "DELETE"
<1>1. e \in Slot /\ e # NoRow BY HSetFacts DEF Slot
<1>2. CASE c.state # "none" /\ Contains(c.fvs, e)
  <2>1. c.fvs \in Entry BY <1>2 DEF Slot
  <2>2. c.fvs = e BY <1>2, <2>1, HSetFacts
  <2>3. CASE c.state = "NEW"
    <3>1. InsertSet(c, e) = c BY <1>2, <2>3 DEF InsertSet
    <3> QED BY <1>2, <2>2, <2>3, <3>1 DEF InsertDel, CacheState
  <2>4. CASE c.state # "NEW"
    <3>1. InsertSet(c, e) = [c EXCEPT !.state = "SAME"] BY <1>2, <2>4 DEF InsertSet
    <3> QED BY <1>2, <2>2, <2>4, <3>1 DEF InsertDel, CacheState
  <2> QED BY <2>3, <2>4
<1>3. CASE ~(c.state # "none" /\ Contains(c.fvs, e))
  <2>1. InsertSet(c, e) = [state |-> "NEW", fvs |-> e] BY <1>3 DEF InsertSet
  <2> QED BY <1>1, <2>1 DEF InsertDel, CacheState
<1> QED BY <1>2, <1>3

\* An announcement during the restart goes to the cache only.
LEMMA AnnounceRestored ==
  ASSUME FullEntries, Client = "neighsyncd", IInv, NEW k \in Key, phase = "restored",
         AnnounceSet(k) \/ AnnounceDel(k)
  PROVE  IInv'
<1>0. /\ kernel' = kernel /\ appdb' = appdb /\ phase' = phase
      /\ dirty' = dirty \ {k}
  BY DEF AnnounceSet, AnnounceDel, Announced
<1>1. staged' = staged
  <2>1. CASE AnnounceSet(k)
    <3>1. staged' = [staged EXCEPT ![k] = staged[k]] BY <2>1 DEF AnnounceSet, BeforeSet
    <3> QED BY <3>1 DEF IInv, Shapes
  <2>2. CASE AnnounceDel(k) BY <2>2 DEF AnnounceDel
  <2> QED BY <2>1, <2>2
<1>2. \A j \in Key : Effect(j)' = Effect(j) BY <1>0, <1>1 DEF Effect
<1>3. PICK c \in {InsertSet(cache[k], kernel[k]), InsertDel(cache[k])} :
        /\ cache' = [cache EXCEPT ![k] = c]
        /\ AnnounceSet(k) => c = InsertSet(cache[k], kernel[k])
        /\ AnnounceDel(k) => c = InsertDel(cache[k])
  <2>1. ~(AnnounceSet(k) /\ AnnounceDel(k)) BY DEF AnnounceSet, AnnounceDel
  <2>2. CASE AnnounceSet(k) BY <2>1, <2>2 DEF AnnounceSet
  <2>3. CASE AnnounceDel(k) BY <2>1, <2>3 DEF AnnounceDel
  <2> QED BY <2>2, <2>3
<1>4. cache[k] \in [state : CacheState, fvs : Slot] /\ (cache[k].fvs = NoRow <=> cache[k].state = "none")
  BY DEF IInv, Shapes
<1>5. c \in [state : CacheState, fvs : Slot] /\ (c.fvs = NoRow <=> c.state = "none")
  <2>1. CASE AnnounceSet(k)
    <3>1. kernel[k] \in Entry /\ kernel[k] # NoRow BY <2>1 DEF AnnounceSet, IInv, Shapes, Slot
    <3>2. c = InsertSet(cache[k], kernel[k]) BY <1>3, <2>1
    <3>3. c \in [state : CacheState, fvs : Slot] /\ c.fvs = kernel[k] /\ c.state \in {"NEW", "SAME"}
      BY <1>4, <3>1, <3>2, InsertFacts
    <3> QED BY <3>1, <3>3
  <2>2. CASE AnnounceDel(k)
    <3>1. c = InsertDel(cache[k]) BY <1>3, <2>2
    <3>2. CASE cache[k].state = "none" BY <1>4, <3>1, <3>2 DEF InsertDel
    <3>3. CASE cache[k].state # "none" BY <1>4, <3>1, <3>3 DEF InsertDel, CacheState
    <3> QED BY <3>2, <3>3
  <2> QED BY <2>1, <2>2
<1>6. Shapes' BY <1>0, <1>1, <1>3, <1>5 DEF IInv, Shapes
<1>7. Phases' BY <1>0, <1>1 DEF IInv, Phases
<1>8. \A j \in Key : j # k => cache'[j] = cache[j] /\ (j \in readded' <=> j \in readded)
  BY <1>3 DEF AnnounceSet, AnnounceDel, IInv, Shapes
<1>9. cache'[k] = c BY <1>3 DEF IInv, Shapes
<1>10. /\ c.state = "none" => Effect(k) = NoRow
       /\ c.state = "STALE" => Effect(k) = c.fvs
       /\ c.state = "SAME" /\ k \notin readded' => Effect(k) = c.fvs
       /\ k \notin readded' => (IF c.state \in {"STALE", "DELETE"} THEN NoRow
                                ELSE IF c.state = "NEW" THEN c.fvs ELSE Effect(k)) = kernel[k]
  <2>m. /\ cache[k].state = "none" => Effect(k) = NoRow
        /\ cache[k].state = "STALE" => Effect(k) = cache[k].fvs
        /\ cache[k].state = "SAME" /\ k \notin readded => Effect(k) = cache[k].fvs
    BY DEF IInv, Marks
  <2>1. CASE AnnounceSet(k)
    <3>1. kernel[k] \in Entry BY <2>1 DEF AnnounceSet, IInv, Shapes, Slot
    <3>2. c = InsertSet(cache[k], kernel[k]) BY <1>3, <2>1
    <3>3. /\ c.fvs = kernel[k] /\ c.state \in {"NEW", "SAME"}
          /\ c.state = "SAME" => cache[k].fvs = kernel[k] /\ cache[k].state \in {"STALE", "SAME", "DELETE"}
      BY <1>4, <3>1, <3>2, InsertFacts
    <3>4. k \notin readded' =>
            /\ k \notin readded
            /\ cache[k].state = "DELETE" /\ kernel[k] = cache[k].fvs => cache[k].fvs = Effect(k)
      BY <2>1 DEF AnnounceSet
    <3> QED BY <2>m, <3>3, <3>4
  <2>2. CASE AnnounceDel(k)
    <3>1. c = InsertDel(cache[k]) /\ kernel[k] = NoRow BY <1>3, <2>2 DEF AnnounceDel
    <3>2. CASE cache[k].state = "none" BY <2>m, <3>1, <3>2 DEF InsertDel
    <3>3. CASE cache[k].state # "none"
      <4>1. c.state = "DELETE" BY <1>4, <3>1, <3>3 DEF InsertDel
      <4> QED BY <3>1, <4>1
    <3> QED BY <3>2, <3>3
  <2> QED BY <2>1, <2>2
<1>11. Marks' BY <1>0, <1>2, <1>8, <1>9, <1>10 DEF IInv, Marks
<1>12. Agree'
  <2>1. \A j \in Key : j # k => Outcome(j)' = Outcome(j) BY <1>2, <1>8 DEF Outcome
  <2>2. k \notin readded' => Outcome(k)' = kernel[k] BY <1>2, <1>9, <1>10 DEF Outcome
  <2> QED BY <1>0, <1>8, <2>1, <2>2 DEF IInv, Agree
<1> QED BY <1>6, <1>7, <1>11, <1>12 DEF IInv

\* In normal operation an announcement is staged at once.
LEMMA AnnounceNormal ==
  ASSUME FullEntries, Client = "neighsyncd", IInv, NEW k \in Key, phase = "normal",
         AnnounceSet(k) \/ AnnounceDel(k)
  PROVE  IInv'
<1>0. kernel' = kernel /\ appdb' = appdb /\ phase' = phase /\ cache' = cache /\ dirty' = dirty \ {k}
      /\ readded' = readded \ {k}
  BY DEF AnnounceSet, AnnounceDel, Announced
<1>1. kernel[k] \in Slot /\ appdb[k] \in Slot /\ staged[k] \in [del : BOOLEAN, fvs : Slot]
  BY DEF IInv, Shapes
<1>2. PICK st \in [del : BOOLEAN, fvs : Slot] :
        staged' = [staged EXCEPT ![k] = st] /\ Popped(appdb[k], st) = kernel[k]
  <2>1. CASE AnnounceSet(k)
    <3>1. kernel[k] \in Entry /\ kernel[k] # NoRow BY <1>1, <2>1 DEF AnnounceSet, Slot
    <3>2. staged' = [staged EXCEPT ![k] = StageSet(staged[k], kernel[k])]
      BY <2>1 DEF AnnounceSet, BeforeSet
    <3> DEFINE st == StageSet(staged[k], kernel[k])
    <3>3. st = [del |-> staged[k].del, fvs |-> kernel[k]] BY <1>1, <3>1, TableFacts
    <3>4. st \in [del : BOOLEAN, fvs : Slot] /\ st.fvs = kernel[k] BY <1>1, <3>3
    <3> HIDE DEF st
    <3>5. Popped(appdb[k], st) = kernel[k] BY <1>1, <3>1, <3>4, TableFacts
    <3> QED BY <3>2, <3>4, <3>5 DEF st
  <2>2. CASE AnnounceDel(k)
    <3>1. kernel[k] = NoRow /\ staged' = [staged EXCEPT ![k] = StageDel(staged[k])]
      BY <2>2 DEF AnnounceDel
    <3> DEFINE st == StageDel(staged[k])
    <3>2. st \in [del : BOOLEAN, fvs : Slot] /\ st.fvs = NoRow /\ st.del BY DEF StageDel, Slot
    <3> HIDE DEF st
    <3>3. Popped(appdb[k], st) = NoRow BY <1>1, <3>2, TableFacts
    <3> QED BY <3>1, <3>2, <3>3 DEF st
  <2> QED BY <2>1, <2>2
<1>3. Shapes' BY <1>0, <1>2 DEF IInv, Shapes
<1>4. Phases' /\ Marks' BY <1>0 DEF IInv, Phases, Marks
<1>5. Effect(k)' = kernel[k] BY <1>0, <1>2 DEF Effect, IInv, Shapes
<1>6. \A j \in Key : j # k => Effect(j)' = Effect(j) BY <1>0, <1>2 DEF Effect, IInv, Shapes
<1>7. \A j \in Key : cache[j].state = "none" BY DEF IInv, Phases, NotCached
<1>8. Agree' BY <1>0, <1>5, <1>6, <1>7 DEF IInv, Agree, Outcome
<1> QED BY <1>3, <1>4, <1>8 DEF IInv

\* What reconcile() stages for a key is the outcome its mark stands for.
LEMMA ReconcileStep == ASSUME FullEntries, IInv, NEW k \in Key, ReconcileKey(k) PROVE IInv'
<1>0. /\ kernel' = kernel /\ appdb' = appdb /\ phase' = phase /\ dirty' = dirty /\ readded' = readded
      /\ phase = "reconciling"
      /\ staged' = [staged EXCEPT ![k] = Reconciled(cache[k], staged[k])]
      /\ cache' = [cache EXCEPT ![k] = NotCached]
  BY DEF ReconcileKey, histVars
<1>1. /\ appdb[k] \in Slot /\ staged[k] \in [del : BOOLEAN, fvs : Slot]
      /\ cache[k] \in [state : CacheState, fvs : Slot] /\ (cache[k].fvs = NoRow <=> cache[k].state = "none")
  BY DEF IInv, Shapes
<1> DEFINE st == Reconciled(cache[k], staged[k])
<1>2. st \in [del : BOOLEAN, fvs : Slot] /\ Popped(appdb[k], st) = Outcome(k)
  <2>1. CASE cache[k].state \in {"SAME", "none"}
    <3>1. st = staged[k] BY <2>1 DEF Reconciled
    <3>2. Outcome(k) = Effect(k) BY <2>1 DEF Outcome
    <3> QED BY <1>1, <3>1, <3>2 DEF Effect
  <2>2. CASE cache[k].state \in {"STALE", "DELETE"}
    <3>1. st = [del |-> TRUE, fvs |-> NoRow] BY <2>2 DEF Reconciled, StageDel
    <3>2. st \in [del : BOOLEAN, fvs : Slot] /\ st.fvs = NoRow /\ st.del BY <3>1 DEF Slot
    <3> HIDE DEF st
    <3>3. Popped(appdb[k], st) = NoRow BY <1>1, <3>2, TableFacts
    <3> QED BY <2>2, <3>2, <3>3 DEF Outcome
  <2>3. CASE cache[k].state = "NEW"
    <3>1. cache[k].fvs \in Entry /\ cache[k].fvs # NoRow BY <1>1, <2>3 DEF Slot
    <3>2. st = StageSet(staged[k], cache[k].fvs) BY <2>3 DEF Reconciled
    <3>3. st = [del |-> staged[k].del, fvs |-> cache[k].fvs] BY <1>1, <3>1, <3>2, TableFacts
    <3>4. st \in [del : BOOLEAN, fvs : Slot] /\ st.fvs = cache[k].fvs BY <1>1, <3>3
    <3> HIDE DEF st
    <3>5. Popped(appdb[k], st) = cache[k].fvs BY <1>1, <3>1, <3>4, TableFacts
    <3> QED BY <2>3, <3>4, <3>5 DEF Outcome
  <2> QED BY <1>1, <2>1, <2>2, <2>3 DEF CacheState
<1> HIDE DEF st
<1>3. staged' = [staged EXCEPT ![k] = st] BY <1>0 DEF st
<1>4. Shapes'
  <2>1. NotCached \in [state : CacheState, fvs : Slot] /\ NotCached.fvs = NoRow /\ NotCached.state = "none"
    BY DEF NotCached, CacheState, Slot
  <2> QED BY <1>0, <1>2, <1>3, <2>1 DEF IInv, Shapes
<1>5. Phases' /\ Marks' BY <1>0 DEF IInv, Phases, Marks
<1>6. \A j \in Key : Outcome(j)' = Outcome(j)
  <2>1. ASSUME NEW j \in Key, j # k PROVE Outcome(j)' = Outcome(j)
    <3>1. Effect(j)' = Effect(j) /\ cache'[j] = cache[j] BY <1>0, <1>3, <2>1 DEF Effect, IInv, Shapes
    <3> QED BY <3>1 DEF Outcome
  <2>2. Outcome(k)' = Outcome(k)
    <3>1. Effect(k)' = Popped(appdb[k], st) BY <1>0, <1>3 DEF Effect, IInv, Shapes
    <3>2. cache'[k].state = "none" BY <1>0 DEF NotCached, IInv, Shapes
    <3> QED BY <1>2, <3>1, <3>2 DEF Outcome
  <2> QED BY <2>1, <2>2
<1>7. Agree' BY <1>0, <1>6 DEF IInv, Agree
<1> QED BY <1>4, <1>5, <1>7 DEF IInv

\* The timer and the end of reconcile() only change the phase.
LEMMA PhaseStep == ASSUME IInv, TimerExpires \/ ReconcileEnds PROVE IInv'
<1>0. UNCHANGED <<kernel, appdb, staged, cache, dirty, readded>>
  BY DEF TimerExpires, ReconcileEnds, histVars
<1>1. \/ phase = "restored" /\ phase' = "reconciling"
      \/ phase = "reconciling" /\ phase' = "normal" /\ \A k \in Key : cache[k] = NotCached
  BY DEF TimerExpires, ReconcileEnds
<1>2. Shapes' BY <1>0 DEF IInv, Shapes
<1>3. Phases' /\ Marks' BY <1>0, <1>1 DEF Phases, Marks
<1>4. \A k \in Key : Outcome(k)' = Outcome(k) BY <1>0 DEF Outcome, Effect
<1>5. Agree' BY <1>0, <1>1, <1>4 DEF IInv, Agree
<1> QED BY <1>2, <1>3, <1>5 DEF IInv

\* A stuttering step.
LEMMA StutterStep == ASSUME IInv, UNCHANGED vars PROVE IInv'
<1>0. UNCHANGED <<kernel, appdb, staged, cache, phase, dirty, readded>>
  BY DEF vars, appVars, histVars
<1>1. \A k \in Key : Effect(k)' = Effect(k) /\ Outcome(k)' = Outcome(k) BY <1>0 DEF Outcome, Effect
<1>2. Shapes' /\ Phases' BY <1>0 DEF IInv, Shapes, Phases
<1>3. Marks' /\ Agree' BY <1>0, <1>1 DEF IInv, Marks, Agree
<1> QED BY <1>2, <1>3 DEF IInv

\* The invariant is inductive.
LEMMA NextIInv == ASSUME FullEntries, Client = "neighsyncd" PROVE IInv /\ [Next]_vars => IInv'
<1> SUFFICES ASSUME IInv, [Next]_vars PROVE IInv' OBVIOUS
<1>1. ASSUME NEW k \in Key, AnnounceSet(k) \/ AnnounceDel(k) PROVE IInv'
  <2>1. phase \in {"restored", "normal"} BY <1>1 DEF AnnounceSet, AnnounceDel
  <2> QED BY <1>1, <2>1, AnnounceRestored, AnnounceNormal
<1>2. ASSUME NEW k \in Key, NEW e \in Entry \cup {NoRow}, KernelChange(k, e) PROVE IInv'
  BY <1>2, KernelStep DEF Slot
<1> QED BY <1>1, <1>2, PopStep, DownStep, ReadStep, ReconcileStep, PhaseStep, StutterStep DEF Next

\* When reconciliation is over the table holds what the kernel announced, for
\* a client that writes whole entries, through its cache only: for every number
\* of entries, restarts (also in the middle of reconcile()) and changes.
THEOREM NeighReconciles ==
  ASSUME FullEntries, Client = "neighsyncd" PROVE Spec => []ConvergedUnlessReadded
<1>1. IInv => ConvergedUnlessReadded
  <2> SUFFICES ASSUME IInv, phase = "normal", NEW k \in Key, k \notin dirty, k \notin readded
               PROVE  Effect(k) = kernel[k]
    BY DEF ConvergedUnlessReadded
  <2>1. cache[k].state = "none" BY DEF IInv, Phases, NotCached
  <2> QED BY <2>1 DEF IInv, Agree, Outcome
<1> QED BY <1>1, InitIInv, NextIInv, PTL DEF Spec
-----------------------------------------------------------------------------
\* A steady entry: its row is what the kernel holds, nothing that is staged
\* would change it, and reconcile() will leave it alone.
SteadyKey(k) ==
  /\ kernel[k] # NoRow /\ appdb[k] = kernel[k]
  /\ ~staged[k].del /\ staged[k].fvs \in {NoRow, kernel[k]}
  /\ phase = "restored" =>
       /\ cache[k].fvs = kernel[k]
       /\ cache[k].state \in {"SAME", "STALE"}
       /\ (cache[k].state = "STALE" => k \in dump)
  /\ phase = "reconciling" => cache[k].state \in {"none", "SAME"}

Steady ==
  /\ steady \subseteq Key
  /\ phase = "restored" => ~early
  /\ ~early \/ phase = "down" => \A k \in steady : SteadyKey(k)

\* Steady entries stay so.
LEMMA SteadyStep ==
  ASSUME FullEntries, Client = "neighsyncd", IInv, Steady, [Next]_vars PROVE Steady'
<1>s. Shapes BY DEF IInv
<1>1. ASSUME NEW k \in Key, NEW e \in Slot, KernelChange(k, e) PROVE Steady'
  BY <1>1, <1>s DEF KernelChange, Steady, SteadyKey, appVars, Shapes
<1>2. ASSUME NEW k \in Key, Pop(k) PROVE Steady'
  <2>1. k \in steady /\ SteadyKey(k) => Effect(k) = kernel[k]
    BY <1>s, TableFacts DEF SteadyKey, Effect, Shapes
  <2>2. NoStage.fvs = NoRow /\ ~NoStage.del BY DEF NoStage
  <2> QED BY <1>2, <1>s, <2>1, <2>2 DEF Pop, Steady, SteadyKey, appVars, histVars, Shapes
<1>3. ASSUME NEW k \in Key, AnnounceSet(k) \/ AnnounceDel(k) PROVE Steady'
  <2>0. /\ kernel' = kernel /\ appdb' = appdb /\ phase' = phase /\ steady' = steady /\ early' = early
        /\ dump' = dump \ {k} /\ phase \in {"restored", "normal"}
        /\ \A j \in Key : j # k => staged'[j] = staged[j] /\ cache'[j] = cache[j]
    BY <1>3, <1>s DEF AnnounceSet, AnnounceDel, Announced, Shapes
  <2>1. ASSUME k \in steady, SteadyKey(k) PROVE SteadyKey(k)'
    <3>1. AnnounceSet(k) /\ kernel[k] # NoRow /\ kernel[k] \in Entry
      BY <1>3, <1>s, <2>1 DEF AnnounceDel, SteadyKey, Shapes, Slot
    <3>2. CASE phase = "restored"
      <4>1. staged'[k] = staged[k] BY <3>1, <3>2, <1>s DEF AnnounceSet, BeforeSet, Shapes
      <4>2. cache'[k] = InsertSet(cache[k], kernel[k]) BY <3>1, <3>2, <1>s DEF AnnounceSet, Shapes
      <4>3. cache[k].state \in {"SAME", "STALE"} /\ cache[k].fvs = kernel[k]
        BY <2>1, <3>2 DEF SteadyKey
      <4>4. Contains(cache[k].fvs, kernel[k]) BY <3>1, <4>3, HSetFacts
      <4>5. cache'[k] = [cache[k] EXCEPT !.state = "SAME"] BY <4>2, <4>3, <4>4 DEF InsertSet
      <4>6. cache'[k].state = "SAME" /\ cache'[k].fvs = kernel[k]
        BY <4>3, <4>5, <1>s DEF Shapes
      <4> QED BY <2>0, <2>1, <3>2, <4>1, <4>6 DEF SteadyKey
    <3>3. CASE phase = "normal"
      <4>1. staged'[k] = StageSet(staged[k], kernel[k])
        BY <3>1, <3>3, <1>s DEF AnnounceSet, BeforeSet, Shapes
      <4>2. staged'[k] = [del |-> staged[k].del, fvs |-> kernel[k]]
        BY <3>1, <4>1, <1>s, TableFacts DEF Shapes
      <4>3. ~staged'[k].del /\ staged'[k].fvs = kernel[k] BY <2>1, <4>2 DEF SteadyKey
      <4> QED BY <2>0, <2>1, <3>3, <4>3 DEF SteadyKey
    <3> QED BY <2>0, <3>2, <3>3
  <2>2. ASSUME NEW j \in Key, j # k, SteadyKey(j) PROVE SteadyKey(j)'
    BY <2>0, <2>2 DEF SteadyKey
  <2> QED BY <2>0, <2>1, <2>2 DEF Steady
<1>4. ASSUME GoDown PROVE Steady'
  <2>1. NoStage.fvs = NoRow /\ ~NoStage.del BY DEF NoStage
  <2> QED BY <1>4, <2>1 DEF GoDown, Steady, SteadyKey
<1>5. ASSUME ReadTablesToMap PROVE Steady'
  <2>0. /\ kernel' = kernel /\ appdb' = appdb /\ steady' = steady /\ phase = "down" /\ phase' = "restored"
        /\ dump' = {k \in Key : kernel[k] # NoRow}
        /\ \A k \in Key : staged'[k] = NoStage /\ cache'[k] = Restored(appdb[k])
        /\ ~early'
    BY <1>5 DEF ReadTablesToMap
  <2>1. NoStage.fvs = NoRow /\ ~NoStage.del BY DEF NoStage
  <2>2. ASSUME NEW k \in Key, SteadyKey(k) PROVE SteadyKey(k)'
    <3>1. cache'[k] = [state |-> "STALE", fvs |-> appdb[k]] BY <2>0, <2>2 DEF Restored, SteadyKey
    <3>2. cache'[k].state = "STALE" /\ cache'[k].fvs = kernel[k] BY <2>2, <3>1 DEF SteadyKey
    <3> QED BY <2>0, <2>1, <2>2, <3>2 DEF SteadyKey
  <2> QED BY <2>0, <2>2 DEF Steady
<1>6. ASSUME NEW k \in Key, ReconcileKey(k) PROVE Steady'
  <2>0. /\ kernel' = kernel /\ appdb' = appdb /\ phase' = phase /\ phase = "reconciling"
        /\ steady' = steady /\ early' = early /\ dump' = dump
        /\ \A j \in Key : j # k => staged'[j] = staged[j] /\ cache'[j] = cache[j]
        /\ staged'[k] = Reconciled(cache[k], staged[k]) /\ cache'[k] = NotCached
    BY <1>6, <1>s DEF ReconcileKey, histVars, Shapes
  <2>1. ASSUME SteadyKey(k) PROVE SteadyKey(k)'
    <3>1. staged'[k] = staged[k] BY <2>0, <2>1 DEF SteadyKey, Reconciled
    <3>2. cache'[k].state = "none" BY <2>0 DEF NotCached
    <3> QED BY <2>0, <2>1, <3>1, <3>2 DEF SteadyKey
  <2>2. ASSUME NEW j \in Key, j # k, SteadyKey(j) PROVE SteadyKey(j)'
    BY <2>0, <2>2 DEF SteadyKey
  <2> QED BY <2>0, <2>1, <2>2 DEF Steady
<1>7. ASSUME TimerExpires PROVE Steady'
  <2>0. /\ kernel' = kernel /\ appdb' = appdb /\ staged' = staged /\ cache' = cache /\ dump' = dump
        /\ steady' = steady /\ phase = "restored" /\ phase' = "reconciling"
    BY <1>7 DEF TimerExpires
  <2>1. ~early' => dump = {} BY <1>7 DEF TimerExpires
  <2> QED BY <2>0, <2>1 DEF Steady, SteadyKey
<1>8. ASSUME ReconcileEnds PROVE Steady'
  BY <1>8 DEF ReconcileEnds, Steady, SteadyKey, histVars
<1>9. ASSUME UNCHANGED vars PROVE Steady'
  BY <1>9 DEF vars, Steady, SteadyKey, appVars, histVars
<1> QED BY <1>1, <1>2, <1>3, <1>4, <1>5, <1>6, <1>7, <1>8, <1>9 DEF Next, Slot

\* A warm restart is hitless for such a client: an entry that was in step and
\* did not change keeps its row throughout, if the timer leaves time for the
\* dump; for every number of entries, restarts and changes.
THEOREM NeighHitless ==
  ASSUME FullEntries, Client = "neighsyncd" PROVE Spec => []Hitless
<1>1. Init => Steady BY DEF Init, Steady
<1>2. IInv /\ Steady /\ [Next]_vars => Steady' BY SteadyStep
<1>3. Steady => Hitless BY DEF Steady, Hitless, SteadyKey
<1> QED BY <1>1, <1>2, <1>3, InitIInv, NextIInv, PTL DEF Spec
=============================================================================
