-------------------------- MODULE AppRestartAssist --------------------------
(***************************************************************************)
(* warmrestart/warmRestartAssist.cpp with its clients neighsyncd and       *)
(* fdbsyncd: after a warm restart the daemon reads its table of APP_DB     *)
(* into a cache, marks what the kernel announces against it, and when the  *)
(* reconcile timer expires writes only the differences.                    *)
(* The kernel's table changes all the time; its notifications arrive in    *)
(* order, a notification may repeat what is known, and the dump requested  *)
(* at the start brings those of every entry.  The daemon may be restarted  *)
(* at any point, in the middle of reconcile() too.                         *)
(***************************************************************************)
EXTENDS Naturals, AppTable

CONSTANTS Key, Value,
          Entry,        \* what the daemon writes for an entry of the kernel
          Client,       \* "neighsyncd" or "fdbsyncd"
          MaxRestarts,  \* bound on the restarts
          MaxChanges    \* bound on the changes of the kernel's table

Row == [Field -> Value \cup {NoValue}]

ASSUME ValueAssumption == NoValue \notin Value
ASSUME EntryAssumption == Entry \subseteq Row \ {NoRow}
ASSUME ClientAssumption == Client \in {"neighsyncd", "fdbsyncd"}
ASSUME BoundAssumption == MaxRestarts \in Nat /\ MaxChanges \in Nat

VARIABLES
  kernel,    \* the table the daemon mirrors
  appdb,     \* the rows of APP_DB
  staged,    \* operations orchagent has not popped
  phase,     \* "down", "restored" (m_warmStartInProgress), "reconciling", "normal"
  cache,     \* appTableCacheMap: key -> state and fields
  m_mac,     \* the keys fdbsyncd has heard of
  dump,      \* keys of the dump still to be announced
  dirty,     \* keys whose last change is still to be announced
  steady,    \* entries in step with the kernel since before the restart
  early,     \* has the timer expired before the dump was through?
  readded,   \* keys marked DELETE and then SAME with a row that differs
  restarts, changes

appVars == <<phase, cache, m_mac>>
histVars == <<steady, early, readded>>
boundVars == <<restarts, changes>>
vars == <<kernel, appdb, staged, appVars, dump, dirty, histVars, boundVars>>

CacheState == {"none", "STALE", "SAME", "NEW", "DELETE"}
NotCached == [state |-> "none", fvs |-> NoRow]
Effect(k) == Popped(appdb[k], staged[k])

\* TypeOK: every variable has its type; a cached entry has a valid state.
TypeOK ==
  /\ kernel \in [Key -> Entry \cup {NoRow}] /\ appdb \in [Key -> Row]
  /\ staged \in [Key -> [del : BOOLEAN, fvs : Row]]
  /\ phase \in {"down", "restored", "reconciling", "normal"}
  /\ cache \in [Key -> [state : CacheState, fvs : Row]]
  /\ m_mac \subseteq Key /\ dump \subseteq Key /\ dirty \subseteq Key
  /\ steady \subseteq Key /\ early \in BOOLEAN /\ readded \subseteq Key
  /\ restarts \in 0 .. MaxRestarts /\ changes \in 0 .. MaxChanges

\* The daemon has been running for a while.
Init ==
  /\ kernel \in [Key -> Entry \cup {NoRow}]
  /\ appdb = kernel
  /\ staged = [k \in Key |-> NoStage]
  /\ phase = "normal" /\ cache = [k \in Key |-> NotCached]
  /\ m_mac = {k \in Key : kernel[k] # NoRow}
  /\ dump = {} /\ dirty = {}
  /\ steady = {} /\ early = FALSE /\ readded = {}
  /\ restarts = 0 /\ changes = 0
-----------------------------------------------------------------------------
(* The kernel and orchagent                                                *)

KernelChange(k, e) ==
  /\ changes < MaxChanges
  /\ e # kernel[k]
  /\ kernel' = [kernel EXCEPT ![k] = e]
  /\ changes' = changes + 1
  /\ dirty' = dirty \cup {k}
  /\ steady' = steady \ {k}
  /\ UNCHANGED <<appdb, staged, appVars, dump, early, readded, restarts>>

Pop(k) ==
  /\ staged[k] # NoStage
  /\ appdb' = [appdb EXCEPT ![k] = Effect(k)]
  /\ staged' = [staged EXCEPT ![k] = NoStage]
  /\ UNCHANGED <<kernel, appVars, dump, dirty, histVars, boundVars>>
-----------------------------------------------------------------------------
(* The daemon                                                              *)

GoDown ==
  /\ phase # "down"
  /\ restarts < MaxRestarts
  /\ restarts' = restarts + 1
  /\ phase' = "down"
  /\ cache' = [k \in Key |-> NotCached]
  /\ m_mac' = {}
  /\ dump' = {}
  /\ steady' = {k \in Key : kernel[k] # NoRow /\ appdb[k] = kernel[k] /\ staged[k] = NoStage}
  /\ UNCHANGED <<kernel, appdb, staged, dirty, early, readded, changes>>

Restored(row) == IF row = NoRow THEN NotCached ELSE [state |-> "STALE", fvs |-> row]

\* registerAppTable clears what is staged, readTablesToMap reads the rows, and
\* the daemon asks the kernel for a dump.
ReadTablesToMap ==
  /\ phase = "down"
  /\ phase' = "restored"
  /\ staged' = [k \in Key |-> NoStage]
  /\ cache' = [k \in Key |-> Restored(appdb[k])]
  /\ dump' = {k \in Key : kernel[k] # NoRow}
  /\ dirty' = {k \in Key : kernel[k] # NoRow}
  /\ early' = FALSE
  /\ readded' = {}
  /\ UNCHANGED <<kernel, appdb, m_mac, steady, boundVars>>

\* contains: every field of fvs is in the cached entry.
Contains(cached, fvs) == \A f \in Field : fvs[f] = NoValue \/ cached[f] = fvs[f]

\* Mutant of InsertSet: an entry announced twice becomes SAME.
InsertSetTwice(c, fvs) ==
  IF c.state # "none" /\ Contains(c.fvs, fvs) THEN [c EXCEPT !.state = "SAME"]
  ELSE [state |-> "NEW", fvs |-> fvs]

\* insertToMap of a SET ...
InsertSet(c, fvs) ==
  IF c.state # "none" /\ Contains(c.fvs, fvs)
  THEN IF c.state = "NEW" THEN c ELSE [c EXCEPT !.state = "SAME"]
  ELSE [state |-> "NEW", fvs |-> fvs]

\* ... and of a DEL.
InsertDel(c) == IF c.state = "none" THEN c ELSE [c EXCEPT !.state = "DELETE"]

\* Mutant of BeforeSet: every client deletes the row first.
BeforeSetAlways(s) == StageDel(s)

\* macAddVxlan deletes the row first, restart or not: m_mac[key] has just been
\* assigned to, so the test that the MAC is known always succeeds.
BeforeSet(s) == IF Client = "fdbsyncd" THEN StageDel(s) ELSE s

\* The daemon's own table m_mac follows what it is told (macAddVxlan, and the
\* end of macDelVxlan); dump and dirty are the kernel's side of it: what it has
\* still to tell.
Announced(k) ==
  /\ dump' = dump \ {k}
  /\ dirty' = dirty \ {k}
  /\ m_mac' = IF kernel[k] = NoRow THEN m_mac \ {k} ELSE m_mac \cup {k}

\* The kernel announces an entry, for the first time or again.
AnnounceSet(k) ==
  /\ phase \in {"restored", "normal"}
  /\ kernel[k] # NoRow
  /\ Announced(k)
  /\ IF phase = "restored"
     THEN /\ cache' = [cache EXCEPT ![k] = InsertSet(@, kernel[k])]
          /\ staged' = [staged EXCEPT ![k] = BeforeSet(@)]
          /\ readded' = IF cache[k].state = "DELETE" /\ kernel[k] = cache[k].fvs
                            /\ cache[k].fvs # Effect(k)
                        THEN readded \cup {k} ELSE readded
     ELSE /\ staged' = [staged EXCEPT ![k] = StageSet(BeforeSet(@), kernel[k])]
          /\ readded' = readded \ {k}
          /\ UNCHANGED cache
  /\ UNCHANGED <<kernel, appdb, phase, steady, early, boundVars>>

\* The kernel announces that an entry is gone; macDelVxlan ignores a MAC that
\* it has not heard of.
AnnounceDel(k) ==
  /\ phase \in {"restored", "normal"}
  /\ kernel[k] = NoRow
  /\ k \in dirty
  /\ Announced(k)
  /\ IF Client = "fdbsyncd" /\ k \notin m_mac THEN UNCHANGED <<cache, staged>>
     ELSE IF phase = "restored"
          THEN cache' = [cache EXCEPT ![k] = InsertDel(@)] /\ UNCHANGED staged
          ELSE staged' = [staged EXCEPT ![k] = StageDel(@)] /\ UNCHANGED cache
  /\ readded' = readded \ {k}
  /\ UNCHANGED <<kernel, appdb, phase, steady, early, boundVars>>

\* The reconcile timer expires: reconcile() starts ...
TimerExpires ==
  /\ phase = "restored"
  /\ phase' = "reconciling"
  /\ early' = (dump # {})
  /\ UNCHANGED <<kernel, appdb, staged, cache, m_mac, dump, dirty, steady, readded, boundVars>>

\* ... writes the difference of every cached entry ...
Reconciled(c, s) ==
  CASE c.state = "SAME" -> s
    [] c.state \in {"STALE", "DELETE"} -> StageDel(s)
    [] c.state = "NEW" -> StageSet(s, c.fvs)
    [] OTHER -> s

ReconcileKey(k) ==
  /\ phase = "reconciling"
  /\ cache[k] # NotCached
  /\ staged' = [staged EXCEPT ![k] = Reconciled(cache[k], @)]
  /\ cache' = [cache EXCEPT ![k] = NotCached]
  /\ UNCHANGED <<kernel, appdb, phase, m_mac, dump, dirty, histVars, boundVars>>

\* ... and clears m_warmStartInProgress.
ReconcileEnds ==
  /\ phase = "reconciling"
  /\ \A k \in Key : cache[k] = NotCached
  /\ phase' = "normal"
  /\ UNCHANGED <<kernel, appdb, staged, cache, m_mac, dump, dirty, histVars, boundVars>>

Next ==
  \/ \E k \in Key :
       \/ \E e \in Entry \cup {NoRow} : KernelChange(k, e)
       \/ Pop(k) \/ AnnounceSet(k) \/ AnnounceDel(k) \/ ReconcileKey(k)
  \/ GoDown \/ ReadTablesToMap \/ TimerExpires \/ ReconcileEnds

Spec == Init /\ [][Next]_vars
-----------------------------------------------------------------------------
(* Properties                                                              *)

\* Whatever was announced during the restart, and however often, when
\* reconciliation is over APP_DB will hold what the kernel holds; except for an
\* entry that is written to the cache, deleted and comes back with the same
\* fields between the restart and the timer, which insertToMap marks SAME.
ConvergedUnlessReadded ==
  phase = "normal" => \A k \in Key \ (dirty \cup readded) : Effect(k) = kernel[k]

\* A warm restart is hitless: an entry that was in step with the kernel when
\* the daemon went down, and has not changed in the kernel since, keeps its row
\* all along, provided that the timer leaves time for the dump.
Hitless == ~early => \A k \in steady : appdb[k] = kernel[k]
=============================================================================
