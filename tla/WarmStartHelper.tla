-------------------------- MODULE WarmStartHelper ---------------------------
(***************************************************************************)
(* warmrestart/warmRestartHelper.cpp with its client fpmsyncd: when zebra  *)
(* connects and warm restart is enabled, the rows of the registered tables *)
(* are read back, the routes zebra sends are collected in a refresh map,   *)
(* and when a timer expires the two are compared and the differences are   *)
(* written.  zebra's routes change all the time; the connection may be     *)
(* lost and the daemon may die at any point, in the middle of reconcile()  *)
(* too.  The tables are ProducerStateTables (no ZMQ); the operations of    *)
(* one key reach redis together.                                           *)
(***************************************************************************)
EXTENDS Naturals, Sequences, FiniteSets, AppTable

CONSTANTS Table, Key,
          TableOf,     \* key -> the table fpmsyncd writes it to
          Token,       \* members of the comma separated lists
          Entry,       \* what fpmsyncd writes for a route of zebra
          MaxDrops,    \* bound on the connections lost
          MaxChanges   \* bound on the changes of zebra's routes

Value == {<<x>> : x \in Token} \cup (Token \X Token)
Row == [Field -> Value \cup {NoValue}]

ASSUME NoValueAssumption == NoValue = <<>>
ASSUME FieldAssumption == IsFiniteSet(Field)
ASSUME TableOfAssumption == TableOf \in [Key -> Table]
ASSUME EntryAssumption == Entry \subseteq Row \ {NoRow}
ASSUME BoundAssumption == MaxDrops \in Nat /\ MaxChanges \in Nat

\* A row of APP_DB: its table and its key.
Loc == Table \X Key

Refreshed == {[op |-> "none", fvs |-> NoRow], [op |-> "DEL", fvs |-> NoRow]}
               \cup [op : {"SET"}, fvs : Entry]
NotRefreshed == [op |-> "none", fvs |-> NoRow]

VARIABLES
  zebra,              \* the routes zebra wants
  appdb,              \* the rows of APP_DB
  staged,             \* operations orchagent has not popped
  phase,              \* "down", or m_state; "reconciling" within reconcile()
  restorationVector,  \* the rows read back
  refreshMap,         \* the last operation received for a key
  dump,               \* routes of zebra's initial dump still to come
  dirty,              \* keys whose last change is still to come
  missed,             \* keys withdrawn while nobody listened or reconciled
  steady,             \* routes in step with zebra when the connection was lost
  early,              \* has a timer expired before the dump was through?
  drops, changes

helperVars == <<phase, restorationVector, refreshMap>>
feedVars == <<dump, dirty, missed>>
histVars == <<steady, early>>
boundVars == <<drops, changes>>
vars == <<zebra, appdb, staged, helperVars, feedVars, histVars, boundVars>>

\* TypeOK: every variable has its type; m_state is INITIALIZED only inside
\* checkAndStart.
TypeOK ==
  /\ zebra \in [Key -> Entry \cup {NoRow}] /\ appdb \in [Loc -> Row]
  /\ staged \in [Loc -> [del : BOOLEAN, fvs : Row]]
  /\ phase \in {"down", "RESTORED", "reconciling", "RECONCILED", "WSDISABLED"}
  /\ restorationVector \in [Loc -> Row] /\ refreshMap \in [Loc -> Refreshed]
  /\ dump \subseteq Key /\ dirty \subseteq Key /\ missed \subseteq Key
  /\ steady \subseteq Key /\ early \in BOOLEAN
  /\ drops \in 0 .. MaxDrops /\ changes \in 0 .. MaxChanges

Home(k) == <<TableOf[k], k>>

\* fpmsyncd has been running for a while.
Init ==
  /\ zebra \in [Key -> Entry \cup {NoRow}]
  /\ appdb = [l \in Loc |-> IF l = Home(l[2]) THEN zebra[l[2]] ELSE NoRow]
  /\ staged = [l \in Loc |-> NoStage]
  /\ phase = "WSDISABLED"
  /\ restorationVector = [l \in Loc |-> NoRow]
  /\ refreshMap = [l \in Loc |-> NotRefreshed]
  /\ dump = {} /\ dirty = {} /\ missed = {} /\ steady = {} /\ early = FALSE
  /\ drops = 0 /\ changes = 0

Effect(l) == Popped(appdb[l], staged[l])
Listening == phase \in {"RESTORED", "RECONCILED", "WSDISABLED"}
-----------------------------------------------------------------------------
(* Comparison of rows                                                      *)

Occurrences(s, x) == Cardinality({i \in DOMAIN s : s[i] = x})

\* Mutant of CompareOneFV: the order of the members counts.
CompareOneFVOrdered(s1, s2) == s1 # s2

\* TRUE: the lists differ.  Both are sorted before they are compared.
CompareOneFV(s1, s2) ==
  Len(s1) # Len(s2) \/ \E x \in Token : Occurrences(s1, x) # Occurrences(s2, x)

Size(row) == Cardinality({f \in Field : row[f] # NoValue})

\* TRUE: the rows differ in their number of fields or in a field of the second.
CompareAllFV(v1, v2) ==
  \/ Size(v1) # Size(v2)
  \/ \E f \in Field : v2[f] # NoValue /\ (v1[f] = NoValue \/ CompareOneFV(v1[f], v2[f]))

\* Two rows with the same fields and, field by field, the same members.
Same(v1, v2) ==
  \A f \in Field : \A x \in Token : Occurrences(v1[f], x) = Occurrences(v2[f], x)
-----------------------------------------------------------------------------
(* zebra, orchagent and the connection                                     *)

ZebraChange(k, e) ==
  /\ changes < MaxChanges
  /\ e # zebra[k]
  /\ zebra' = [zebra EXCEPT ![k] = e]
  /\ changes' = changes + 1
  /\ dirty' = IF phase = "down" THEN dirty ELSE dirty \cup {k}
  /\ steady' = IF Same(e, zebra[k]) THEN steady ELSE steady \ {k}
  /\ UNCHANGED <<appdb, staged, helperVars, dump, missed, early, drops>>

Pop(l) ==
  /\ staged[l] # NoStage
  /\ appdb' = [appdb EXCEPT ![l] = Effect(l)]
  /\ staged' = [staged EXCEPT ![l] = NoStage]
  /\ UNCHANGED <<zebra, helperVars, feedVars, histVars, boundVars>>

\* FpmConnectionClosedException, or the daemon dies and loses what it has
\* not flushed.
ConnectionLost(lost) ==
  /\ phase # "down"
  /\ drops < MaxDrops
  /\ drops' = drops + 1
  /\ phase' = "down"
  /\ staged' = [l \in Loc |-> IF l \in lost THEN NoStage ELSE staged[l]]
  /\ dump' = {} /\ dirty' = {} /\ missed' = {}
  /\ steady' = {k \in Key : /\ zebra[k] # NoRow /\ Same(appdb[Home(k)], zebra[k])
                            /\ staged[Home(k)] = NoStage}
  /\ UNCHANGED <<zebra, appdb, restorationVector, refreshMap, early, changes>>
-----------------------------------------------------------------------------
(* checkAndStart and runRestoration                                        *)

\* The tables RouteSync registers with its helper.
Registered == {"ROUTE_TABLE", "SRV6_MY_SID_TABLE"}

\* Routes zebra withdrew before it connected, and does not mention any more.
Withdrawn == {k \in Key : zebra[k] = NoRow /\ Effect(Home(k)) # NoRow}

\* zebra sends all its routes on a new connection.
Connected ==
  /\ dump' = {k \in Key : zebra[k] # NoRow}
  /\ dirty' = {k \in Key : zebra[k] # NoRow}
  /\ early' = FALSE
  /\ refreshMap' = [l \in Loc |-> NotRefreshed]

\* Mutant of StateAfter: the state is left as checkAndStart set it.
StateAfterForgotten(rows) == IF \A l \in Loc : rows[l] = NoRow THEN "INITIALIZED" ELSE "RESTORED"

\* Without a row to restore there is nothing to reconcile.
StateAfter(rows) == IF \A l \in Loc : rows[l] = NoRow THEN "RECONCILED" ELSE "RESTORED"

StartWarm ==
  /\ phase = "down"
  /\ Connected
  /\ staged' = [l \in Loc |-> IF l[1] \in Registered THEN NoStage ELSE staged[l]]
  /\ restorationVector' = [l \in Loc |-> IF l[1] \in Registered THEN appdb[l] ELSE NoRow]
  /\ phase' = StateAfter(restorationVector')
  /\ missed' = {k \in Withdrawn : TableOf[k] \notin Registered}
  /\ UNCHANGED <<zebra, appdb, steady, boundVars>>

\* Warm restart is not enabled: nothing is cleared, nothing is compared.
StartCold ==
  /\ phase = "down"
  /\ Connected
  /\ phase' = "WSDISABLED"
  /\ restorationVector' = [l \in Loc |-> NoRow]
  /\ missed' = Withdrawn
  /\ UNCHANGED <<zebra, appdb, staged, steady, boundVars>>
-----------------------------------------------------------------------------
(* The routes zebra sends                                                  *)

\* m_enabled && m_state != RECONCILED
InProgress == phase = "RESTORED"

\* The refresh map an operation on k goes to, by the table name the caller
\* passes: label routes are passed on like routes.
Context(k) == <<IF TableOf[k] = "LABEL_ROUTE_TABLE" THEN "ROUTE_TABLE" ELSE TableOf[k], k>>

InsertRefreshMap(k, op, fvs) ==
  refreshMap' = [refreshMap EXCEPT ![Context(k)] = [op |-> op, fvs |-> fvs]]

Received(k) ==
  /\ dump' = dump \ {k}
  /\ dirty' = dirty \ {k}
  /\ missed' = missed \ {k}

\* RTM_NEWROUTE: outside a restart the row is deleted and set.
SetTableWithWarmRestart(k) ==
  /\ Listening
  /\ zebra[k] # NoRow
  /\ Received(k)
  /\ IF InProgress
     THEN InsertRefreshMap(k, "SET", zebra[k]) /\ UNCHANGED staged
     ELSE /\ staged' = [staged EXCEPT ![Home(k)] = StageSet(StageDel(@), zebra[k])]
          /\ UNCHANGED refreshMap
  /\ UNCHANGED <<zebra, appdb, phase, restorationVector, histVars, boundVars>>

\* RTM_DELROUTE
DelTableWithWarmRestart(k) ==
  /\ Listening
  /\ zebra[k] = NoRow
  /\ k \in dirty
  /\ Received(k)
  /\ IF InProgress
     THEN InsertRefreshMap(k, "DEL", NoRow) /\ UNCHANGED staged
     ELSE /\ staged' = [staged EXCEPT ![Home(k)] = StageDel(@)]
          /\ UNCHANGED refreshMap
  /\ UNCHANGED <<zebra, appdb, phase, restorationVector, histVars, boundVars>>
-----------------------------------------------------------------------------
(* reconcile                                                               *)

\* The warm-restart timer or the EOIU hold timer expires.
OnWarmStartEnd ==
  /\ InProgress
  /\ phase' = "reconciling"
  /\ early' = (dump # {})
  /\ UNCHANGED <<zebra, appdb, staged, restorationVector, refreshMap, feedVars, steady, boundVars>>

\* Mutant of ReconciledRow: a row nobody refreshed is kept.
StaleRowKept(s, row, r) ==
  IF r.op = "none" THEN s
  ELSE IF r.op = "DEL" THEN StageDel(s)
  ELSE IF CompareAllFV(row, r.fvs) THEN StageSet(StageDel(s), r.fvs)
  ELSE s

\* What is staged for a restored row.
ReconciledRow(s, row, r) ==
  IF r.op \in {"none", "DEL"} THEN StageDel(s)
  ELSE IF CompareAllFV(row, r.fvs) THEN StageSet(StageDel(s), r.fvs)
  ELSE s

ReconcileRestored(l) ==
  /\ phase = "reconciling"
  /\ restorationVector[l] # NoRow
  /\ staged' = [staged EXCEPT ![l] = ReconciledRow(@, restorationVector[l], refreshMap[l])]
  /\ restorationVector' = [restorationVector EXCEPT ![l] = NoRow]
  /\ refreshMap' = [refreshMap EXCEPT ![l] = NotRefreshed]
  /\ UNCHANGED <<zebra, appdb, phase, feedVars, histVars, boundVars>>

\* What is left in the refresh map of a table has no row.
ReconcileNew(l) ==
  /\ phase = "reconciling"
  /\ \A m \in Loc : m[1] = l[1] => restorationVector[m] = NoRow
  /\ refreshMap[l] # NotRefreshed
  /\ staged' = [staged EXCEPT ![l] = IF refreshMap[l].op = "DEL" THEN @
                                     ELSE StageSet(@, refreshMap[l].fvs)]
  /\ refreshMap' = [refreshMap EXCEPT ![l] = NotRefreshed]
  /\ UNCHANGED <<zebra, appdb, phase, restorationVector, feedVars, histVars, boundVars>>

ReconcileEnds ==
  /\ phase = "reconciling"
  /\ \A l \in Loc : restorationVector[l] = NoRow /\ refreshMap[l] = NotRefreshed
  /\ phase' = "RECONCILED"
  /\ UNCHANGED <<zebra, appdb, staged, restorationVector, refreshMap, feedVars, histVars,
                 boundVars>>

Next ==
  \/ \E k \in Key : \/ \E e \in Entry \cup {NoRow} : ZebraChange(k, e)
                    \/ SetTableWithWarmRestart(k) \/ DelTableWithWarmRestart(k)
  \/ \E l \in Loc : Pop(l) \/ ReconcileRestored(l) \/ ReconcileNew(l)
  \/ \E lost \in SUBSET Loc : ConnectionLost(lost)
  \/ StartWarm \/ StartCold \/ OnWarmStartEnd \/ ReconcileEnds

Spec == Init /\ [][Next]_vars
-----------------------------------------------------------------------------
(* Properties                                                              *)

\* Outside a restart every table holds what zebra wants and nothing else,
\* the order within a list aside, however often the restart was begun anew:
\* of restored and refreshed state "we will be honoring the refreshed one".
Reconciles ==
  phase \in {"RECONCILED", "WSDISABLED"} =>
    /\ \A k \in Key \ (dirty \cup missed) : Same(Effect(Home(k)), zebra[k])
    /\ \A l \in Loc : l # Home(l[2]) => Effect(l) = NoRow

\* A warm restart is hitless: a route that was in step with zebra when the
\* connection was lost and has not changed since, the order of its next hops
\* aside, keeps its row, and until reconcile() is over nothing is written for
\* it, provided that the timers leave time for the dump.
Hitless ==
  ~early => \A k \in steady :
    /\ Same(appdb[Home(k)], zebra[k])
    /\ phase \in {"RESTORED", "reconciling"} => staged[Home(k)] = NoStage
=============================================================================
