----------------------------- MODULE SystemLag -----------------------------
(***************************************************************************)
(* The LAGs of a VOQ chassis.  Every line card runs an orchagent.  Its     *)
(* PortsOrch takes a chassis-wide id for each of its own LAGs from         *)
(* CHASSIS_APP_DB (orchagent/lagids.lua, one atomic script per call),      *)
(* creates the LAG in its ASIC, and publishes it in SYSTEM_LAG_TABLE; the  *)
(* other cards follow that table and create the same LAG with the same id  *)
(* in theirs.                                                              *)
(*                                                                         *)
(* A card handles one request at a time (doLagTask), but between its calls *)
(* to CHASSIS_APP_DB the other cards run.  A request that is refused stays *)
(* in m_toSync and is tried again.  Cards of a previous image mark the ids *)
(* they use in SYSTEM_LAG_ID_SET and do not know the free list.            *)
(*                                                                         *)
(* Left out: the branch of the script for a proposed id (addLag, its only  *)
(* caller, proposes none), the attributes of a LAG (mtu, tpid, learn mode, *)
(* status), and the notifications of a card's own rows, which doLagTask    *)
(* skips by their switch_id (a DEL finds no LAG of that name).             *)
(***************************************************************************)
EXTENDS Integers, Sequences, FiniteSets, SequencesExt, FiniteSetsExt, SaiHelper

CONSTANTS
    Card,       \* line cards
    Lag,        \* system LAG names
    Owner,      \* Lag -> the card whose LAG it is
    MaxId,      \* SYSTEM_LAG_ID_START..SYSTEM_LAG_ID_END is 1..MaxId
    OldLags,    \* LAGs of cards that run the previous image
    MaxChanges, \* bound: changes of the configuration and of the references
    MaxFailures \* bound: SAI calls that fail

Id == 1 .. MaxId
None == 0

ASSUME LagAssumption ==
    /\ Owner \in [Lag -> Card] /\ None \notin Lag
    /\ MaxId \in Nat \ {0} /\ {OldLags, MaxChanges, MaxFailures} \subseteq Nat

VARIABLES
    \* CHASSIS_APP_DB
    free,       \* SYSTEM_LAG_IDS_FREE_LIST
    idTable,    \* SYSTEM_LAG_ID_TABLE: lag -> id or None
    idSet,      \* SYSTEM_LAG_ID_SET
    rows,       \* SYSTEM_LAG_TABLE: lag -> its lag_id or None
    oldHeld,    \* the ids the cards of the previous image use
    \* a card
    lags,       \* m_portList and the ASIC: card -> lag -> id or None
    inUse,      \* card -> the LAGs that removeLag refuses to remove
    toSync,     \* m_toSync: card -> lag -> tasks
    events,     \* card -> notifications of SYSTEM_LAG_TABLE not yet read
    pc,         \* card -> what doLagTask is in the middle of
    wanted,     \* LAG_TABLE: the LAGs that are configured
    changes, failures,  \* for the bounds
    \* history
    full,       \* the script answered -1 last
    dropped,    \* ids taken off the free list while an old card used them
    orphaned,   \* lags whose DEL found an id but no LAG
    excused     \* <<card, lag>> that a failure or a late DEL left behind

chassisVars == <<free, idTable, idSet, rows, oldHeld, full, dropped>>
cardVars == <<lags, inUse, toSync, events, pc>>
history == <<orphaned, excused>>
bounds == <<wanted, changes, failures>>
vars == <<chassisVars, cardVars, history, bounds>>

Set(id) == [op |-> "SET", id |-> id]
Del == [op |-> "DEL", id |-> None]
Task == [op : {"SET", "DEL"}, id : Id \cup {None}]
Idle == [at |-> "idle", lag |-> None, id |-> None]
Steps == {"allocated", "created", "removed", "freed"}
Local(c, l) == Owner[l] = c

Init ==
    /\ free = [i \in Id |-> i]
    /\ idTable = [l \in Lag |-> None] /\ idSet = {}
    /\ rows = [l \in Lag |-> None] /\ oldHeld = {}
    /\ lags = [c \in Card |-> [l \in Lag |-> None]]
    /\ inUse = [c \in Card |-> {}]
    /\ toSync = [c \in Card |-> [l \in Lag |-> <<>>]]
    /\ events = [c \in Card |-> <<>>]
    /\ pc = [c \in Card |-> Idle]
    /\ wanted = {} /\ changes = 0 /\ failures = 0
    /\ full = FALSE /\ dropped = {} /\ orphaned = {} /\ excused = {}

(***************************************************************************)
(* orchagent/lagids.lua                                                    *)
(***************************************************************************)

\* The entries of the free list that the loop of "add" pops: up to the first
\* that is not in the set, or all.
Popped ==
    LET usable == {i \in DOMAIN free : free[i] \notin idSet}
    IN  IF usable = {} THEN Len(free) ELSE Min(usable)

\* "add": the id, or -1.  The LAG's own id when it has one.
lagIdAdd(l) ==
    IF idTable[l] # None THEN idTable[l]
    ELSE IF \E i \in DOMAIN free : free[i] \notin idSet THEN free[Popped]
    ELSE -1

\* Mutant: the id is read and not popped.
AddPeeks(l) ==
    LET id == lagIdAdd(l)
    IN  /\ full' = (id = -1)
        /\ idTable' = IF id = -1 THEN idTable ELSE [idTable EXCEPT ![l] = id]
        /\ idSet' = IF id = -1 THEN idSet ELSE idSet \cup {id}
        /\ UNCHANGED <<free, dropped>>

\* LREM: every entry of the list that is id goes.
lrem(list, id) ==
    IF id \in Range(list) THEN SelectSeq(list, LAMBDA i : i # id) ELSE list

lagIdAddEffect(l) ==
    LET id == lagIdAdd(l)
        gone == {free[i] : i \in 1 .. Popped} \ {id}
        rest == SubSeq(free, Popped + 1, Len(free))
    IN  IF idTable[l] # None
        THEN full' = FALSE /\ UNCHANGED <<free, idTable, idSet, dropped>>
        ELSE /\ full' = (id = -1)
             /\ dropped' = dropped \cup gone
             /\ free' = lrem(rest, id)
             /\ IF id = -1 THEN UNCHANGED <<idTable, idSet>>
                ELSE /\ idTable' = [idTable EXCEPT ![l] = id]
                     /\ idSet' = idSet \cup {id}

\* "del": 0 when the LAG has no id.
lagIdDel(l) == idTable[l]

\* Mutant: the id does not go back to the free list.
DelForgets(l) ==
    /\ idSet' = idSet \ {idTable[l]} /\ idTable' = [idTable EXCEPT ![l] = None]
    /\ UNCHANGED free

lagIdDelEffect(l) ==
    IF idTable[l] = None THEN UNCHANGED <<free, idTable, idSet>>
    ELSE /\ idSet' = idSet \ {idTable[l]}
         /\ idTable' = [idTable EXCEPT ![l] = None]
         /\ free' = IF idTable[l] \in Range(free) THEN free
                    ELSE Append(free, idTable[l])

\* A card of the previous image takes an id that is not in the set, or gives
\* one back: it writes the set only.
OldTake(id) ==
    /\ Cardinality(oldHeld) < OldLags /\ id \notin idSet
    /\ idSet' = idSet \cup {id} /\ oldHeld' = oldHeld \cup {id}
    /\ UNCHANGED <<free, idTable, rows, full, dropped, cardVars, history, bounds>>

OldGive(id) ==
    /\ id \in oldHeld /\ changes < MaxChanges
    /\ changes' = changes + 1
    /\ idSet' = idSet \ {id} /\ oldHeld' = oldHeld \ {id}
    /\ UNCHANGED <<free, idTable, rows, full, dropped, cardVars, history, wanted, failures>>

(***************************************************************************)
(* Requests                                                                *)
(***************************************************************************)

\* Mutant: a SET replaces the DEL that waits.
KeepLast(q, t) == <<t>>

\* ConsumerBase::addToSync: a DEL replaces what waits, a SET waits behind a
\* DEL and replaces a SET.
addToSync(q, t) ==
    IF t.op = "DEL" \/ q = <<>> \/ q[1].op = "SET" THEN <<t>> ELSE <<q[1], t>>

EraseSync(c, l, i) == toSync' = [toSync EXCEPT ![c][l] = RemoveAt(@, i)]

\* A LAG is configured, or no more: LAG_TABLE of its owner.
Configure(l) ==
    /\ l \notin wanted /\ changes < MaxChanges /\ pc[Owner[l]] = Idle
    /\ wanted' = wanted \cup {l}
    /\ toSync' = [toSync EXCEPT ![Owner[l]][l] = addToSync(@, Set(None))]
    /\ changes' = changes + 1
    /\ UNCHANGED <<chassisVars, lags, inUse, events, pc, history, failures>>

Unconfigure(l) ==
    /\ l \in wanted /\ changes < MaxChanges /\ pc[Owner[l]] = Idle
    /\ wanted' = wanted \ {l}
    /\ toSync' = [toSync EXCEPT ![Owner[l]][l] = addToSync(@, Del)]
    /\ changes' = changes + 1
    /\ UNCHANGED <<chassisVars, lags, inUse, events, pc, history, failures>>

\* SubscriberStateTable: a row that was set is read when its notification is,
\* and is skipped when it is gone.
Notified(c) ==
    /\ events[c] # <<>>
    /\ LET e == Head(events[c])
           t == IF e.op = "DEL" THEN Del ELSE Set(rows[e.lag])
       IN  toSync' = IF e.op = "SET" /\ rows[e.lag] = None THEN toSync
                     ELSE [toSync EXCEPT ![c][e.lag] = addToSync(@, t)]
    /\ events' = [events EXCEPT ![c] = Tail(@)]
    /\ pc[c] = Idle
    /\ UNCHANGED <<chassisVars, lags, inUse, pc, history, bounds>>

Notify(l, op) ==
    events' = [c \in Card |-> IF Local(c, l) THEN events[c]
                              ELSE Append(events[c], [op |-> op, lag |-> l])]

\* Members, VLANs, bridge ports and references of other orchs come and go.
Use(c, l) ==
    /\ pc[c] = Idle /\ lags[c][l] # None /\ l \notin inUse[c] /\ changes < MaxChanges
    /\ inUse' = [inUse EXCEPT ![c] = @ \cup {l}]
    /\ changes' = changes + 1
    /\ UNCHANGED <<chassisVars, lags, toSync, events, pc, history, wanted, failures>>

Unuse(c, l) ==
    /\ pc[c] = Idle /\ l \in inUse[c]
    /\ inUse' = [inUse EXCEPT ![c] = @ \ {l}]
    /\ UNCHANGED <<chassisVars, lags, toSync, events, pc, history, bounds>>

(***************************************************************************)
(* PortsOrch::doLagTask                                                    *)
(***************************************************************************)

\* The task doLagTask comes to: the first, or the one behind a DEL that
\* removeLag has just refused.
Due(c, l, i) ==
    /\ pc[c] = Idle /\ i \in DOMAIN toSync[c][l]
    /\ i = 2 => lags[c][l] # None /\ l \in inUse[c]

Outcome(status) ==
    /\ status # "success" => failures < MaxFailures
    /\ failures' = failures + (IF status = "success" THEN 0 ELSE 1)

\* SET of a LAG that is known: its attributes only.
setKnownLag(c, l, i) ==
    /\ Due(c, l, i) /\ toSync[c][l][i].op = "SET" /\ lags[c][l] # None
    /\ EraseSync(c, l, i)
    /\ excused' = IF i = 2 THEN excused \cup {<<c, l>>} ELSE excused
    /\ UNCHANGED <<chassisVars, lags, inUse, events, pc, orphaned, bounds>>

\* Mutant: an answer of -1 is taken for an id.
AllocateAny(c, l) ==
    /\ Due(c, l, 1) /\ toSync[c][l][1].op = "SET" /\ lags[c][l] = None /\ Local(c, l)
    /\ lagIdAddEffect(l)
    /\ pc' = [pc EXCEPT ![c] = [at |-> "allocated", lag |-> l, id |-> lagIdAdd(l)]]
    /\ UNCHANGED <<rows, oldHeld, lags, inUse, toSync, events, history, bounds>>

\* addLag of a local LAG: the id first.
allocateLagId(c, l) ==
    /\ Due(c, l, 1) /\ toSync[c][l][1].op = "SET" /\ lags[c][l] = None /\ Local(c, l)
    /\ lagIdAddEffect(l)
    /\ pc' = IF lagIdAdd(l) <= 0 THEN pc
             ELSE [pc EXCEPT ![c] = [at |-> "allocated", lag |-> l, id |-> lagIdAdd(l)]]
    /\ UNCHANGED <<rows, oldHeld, lags, inUse, toSync, events, history, bounds>>

\* addLag, up to m_portList: a LAG that has no room is tried again, one that
\* SAI rejects is given up.
createLag(c, l, id, status) ==
    LET handled == handleSaiCreateStatus(status)
        over == ~Local(c, l) \/ handled # "success"
    IN  /\ Outcome(status)
        /\ lags' = IF handled = "success" THEN [lags EXCEPT ![c][l] = id] ELSE lags
        /\ excused' = CASE handled = "success" -> excused \ {<<c, l>>}
                        [] handled = "failed" -> excused \cup {<<c, l>>}
                        [] OTHER -> excused
        /\ pc' = [pc EXCEPT ![c] =
                    IF over THEN Idle ELSE [at |-> "created", lag |-> l, id |-> id]]
        /\ IF parseHandleSaiStatusFailure(handled) \/ (over /\ handled = "success")
           THEN EraseSync(c, l, 1) ELSE UNCHANGED toSync
        /\ UNCHANGED <<chassisVars, inUse, events, orphaned, wanted, changes>>

createLocalLag(c, status) ==
    pc[c].at = "allocated" /\ createLag(c, pc[c].lag, pc[c].id, status)

createSystemLag(c, l, status) ==
    /\ Due(c, l, 1) /\ toSync[c][l][1].op = "SET" /\ lags[c][l] = None /\ ~Local(c, l)
    /\ createLag(c, l, toSync[c][l][1].id, status)

voqSyncAddLag(c) ==
    LET l == pc[c].lag
    IN  /\ pc[c].at = "created"
        /\ rows' = [rows EXCEPT ![l] = pc[c].id]
        /\ Notify(l, "SET")
        /\ EraseSync(c, l, 1)
        /\ pc' = [pc EXCEPT ![c] = Idle]
        /\ UNCHANGED <<free, idTable, idSet, oldHeld, full, dropped, lags, inUse, history, bounds>>

\* DEL of a LAG that is not known.
delUnknownLag(c, l) ==
    /\ Due(c, l, 1) /\ toSync[c][l][1].op = "DEL" /\ lags[c][l] = None
    /\ EraseSync(c, l, 1)
    /\ orphaned' = IF Local(c, l) /\ idTable[l] # None THEN orphaned \cup {l} ELSE orphaned
    /\ excused' = excused \ {<<c, l>>}
    /\ UNCHANGED <<chassisVars, lags, inUse, events, pc, bounds>>

\* Mutant: the id of a local LAG is given back before the ASIC's LAG is gone.
RemoveLate(c, l, status) ==
    /\ Due(c, l, 1) /\ toSync[c][l][1].op = "DEL"
    /\ lags[c][l] # None /\ l \notin inUse[c] /\ status = "success"
    /\ IF Local(c, l) /\ idTable[l] # None
       THEN lagIdDelEffect(l) /\ UNCHANGED <<lags, pc, toSync>>
       ELSE /\ lags' = [lags EXCEPT ![c][l] = None]
            /\ pc' = IF Local(c, l)
                     THEN [pc EXCEPT ![c] = [at |-> "freed", lag |-> l, id |-> None]] ELSE pc
            /\ IF Local(c, l) THEN UNCHANGED toSync ELSE EraseSync(c, l, 1)
            /\ UNCHANGED <<free, idTable, idSet>>
    /\ UNCHANGED <<rows, oldHeld, full, dropped, inUse, events, history, bounds>>

\* removeLag of a LAG nothing refers to, up to m_portList.  (A LAG that SAI
\* finds in use is tried again like one that removeLag does.)
removeLag(c, l, status) ==
    LET handled == handleSaiRemoveStatus(status)
    IN  /\ Due(c, l, 1) /\ toSync[c][l][1].op = "DEL"
        /\ lags[c][l] # None /\ l \notin inUse[c]
        /\ Outcome(status)
        /\ lags' = IF handled = "success" THEN [lags EXCEPT ![c][l] = None] ELSE lags
        /\ pc' = IF handled = "success" /\ Local(c, l)
                 THEN [pc EXCEPT ![c] = [at |-> "removed", lag |-> l, id |-> lags[c][l]]]
                 ELSE pc
        /\ IF parseHandleSaiStatusFailure(handled) \/ (handled = "success" /\ ~Local(c, l))
           THEN EraseSync(c, l, 1) ELSE UNCHANGED toSync
        /\ excused' = IF handled = "failed" THEN excused \cup {<<c, l>>} ELSE excused
        /\ UNCHANGED <<chassisVars, inUse, events, orphaned, wanted, changes>>

\* Mutant: removeLag ends without giving the id back.
FreeNothing(c) ==
    /\ pc[c].at = "removed"
    /\ pc' = [pc EXCEPT ![c].at = "freed"]
    /\ UNCHANGED <<chassisVars, lags, inUse, toSync, events, history, bounds>>

\* The id is given back; when it is not the LAG's the task is tried again.
freeLagId(c) ==
    LET l == pc[c].lag
    IN  /\ pc[c].at = "removed"
        /\ lagIdDelEffect(l)
        /\ pc' = [pc EXCEPT ![c] = IF lagIdDel(l) # pc[c].id THEN Idle
                                   ELSE [pc[c] EXCEPT !.at = "freed"]]
        /\ orphaned' = orphaned \ {l}
        /\ UNCHANGED <<rows, oldHeld, full, dropped, lags, inUse, toSync, events, excused, bounds>>

\* Mutant: the row stays.
KeepRow(c) ==
    /\ pc[c].at = "freed"
    /\ EraseSync(c, pc[c].lag, 1)
    /\ pc' = [pc EXCEPT ![c] = Idle]
    /\ UNCHANGED <<chassisVars, lags, inUse, events, history, bounds>>

voqSyncDelLag(c) ==
    LET l == pc[c].lag
    IN  /\ pc[c].at = "freed"
        /\ rows' = [rows EXCEPT ![l] = None]
        /\ Notify(l, "DEL")
        /\ EraseSync(c, l, 1)
        /\ pc' = [pc EXCEPT ![c] = Idle]
        /\ UNCHANGED <<free, idTable, idSet, oldHeld, full, dropped, lags, inUse, history, bounds>>

doLagTask(c) ==
    \/ \E l \in Lag :
        \/ \E i \in 1 .. 2 : setKnownLag(c, l, i)
        \/ allocateLagId(c, l)
        \/ \E s \in {"success", "full", "failed"} : createSystemLag(c, l, s)
        \/ \E s \in {"success", "failed"} : removeLag(c, l, s)
        \/ delUnknownLag(c, l)
    \/ \E s \in {"success", "full", "failed"} : createLocalLag(c, s)
    \/ voqSyncAddLag(c) \/ freeLagId(c) \/ voqSyncDelLag(c)

Next ==
    \/ \E l \in Lag : Configure(l) \/ Unconfigure(l)
    \/ \E id \in Id : OldTake(id) \/ OldGive(id)
    \/ \E c \in Card : Notified(c) \/ doLagTask(c)
    \/ \E c \in Card, l \in Lag : Use(c, l) \/ Unuse(c, l)

Spec == Init /\ [][Next]_vars

\* orchagent's select loop serves every notification and tries every task
\* again, and what refers to a LAG that is to go is removed in time.
Fairness ==
    /\ \A c \in Card : WF_vars(Notified(c)) /\ WF_vars(doLagTask(c))
    /\ \A c \in Card, l \in Lag : WF_vars(Unuse(c, l) /\ toSync[c][l] # <<>>)

FairSpec == Spec /\ Fairness

(***************************************************************************)
(* Properties                                                              *)
(***************************************************************************)

\* What the databases, the cards and the tasks may hold.
TypeOK ==
    /\ free \in Seq(Id) /\ idSet \subseteq Id /\ oldHeld \subseteq Id
    /\ {idTable, rows} \subseteq [Lag -> Id \cup {None}]
    /\ lags \in [Card -> [Lag -> Id \cup {None}]]
    /\ inUse \in [Card -> SUBSET Lag]
    /\ \A c \in Card, l \in Lag :
        toSync[c][l] \in Seq(Task) /\ Len(toSync[c][l]) <= 2
    /\ \A c \in Card : \A i \in DOMAIN events[c] :
        events[c][i] \in [op : {"SET", "DEL"}, lag : Lag]
    /\ pc \in [Card -> [at : Steps, lag : Lag, id : Id] \cup {Idle}]
    /\ wanted \subseteq Lag /\ full \in BOOLEAN /\ dropped \subseteq Id
    /\ orphaned \subseteq Lag /\ excused \subseteq Card \X Lag

\* The LAGs that exist on the card that owns them have different ids, which no
\* card of the previous image uses, though cards take and give back ids while
\* others are in the middle of creating or removing a LAG.
IdsUnique ==
    \A l \in Lag : LET id == lags[Owner[l]][l] IN
        id # None => /\ id \notin oldHeld
                     /\ \A k \in Lag \ {l} : lags[Owner[k]][k] # id

\* The free list, the table and the set of lagids.lua agree: a listed id is
\* nobody's of this image and is listed once, and the set has exactly the ids
\* that are taken.
FreeListSound ==
    LET taken == {idTable[l] : l \in Lag} \ {None}
    IN  /\ IsInjective(free)
        /\ Range(free) \cap taken = {}
        /\ idSet = taken \cup oldHeld /\ taken \cap oldHeld = {}

\* "return -1 if lag table full for add": an id that is neither listed nor
\* taken is one that was dropped from the list while an old card used it; so
\* without such cards -1 means that every id is taken.
FullMeansFull ==
    /\ Id \subseteq Range(free) \cup idSet \cup dropped
    /\ OldLags = 0 => dropped = {}

\* A row of SYSTEM_LAG_TABLE is published with the id its LAG has, from the
\* end of addLag to the end of removeLag.
RowsTruthful ==
    \A l \in Lag :
        LET card == Owner[l]
            busy == pc[card].lag = l
        IN  /\ rows[l] # None /\ ~busy => rows[l] = lags[card][l] /\ rows[l] = idTable[l]
            /\ lags[card][l] # None /\ ~busy => rows[l] = lags[card][l]

\* An id is kept only for a LAG that exists, is asked for or is being worked
\* on, or that was deleted or given up after its creation had failed.
NoIdKept ==
    \A l \in Lag :
        LET card == Owner[l]
        IN  idTable[l] # None =>
                \/ lags[card][l] # None \/ toSync[card][l] # <<>> \/ pc[card].lag = l
                \/ l \in orphaned \/ <<card, l>> \in excused

\* Every id is accounted for in CHASSIS_APP_DB: listed once, held for a LAG
\* that needs it, or used by a card of the previous image.
Consistent == TypeOK /\ FreeListSound /\ FullMeansFull /\ NoIdKept

Agree(c, l) ==
    IF Local(c, l) THEN (lags[c][l] # None) <=> (l \in wanted)
    ELSE lags[c][l] = rows[l]

\* A local LAG that gets no id.
Starved(c, l) == Local(c, l) /\ l \in wanted /\ full

\* In the end every card has its own LAGs as configured and the others' as
\* SYSTEM_LAG_TABLE has them, but for what SAI rejected, for a LAG that found
\* no id, and for a SET that overtook the DEL before it.
Converges ==
    <>[](\A c \in Card, l \in Lag :
            Agree(c, l) \/ Starved(c, l) \/ <<c, l>> \in excused)
=============================================================================
