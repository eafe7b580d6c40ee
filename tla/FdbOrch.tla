------------------------------ MODULE FdbOrch ------------------------------
(***************************************************************************)
(* FdbOrch and the ports of one VLAN in PortsOrch, against an ASIC that    *)
(* learns, moves and ages MAC addresses and tells so through a queue of    *)
(* notifications.  An entry has an origin: learnt, provisioned through     *)
(* FDB_TABLE, advertised by an MCLAG peer or by a remote VTEP (VXLAN).     *)
(*                                                                         *)
(* Handlers run one at a time in the main loop, the ASIC at any time.  A   *)
(* handler makes several calls that each change the cache, the ASIC and    *)
(* the databases: these operators take the state as a record and return    *)
(* the next one, Now and Become tie it to the variables.  A request that   *)
(* has to be retried is one that is made again.                            *)
(*                                                                         *)
(* Left out: MacMoveGuard, next-hop groups as a destination, the counters  *)
(* of ports other than the tunnel (nothing reads them), the cache by port  *)
(* (nothing reads it), and VLANs other than one, but that a port may be a  *)
(* member of others, which keeps its bridge port.                          *)
(***************************************************************************)
EXTENDS Integers, Sequences, FiniteSets, SequencesExt, FiniteSetsExt, SaiHelper

CONSTANTS
    Mac,
    Phy,        \* physical ports and LAGs
    Tunnel,     \* the port of the tunnel to a remote VTEP
    OtherVlans, \* the ports of Phy that are members of other VLANs too
    Mlag,       \* the ports of Phy that are MCLAG interfaces
    Requests,   \* what is asked for in APP_DB: [port, type, origin, dest]
    MaxEvents,  \* bound: notifications on the way
    MaxBridge,  \* bound: bridge ports created for a port
    MaxSaved,   \* bound: saved entries of a port
    MaxFull,    \* bound: creations for which the ASIC has no room
    MaxChanges, \* bound: requests, flushes and changes of a port
    MaxAsic,    \* bound: what the ASIC does by itself
    MaxSteps    \* bound: both together, a change counted twice

Port == Phy \cup {Tunnel}
NoPort == "none"
NoBp == <<"none", 0>>           \* SAI_NULL_OBJECT_ID
NoEntry == [origin |-> "none", bp |-> NoBp, sai |-> "none"]
Unknown == <<"UNKNOWN", NoPort>>
IfName(p) == <<"IFNAME", p>>    \* FdbDest and its value
Vtep == <<"VTEP", Tunnel>>

Types == {"static", "dynamic", "dynamic_local", "dynamic_control_learn"}
Origins == {"learn", "provisioned", "mclag", "vxlan"}
Dests == {Unknown, Vtep} \cup {IfName(p) : p \in Phy}
AnyMac == "any"

ASSUME PortsAssumption ==
    /\ Tunnel \notin Phy /\ OtherVlans \subseteq Phy /\ Mlag \subseteq Phy
    /\ NoPort \notin Port /\ AnyMac \notin Mac /\ IsFiniteSet(Mac)
\* Only VXLAN_FDB_TABLE has remote VTEPs.
ASSUME RequestsAssumption ==
    /\ Requests \subseteq [port : Port, type : Types, origin : Origins \ {"learn"}, dest : Dests]
    /\ \A r \in Requests : /\ r.dest = Vtep <=> r.port = Tunnel
                           /\ r.port = Tunnel => r.origin = "vxlan"
ASSUME BoundsAssumption ==
    {MaxEvents, MaxBridge, MaxSaved, MaxFull, MaxChanges, MaxAsic, MaxSteps} \subseteq Nat

VARIABLES
    m_entries,          \* mac -> entry or NoEntry
    saved_fdb_entries,  \* port -> the entries that wait for it
    bridge_port,        \* port -> <<port, number>> or NoBp
    members,            \* the ports in the VLAN
    up,                 \* the ports that are up
    vlan_fdb_count, tunnel_fdb_count, crm,  \* counters
    stateTable, mclagTable,     \* STATE_DB: mac -> port or NoPort
    asic,               \* mac -> [origin |-> "asic", bp, sai, allow] or NoEntry
    events,             \* notifications on the way
    full,               \* creations that will not fit
    changes, asicSteps, \* what was done so far, for the bounds
    asked,              \* history: mac -> what FDB_TABLE asks for
    excused             \* history, see Excuses

vars == <<m_entries, saved_fdb_entries, bridge_port, members, up, vlan_fdb_count,
          tunnel_fdb_count, crm, stateTable, mclagTable, asic, events, full, changes, asicSteps, asked, excused>>

\* What happened to a MAC that the properties have to allow for:
\*   strays   LEARNs of a MAC of the MCLAG peer on another port: the VLAN
\*            counter goes down although the entry stays;
\*   ghosts   flushed by the ASIC without being marked;
\*   torn     removed for a move to a remote VTEP that could not be created: the
\*            CRM counter still has it;
\*   raced    asked for or written to the ASIC, or a port changed or flushed,
\*            while a notification about it was on the way;
\*   reordered  static, and aged again while the notification of an earlier
\*            ageing, which thereby moves behind later ones, was on the way;
\*   dropped  saved, and not added when the port joined the VLAN;
\*   superseded  added when a port joined the VLAN, as an older request of
\*            FDB_TABLE had it that was saved for that port;
\*   late     saved as "dynamic_local", and added over the peer's entry when the
\*            port joined the VLAN: only doTask deletes the peer's row;
\*   movable  asked for over an entry of the MCLAG peer, whose leave to move in
\*            the ASIC is not taken back;
\*   retyped  aged and put back to the ASIC as static, but not in the cache, so
\*            a flush that the ASIC's entry outlives removes the cached one;
\*   stale    aged at the tunnel while its entry is at a bridge port that is gone:
\*            it is taken for one of the tunnel's.
\* Strays and torn MACs change a counter every time, so they are numbered.
Numbered == {"strays", "torn"}
Excuses == Numbered \cup {"ghosts", "raced", "reordered", "dropped", "superseded", "late",
                         "movable", "retyped", "stale"}

Init ==
    /\ m_entries = [m \in Mac |-> NoEntry]
    /\ saved_fdb_entries = [p \in Port |-> <<>>]
    /\ members = Phy /\ up = Phy
    /\ bridge_port = [p \in Port |-> IF p \in Phy THEN <<p, 1>> ELSE NoBp]
    /\ vlan_fdb_count = 0 /\ tunnel_fdb_count = 0 /\ crm = 0
    /\ stateTable = [m \in Mac |-> NoPort] /\ mclagTable = [m \in Mac |-> NoPort]
    /\ asic = [m \in Mac |-> NoEntry]
    /\ events = <<>> /\ full = MaxFull /\ changes = 0 /\ asicSteps = 0
    /\ asked = [m \in Mac |-> NoEntry]
    /\ excused = [x \in Excuses |-> {}]

Now == [ent |-> m_entries, saved |-> saved_fdb_entries, bp |-> bridge_port,
        members |-> members, vlan |-> vlan_fdb_count, tunnel |-> tunnel_fdb_count,
        crm |-> crm, state |-> stateTable, mclag |-> mclagTable, asic |-> asic,
        events |-> events, excused |-> excused]

Become(s) ==
    /\ m_entries' = s.ent /\ saved_fdb_entries' = s.saved /\ bridge_port' = s.bp
    /\ members' = s.members /\ vlan_fdb_count' = s.vlan /\ tunnel_fdb_count' = s.tunnel
    /\ crm' = s.crm /\ stateTable' = s.state /\ mclagTable' = s.mclag
    /\ asic' = s.asic /\ events' = s.events /\ excused' = s.excused

Excuse(s, x, M) == [s EXCEPT !.excused[x] = @ \cup M]
Count(s, x, m) == Excuse(s, x, {<<m, Cardinality(s.excused[x])>>})

OnTheWay(s) == {s.events[i].mac : i \in DOMAIN s.events}

\* A request for m that meets notifications about it, a flush or a change of a
\* port that meets notifications about MACs.
Races(s, m) == IF OnTheWay(s) \cap {m, AnyMac} # {} THEN Excuse(s, "raced", {m}) ELSE s
Crosses(s) == Excuse(s, "raced", OnTheWay(s) \cap Mac)

-----------------------------------------------------------------------------
(* The ASIC and its notifications                                          *)

\* LruDedup: a notification that is on the way already moves to the end.
Notify(s, e) == [s EXCEPT !.events = Append(RemoveFirst(@, e), e)]

Event(type, m, b) == [type |-> type, mac |-> m, bp |-> b]

\* create_fdb_entry: nothing for an entry that exists or a port that is gone.
Create(s, m, b, sai, allow) ==
    IF s.asic[m] # NoEntry \/ b \notin Range(s.bp) THEN s
    ELSE [s EXCEPT !.asic[m] = [origin |-> "asic", bp |-> b, sai |-> sai, allow |-> allow]]

SetAttributes(s, m, b, sai, allow) ==
    IF s.asic[m] = NoEntry THEN s
    ELSE [s EXCEPT !.asic[m] = [@ EXCEPT !.bp = b, !.sai = sai, !.allow = allow]]

RemoveEntry(s, m) == [s EXCEPT !.asic[m] = NoEntry]

At(e, b) == e # NoEntry /\ (b = NoBp \/ e.bp = b)

\* The dynamic entries at b, or all, leave the ASIC.
flush_fdb_entries(s, b) ==
    Notify([Crosses(s) EXCEPT !.asic = [m \in Mac |-> IF At(@[m], b) /\ @[m].sai = "dynamic"
                                                      THEN NoEntry ELSE @[m]]],
           Event("FLUSHED", AnyMac, b))

Flushed(s, t) == {m \in Mac : s.asic[m] # NoEntry /\ t.asic[m] = NoEntry}

-----------------------------------------------------------------------------
(* Flushes                                                                 *)

\* Mutant: the entries are not marked.
FlushUnmarked(s, b) == flush_fdb_entries(s, b)

\* The entries of the cache at b, or all, wait for the notification.
Marked(s, b) ==
    [s EXCEPT !.ent = [m \in Mac |-> IF At(@[m], b) THEN [@[m] EXCEPT !.flush = TRUE]
                                     ELSE @[m]]]

flushFDBEntries(s, b) ==
    LET t == flush_fdb_entries(s, b)
    IN  Excuse(Marked(t, b), "ghosts", {m \in Flushed(s, t) : ~At(s.ent[m], b)})

\* For STP: nothing is marked.
flushFdbByVlan(s) ==
    LET t == flush_fdb_entries(s, NoBp)
    IN  Excuse(t, "ghosts", {m \in Flushed(s, t) : s.ent[m] = NoEntry \/ ~s.ent[m].flush})

-----------------------------------------------------------------------------
(* Ports                                                                   *)

\* A bridge port with entries in the ASIC cannot be removed.
removeBridgePort(s, p) ==
    LET t == flushFDBEntries(s, s.bp[p])
    IN  IF s.bp[p] = NoBp THEN s
        ELSE IF \E m \in Mac : t.asic[m].bp = s.bp[p] THEN t
        ELSE [t EXCEPT !.bp[p] = NoBp]

\* Mutant: the tunnel goes though IMET routes still use it.
NotifyAnyway(s, p) == IF p = Tunnel /\ s.tunnel = 0 THEN removeBridgePort(s, Tunnel) ELSE s

\* The last entry left the tunnel, and no IMET route uses it: it is deleted.
notifyTunnelOrch(s, p) ==
    IF p = Tunnel /\ s.tunnel = 0 /\ Tunnel \notin s.members
    THEN removeBridgePort(s, Tunnel) ELSE s

\* d entries more at bridge port b, of which only the tunnel's are counted.
CountAt(s, b, d) == IF b[1] = Tunnel THEN [s EXCEPT !.tunnel = @ + d] ELSE s
CountVlan(s, d) == [s EXCEPT !.vlan = @ + d]

-----------------------------------------------------------------------------
(* The cache and STATE_DB                                                  *)

Local(origin) == origin \in {"learn", "provisioned"}

\* storeFdbEntryState for an entry learnt at b.
StoreLearnt(s, m, b) ==
    LET old == s.ent[m]
    IN  IF old.bp = b /\ old.origin # "mclag" THEN s
        ELSE [s EXCEPT !.ent[m] = [bp |-> b, type |-> "dynamic", origin |-> "learn",
                                   sai |-> "dynamic", flush |-> FALSE, dest |-> IfName(b[1])],
                       !.mclag[m] = IF old.origin = "mclag" THEN NoPort ELSE @,
                       !.state[m] = b[1],
                       !.crm = IF old = NoEntry THEN @ + 1 ELSE @]

\* storeFdbEntryState for an entry that goes.
StoreRemoved(s, m) ==
    [s EXCEPT !.ent[m] = NoEntry,
              !.mclag[m] = IF s.ent[m].origin = "mclag" THEN NoPort ELSE @,
              !.state[m] = IF Local(s.ent[m].origin) THEN NoPort ELSE @,
              !.crm = @ - 1]

clearFdbEntry(s, m) ==
    notifyTunnelOrch(CountAt(StoreRemoved(CountVlan(s, -1), m), s.ent[m].bp, -1),
                     s.ent[m].bp[1])

-----------------------------------------------------------------------------
(* Notifications of the ASIC                                               *)

\* Known to the peer at another port: "Continue to add (update/move) the MAC",
\* but the case ends after the counters.
LearnedElsewhere(s, m) ==
    IF s.ent[m].bp \notin Range(s.bp) THEN s
    ELSE Count(CountAt(CountVlan(s, -1), s.ent[m].bp, -1), "strays", m)

LearnedFromVtep(s, m, b) ==
    IF s.ent[m].bp \notin Range(s.bp) THEN s
    ELSE notifyTunnelOrch(StoreLearnt(CountAt(s, s.ent[m].bp, -1), m, b), s.ent[m].bp[1])

\* Mutant: a MAC that is known is counted again.
LearnedCounts(s, m, b) == StoreLearnt(CountVlan(s, 1), m, b)

Learned(s, m, b) ==
    LET e == s.ent[m]
    IN  CASE b[1] \notin up -> flushFDBEntries(s, b)
          [] b[1] \in up /\ e = NoEntry -> StoreLearnt(CountVlan(s, 1), m, b)
          [] b[1] \in up /\ e.origin = "mclag" /\ e.bp # b -> LearnedElsewhere(s, m)
          [] b[1] \in up /\ e.origin = "mclag" /\ e.bp = b ->
               StoreLearnt(SetAttributes(Races(s, m), m, b, "dynamic", s.asic[m] # NoEntry /\ s.asic[m].allow),
                           m, b)
          [] b[1] \in up /\ e.origin = "vxlan" -> LearnedFromVtep(s, m, b)
          [] OTHER -> s

\* An entry that must not age goes back to the ASIC.
Recreate(s, m, b, allow) == Create(Races(s, m), m, b, "static", allow)

Save(s, p, m, d) == [s EXCEPT !.saved[p] = Append(@, [mac |-> m, data |-> d])]

\* The MAC is a peer's, or it goes from the port of bridge port at.
AgedOut(s, m, b, at) ==
    LET e == s.ent[m]
    IN  CASE e.origin \in {"mclag", "vxlan"} -> Recreate(s, m, e.bp, TRUE)
          [] e.origin = "learn" /\ e.dest[1] = "IFNAME" /\ e.type = "dynamic_control_learn" ->
               Recreate([Excuse(s, "retyped", {m})
                             EXCEPT !.ent[m] = [@ EXCEPT !.type = "dynamic", !.origin = "vxlan"],
                                    !.state[m] = NoPort],
                        m, b, FALSE)
          [] OTHER -> notifyTunnelOrch(StoreRemoved(CountAt(CountVlan(s, -1), at, -1), m), at[1])

\* Mutant: a static MAC is forgotten.
AgedForgets(s, m, b, at) == AgedOut(s, m, b, at)

Data(e) == [type |-> e.type, origin |-> e.origin, dest |-> e.dest]

\* The port is that of the entry, or of the notification if that one is gone.
AgedAt(s, m, b, at) ==
    LET e == s.ent[m]
    IN  CASE e.type = "static" /\ at[1] \in s.members -> Recreate(s, m, b, FALSE)
          [] e.type = "static" /\ at[1] \notin s.members ->
               AgedOut(Save(s, at[1], m, [port |-> at[1], type |-> e.type, origin |-> e.origin,
                                          dest |-> e.dest]), m, b, at)
          [] OTHER -> AgedOut(s, m, b, at)

Aged(s, m, b) ==
    CASE s.ent[m] = NoEntry -> s
      [] s.ent[m] # NoEntry /\ s.ent[m].bp \in Range(s.bp) -> AgedAt(s, m, b, s.ent[m].bp)
      [] OTHER -> AgedAt(IF b[1] = Tunnel THEN Excuse(s, "stale", {m}) ELSE s, m, b, b)

\* Mutant: the old port still counts the MAC.
MovedUncounted(s, m, b, old) == StoreLearnt(s, m, b)

\* The MAC was known at another port, or maybe at the same.
MovedFrom(s, m, b, old) ==
    notifyTunnelOrch(
        StoreLearnt(CountAt(IF s.ent[m].origin = "mclag" /\ old # b
                            THEN SetAttributes(Races(s, m), m, b, "dynamic", FALSE) ELSE s, old, -1), m, b),
        old[1])

\* Mutant: a MAC that is known stays where it is.
MovedIgnored(s, m, b) == IF s.ent[m] = NoEntry THEN StoreLearnt(CountVlan(s, 1), m, b) ELSE s

Moved(s, m, b) ==
    CASE s.ent[m] = NoEntry -> StoreLearnt(CountVlan(s, 1), m, b)
      [] s.ent[m] # NoEntry /\ s.ent[m].bp \in Range(s.bp) -> MovedFrom(s, m, b, s.ent[m].bp)
      [] OTHER -> s

\* handleSyncdFlushNotif: of what is at b, or of all, the marked entries.
handleSyncdFlushNotif(s, b) ==
    FoldSet(LAMBDA m, a : clearFdbEntry(a, m), s,
            {m \in Mac : At(s.ent[m], b) /\ s.ent[m].sai = "dynamic" /\ s.ent[m].flush})

\* FdbOrch::update: but for a flush the bridge port has to be there.
Update(s, e) ==
    CASE e.type = "FLUSHED" -> handleSyncdFlushNotif(s, e.bp)
      [] e.type # "FLUSHED" /\ e.bp \notin Range(s.bp) -> s
      [] e.type = "LEARNED" /\ e.bp \in Range(s.bp) -> Learned(s, e.mac, e.bp)
      [] e.type = "AGED" /\ e.bp \in Range(s.bp) -> Aged(s, e.mac, e.bp)
      [] e.type = "MOVE" /\ e.bp \in Range(s.bp) -> Moved(s, e.mac, e.bp)

handleNotification ==
    /\ events # <<>>
    /\ Become(Update([Now EXCEPT !.events = Tail(@)], Head(events)))
    /\ UNCHANGED <<up, full, asked>>
-----------------------------------------------------------------------------
(* Requests of APP_DB                                                      *)

SaiType(d) ==
    CASE d.origin = "vxlan" -> "static"
      [] d.origin = "mclag" -> IF d.type = "dynamic_local" THEN "dynamic" ELSE "static"
      [] OTHER -> IF d.type = "dynamic" THEN "dynamic" ELSE "static"

AllowMacMove(d) == ~Local(d.origin) /\ d.type \in {"dynamic", "dynamic_control_learn"}

\* A "dynamic_local" MAC of the peer counts as learnt here.
Own(d) == d.origin = "mclag" /\ d.type = "dynamic_local"

StoredEntry(d, b) ==
    [bp |-> b, sai |-> SaiType(d), flush |-> FALSE, dest |-> d.dest,
     origin |-> IF Own(d) THEN "learn" ELSE d.origin,
     type |-> IF Own(d) THEN "dynamic" ELSE d.type]

\* Mutant: the row of a MAC that moved to a peer stays in STATE_DB.
StoreOnlySets(s, m, d, old) ==
    [s EXCEPT !.ent[m] = StoredEntry(d, s.bp[d.port]),
              !.state[m] = IF Local(d.origin) \/ Own(d) THEN d.port ELSE @,
              !.mclag[m] = IF d.origin = "mclag" /\ ~Own(d) THEN d.port ELSE @,
              !.crm = IF old = NoEntry THEN @ + 1 ELSE @]

\* The end of addFdbEntry: the cache, STATE_DB and the CRM counter.
StoreAdded(s, m, d, old) ==
    [s EXCEPT !.ent[m] = StoredEntry(d, s.bp[d.port]),
              !.state[m] = IF Local(d.origin) \/ Own(d) THEN d.port
                           ELSE IF Local(old.origin) THEN NoPort ELSE @,
              !.mclag[m] = IF d.origin = "mclag" /\ ~Own(d) THEN d.port
                           ELSE IF old.origin = "mclag" /\ d.origin # "mclag" THEN NoPort ELSE @,
              !.crm = IF old = NoEntry THEN @ + 1 ELSE @]

\* MAC-Update: the attributes of the entry are set.
UpdateMac(s, m, d, b, old) ==
    StoreAdded(
        CountAt(CountAt(
            SetAttributes(IF old.origin = "mclag" /\ ~AllowMacMove(d) THEN Excuse(s, "movable", {m}) ELSE s,
                m, b, SaiType(d),
                IF old.origin = "vxlan" /\ (d.origin # "vxlan" \/ (old.type = "dynamic" /\ d.type # "dynamic"))
                THEN FALSE ELSE AllowMacMove(d) \/ (s.asic[m] # NoEntry /\ s.asic[m].allow)),
            old.bp, -1), b, 1),
        m, d, old)

\* MAC-Create
CreateMac(s, m, d, old) ==
    StoreAdded(CountVlan(CountAt(Create(s, m, s.bp[d.port], SaiType(d), AllowMacMove(d)),
                                 s.bp[d.port], 1), 1), m, d, old)

\* From here to a remote VTEP, or between VTEPs: the old entry is removed first.
RemoveForMove(s, m, old) ==
    notifyTunnelOrch([CountAt(CountVlan(RemoveEntry(s, m), -1), old.bp, -1) EXCEPT !.ent[m] = NoEntry],
                     old.bp[1])

MovesToVtep(d, b, old) ==
    d.origin = "vxlan" /\ (old.origin = "learn" \/ (old.origin = "vxlan" /\ old.bp # b))

\* A request that another origin's entry withstands.
Ignored(d, b, old) ==
    /\ d.origin # old.origin
    /\ \/ old.origin = "provisioned" /\ old.type = "static"
       \/ old.origin = "vxlan" /\ old.type = "static" /\ d.type = "dynamic"
       \/ old.origin = "learn" /\ old.type = "dynamic" /\ old.bp = b
          /\ d.origin = "mclag" /\ d.type = "dynamic_local"

\* What addFdbEntry does and whether it is done; fits: has the ASIC room?
addFdbEntry(s, m, d, fits) ==
    LET b == s.bp[d.port]
        old == s.ent[m]
        moves == MovesToVtep(d, b, old)
    IN  IF b = NoBp \/ (d.dest = Vtep /\ Tunnel \notin s.members)
        THEN [s |-> Save(s, d.port, m, d), ok |-> TRUE]
        ELSE IF old # NoEntry /\ old.bp \notin Range(s.bp) THEN [s |-> s, ok |-> FALSE]
        ELSE IF old # NoEntry /\ ((Data(old) = Data(d) /\ old.bp = b) \/ Ignored(d, b, old))
        THEN [s |-> s, ok |-> TRUE]
        ELSE IF old.origin = "learn" /\ d.origin = "vxlan" /\ old.dest = d.dest
        THEN [s |-> [s EXCEPT !.ent[m] = [@ EXCEPT !.type = "dynamic_control_learn"]], ok |-> TRUE]
        ELSE IF old # NoEntry /\ ~moves THEN [s |-> UpdateMac(s, m, d, b, old), ok |-> TRUE]
        ELSE IF ~fits
        THEN [s |-> IF moves THEN Count(RemoveForMove(s, m, old), "torn", m) ELSE s,
              ok |-> parseHandleSaiStatusFailure(handleSaiCreateStatus("full"))]
        ELSE [s |-> CreateMac(IF moves THEN RemoveForMove(s, m, old) ELSE s, m, d, old), ok |-> TRUE]

\* Of the saved entries of port p the first for m and origin is dropped.
IsSaved(x, m, origin) == x.mac = m /\ x.data.origin = origin

deleteFdbEntryFromSavedFDB(s, m, origin, p) ==
    LET i == SelectInSeq(s.saved[p], LAMBDA x : IsSaved(x, m, origin))
    IN  IF i = 0 THEN s ELSE [s EXCEPT !.saved[p] = RemoveAt(@, i)]

\* The map of the ports is not ordered: any port with such an entry may be first.
SavedAt(s, m, origin) ==
    LET P == {p \in Port : \E i \in DOMAIN s.saved[p] : IsSaved(s.saved[p][i], m, origin)}
    IN  IF P = {} THEN Port ELSE P

\* The entry leaves the ASIC and the cache.
RemoveMac(s, m, e) ==
    notifyTunnelOrch(
        [CountAt(CountVlan(RemoveEntry(s, m), -1), e.bp, -1)
             EXCEPT !.ent[m] = NoEntry, !.crm = @ - 1,
                    !.state[m] = IF Local(e.origin) THEN NoPort ELSE @],
        e.bp[1])

removeFdbEntry(s, m, origin, p) ==
    LET e == s.ent[m]
    IN  IF e = NoEntry THEN [s |-> deleteFdbEntryFromSavedFDB(s, m, origin, p), ok |-> TRUE]
        ELSE IF e.bp \notin Range(s.bp)
        THEN [s |-> IF e.flush THEN clearFdbEntry(s, m) ELSE s, ok |-> e.flush]
        ELSE IF e.origin = origin
                \/ (origin = "mclag" /\ e.origin = "learn" /\ e.bp[1] \in Mlag \ up)
        THEN [s |-> RemoveMac(s, m, e), ok |-> TRUE]
        ELSE IF origin = "vxlan" /\ e.origin = "learn" /\ e.type = "dynamic_control_learn"
                /\ e.dest[1] = "IFNAME"
        THEN [s |-> [s EXCEPT !.ent[m] = [@ EXCEPT !.type = "dynamic"]], ok |-> TRUE]
        ELSE [s |-> deleteFdbEntryFromSavedFDB(s, m, origin, p), ok |-> TRUE]

\* FDB_TABLE asks for d, or for nothing; a request to be retried is not made yet.
Asks(m, origin, d) ==
    asked' = IF origin = "provisioned" THEN [asked EXCEPT ![m] = d] ELSE asked

\* doTask of a SET
SetFdb(m, d, fits) ==
    /\ Len(saved_fdb_entries[d.port]) < MaxSaved
    /\ fits \/ full > 0
    /\ full' = IF fits THEN full ELSE full - 1
    /\ LET r == addFdbEntry(Races(Now, m), m, d, fits)
       IN  /\ Become(IF r.ok /\ Own(d)
                     THEN [r.s EXCEPT !.mclag[m] = NoPort] ELSE r.s)
           /\ Asks(m, d.origin, IF r.ok THEN d ELSE NoEntry)
    /\ UNCHANGED up

\* doTask of a DEL
DelFdb(m, origin, p) ==
    /\ p \in SavedAt(Now, m, origin)
    /\ LET r == removeFdbEntry(Races(Now, m), m, origin, p)
       IN  Become(IF r.ok /\ origin = "mclag" THEN [r.s EXCEPT !.mclag[m] = NoPort] ELSE r.s)
    /\ Asks(m, origin, NoEntry)
    /\ UNCHANGED <<up, full>>

-----------------------------------------------------------------------------
(* VLAN membership, port state and flush requests                          *)

\* Not what FDB_TABLE asks for now.
Outdated(x) == x.data.origin = "provisioned" /\ x.data # asked[x.mac]

AddOneSaved(s, x, r) ==
    IF Outdated(x) THEN Excuse(r.s, "superseded", {x.mac})
    ELSE IF ~r.ok THEN Excuse(r.s, "dropped", {x.mac})
    ELSE IF x.data.type = "dynamic_local" /\ s.ent[x.mac].origin = "mclag"
    THEN Excuse(r.s, "late", {x.mac})
    ELSE r.s

\* updateVlanMember of a port that joins: its saved entries are tried.
AddSaved(s, p) ==
    FoldLeft(LAMBDA a, x : AddOneSaved(a, x, addFdbEntry(Races(a, x.mac), x.mac, x.data, TRUE)),
             [s EXCEPT !.saved[p] = <<>>], s.saved[p])

\* A bridge port nothing refers to, so as good as a new one.
Fresh(b) ==
    /\ \A m \in Mac : m_entries[m].bp # b /\ asic[m].bp # b
    /\ \A i \in DOMAIN events : events[i].bp # b

addBridgePort(p) ==
    IF bridge_port[p] # NoBp THEN {bridge_port[p]}
    ELSE LET N == {n \in 1 .. MaxBridge : Fresh(<<p, n>>)}
         IN  {<<p, n>> : n \in {i \in N : \A j \in N : i <= j}}

\* doVlanMemberTask of a SET, for a tunnel the first IMET route.
AddVlanMember(p) ==
    /\ p \notin members
    /\ \E b \in addBridgePort(p) :
         Become(AddSaved([Crosses(Now) EXCEPT !.bp[p] = b, !.members = @ \cup {p}], p))
    /\ UNCHANGED <<up, full, asked>>

LeavesVlan(s, p) == flushFDBEntries([s EXCEPT !.members = @ \ {p}], s.bp[p])

\* doVlanMemberTask of a DEL, for a tunnel the last IMET route.
RemoveVlanMember(p) ==
    /\ p \in members
    /\ Become(IF p \in OtherVlans \/ (p = Tunnel /\ tunnel_fdb_count # 0) THEN LeavesVlan(Now, p)
              ELSE removeBridgePort(LeavesVlan(Now, p), p))
    /\ UNCHANGED <<up, full, asked>>

\* updatePortOperState
PortDown(p) ==
    /\ p \in up
    /\ up' = up \ {p}
    /\ Become(IF p \in Mlag \/ bridge_port[p] = NoBp THEN Now ELSE flushFDBEntries(Now, bridge_port[p]))
    /\ UNCHANGED <<full, asked>>

PortUp(p) ==
    /\ p \in Phy \ up
    /\ up' = up \cup {p}
    /\ UNCHANGED <<m_entries, saved_fdb_entries, bridge_port, members, vlan_fdb_count,
                   tunnel_fdb_count, crm, stateTable, mclagTable, asic, events, full, asked, excused>>

\* FLUSHFDBREQUEST for a port or for all.
FlushRequest(b) ==
    /\ Become(flushFDBEntries(Now, b))
    /\ UNCHANGED <<up, full, asked>>

StpFlush ==
    /\ Become(flushFdbByVlan(Now))
    /\ UNCHANGED <<up, full, asked>>

-----------------------------------------------------------------------------
(* The ASIC by itself                                                      *)

Learns(m, p) ==
    /\ asic[m] = NoEntry
    /\ p \in members \cap up
    /\ Become(Notify(Create(Now, m, bridge_port[p], "dynamic", FALSE),
                     Event("LEARNED", m, bridge_port[p])))
    /\ UNCHANGED <<up, full, asked>>

Moves(m, p) ==
    /\ asic[m] # NoEntry /\ asic[m].bp # bridge_port[p]
    /\ asic[m].sai = "dynamic" \/ asic[m].allow
    /\ p \in members \cap up
    /\ Become(Notify(SetAttributes(Now, m, bridge_port[p], "dynamic", FALSE),
                     Event("MOVE", m, bridge_port[p])))
    /\ UNCHANGED <<up, full, asked>>

\* An ageing of a static MAC that is on the way already.
Reorders(s, m, e) ==
    IF s.ent[m] # NoEntry /\ s.ent[m].type = "static" /\ e \in Range(s.events)
    THEN Excuse(s, "reordered", {m}) ELSE s

Ages(m) ==
    /\ asic[m] # NoEntry
    /\ LET e == Event("AGED", m, asic[m].bp)
       IN  Become(Notify(RemoveEntry(Reorders(Now, m, e), m), e))
    /\ UNCHANGED <<up, full, asked>>

\* What sends a notification, while there is room for it.
AsicStep ==
    \/ \E m \in Mac : Ages(m)
    \/ \E m \in Mac, p \in Phy : Learns(m, p) \/ Moves(m, p)

NotifyingChange ==
    \/ \E p \in Port : RemoveVlanMember(p)
    \/ \E p \in Phy : PortDown(p)
    \/ \E b \in Range(bridge_port) : FlushRequest(b)
    \/ FlushRequest(NoBp)
    \/ StpFlush

Change ==
    \/ \E p \in Phy : PortUp(p)
    \/ \E p \in Port : AddVlanMember(p)
    \/ \E m \in Mac, d \in Requests, fits \in BOOLEAN : SetFdb(m, d, fits)
    \/ \E m \in Mac, origin \in {"provisioned", "mclag", "vxlan"}, p \in Port : DelFdb(m, origin, p)

Next ==
    \/ /\ asicSteps < MaxAsic /\ 2 * changes + asicSteps + 1 <= MaxSteps /\ Len(events) < MaxEvents
       /\ AsicStep
       /\ asicSteps' = asicSteps + 1 /\ UNCHANGED changes
    \/ /\ changes < MaxChanges /\ 2 * (changes + 1) + asicSteps <= MaxSteps
       /\ (Len(events) < MaxEvents /\ NotifyingChange) \/ Change
       /\ changes' = changes + 1 /\ UNCHANGED asicSteps
    \/ handleNotification /\ UNCHANGED <<changes, asicSteps>>

Spec == Init /\ [][Next]_vars

-----------------------------------------------------------------------------
(* Properties                                                              *)

Entries == {m \in Mac : m_entries[m] # NoEntry}
Excused(xs) ==
    UNION {IF x \in Numbered THEN {y[1] : y \in excused[x]} ELSE excused[x] : x \in xs}

\* The type of the state; a member of the VLAN has a bridge port.
TypeOK ==
    /\ \A m \in Mac : /\ m_entries[m].origin \in {"none", "learn", "provisioned", "mclag", "vxlan"}
                      /\ m_entries[m].sai \in {"none", "dynamic", "static"}
                      /\ asic[m].origin \in {"none", "asic"}
                      /\ {stateTable[m], mclagTable[m]} \subseteq Port \cup {NoPort}
    /\ \A p \in Port : bridge_port[p] = NoBp \/ bridge_port[p][1] = p
    /\ members \subseteq {p \in Port : bridge_port[p] # NoBp} /\ up \subseteq Phy
    /\ {vlan_fdb_count, tunnel_fdb_count, crm} \subseteq Int
    /\ \A i \in DOMAIN events : events[i].type \in {"LEARNED", "MOVE"} => events[i].bp[1] \in Phy

\* The counter of the VLAN, which keeps removeVlan from removing it, is the
\* number of its entries, less the LEARNs counted down by mistake.
VlanCountExact ==
    vlan_fdb_count = Cardinality(Entries) - Cardinality(excused["strays"])

\* The tunnel is deleted when its counter says that no entry uses it: so it
\* counts exactly, and what points at the VTEP points at a bridge port that is there.
TunnelCountExact ==
    excused["stale"] = {} =>
    /\ tunnel_fdb_count = Cardinality({m \in Entries : m_entries[m].bp[1] = Tunnel})
    /\ \A m \in Entries : m_entries[m].bp[1] = Tunnel => m_entries[m].bp = bridge_port[Tunnel]

\* STATE_DB has the local entries at their ports, and no others; the rows of the
\* peer's are the peer's; the CRM counter counts the entries.
StateDbExact ==
    /\ \A m \in Mac \ Excused({"torn"}) :
         stateTable[m] = IF Local(m_entries[m].origin) THEN m_entries[m].bp[1] ELSE NoPort
    /\ \A m \in Mac \ excused["late"] : mclagTable[m] # NoPort => m_entries[m].origin = "mclag"
    /\ crm = Cardinality(Entries) + Cardinality(excused["torn"])

\* What FdbOrch derives from its cache (the counters of VLAN and tunnel, STATE_DB
\* and CRM) says what the cache says.
Consistent == TypeOK /\ VlanCountExact /\ TunnelCountExact /\ StateDbExact

\* Nothing stays in the cache that left the ASIC, but for flushes that found
\* the entry unmarked or not yet there.
NoGhosts ==
    \A m \in Entries \ Excused({"ghosts", "raced", "reordered", "retyped"}) :
        asic[m] = NoEntry => \E i \in DOMAIN events : events[i].mac \in {m, AnyMac}

\* Cache and ASIC agree on every MAC whose notifications did not cross a
\* request, a flush or a change of a port: at any time there are no ghosts, and
\* when all notifications are handled both have the same entries.
Agreement ==
    /\ NoGhosts
    /\ events = <<>> =>
        \A m \in Mac \ Excused({"ghosts", "raced", "reordered", "retyped"}) :
            /\ m_entries[m] = NoEntry <=> asic[m] = NoEntry
            /\ asic[m] # NoEntry => asic[m].bp = m_entries[m].bp /\ asic[m].sai = m_entries[m].sai

\* What FDB_TABLE asks for is in the cache, or saved for its port.
Kept(m) ==
    \/ /\ m_entries[m] # NoEntry /\ Data(m_entries[m]) = Data(asked[m])
       /\ m_entries[m].bp = bridge_port[asked[m].port]
    \/ \E i \in DOMAIN saved_fdb_entries[asked[m].port] :
          saved_fdb_entries[asked[m].port][i] = [mac |-> m, data |-> asked[m]]

StaticAsked == {m \in Mac : asked[m].origin = "provisioned" /\ asked[m].type = "static"}

\* A static MAC outlives flushes, ageing, requests of other origins and its
\* port's leaving the VLAN, and stays where it was asked for; it is lost to a
\* notification that was on the way when it was asked for, to a move that the
\* MCLAG peer's entry allowed, to a DEL of another origin when it is a ghost, to
\* an older request that was saved for another port, or when updateVlanMember
\* drops it.
StaticSurvives ==
    \A m \in StaticAsked \ Excused({"ghosts", "raced", "reordered", "retyped", "dropped",
                                    "superseded", "movable"}) : Kept(m)
=============================================================================
