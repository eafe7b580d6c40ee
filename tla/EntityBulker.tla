---------------------------- MODULE EntityBulker ----------------------------
(***************************************************************************)
(* The EntityBulker of orchagent/bulker.h as a value: creations, attribute *)
(* settings and removals of entries are collected, cancelled against each  *)
(* other and executed by flush(), removals first, then creations, then     *)
(* settings, in chunks.                                                    *)
(*                                                                         *)
(* The caller passes a pointer to a status with every call; here it is a   *)
(* reference, a value of the caller's choice, and the statuses are the     *)
(* component `status' of the bulker.                                       *)
(***************************************************************************)
LOCAL INSTANCE Naturals
LOCAL INSTANCE Sequences
LOCAL INSTANCE SequencesExt
LOCAL INSTANCE TLC

EmptyMap == [x \in {} |-> x]

NewBulker ==
    [creating |-> EmptyMap, setting |-> EmptyMap, removing |-> EmptyMap,
     create_order |-> <<>>, set_order |-> <<>>, remove_order |-> <<>>,
     status |-> EmptyMap]

Without(map, e) == [x \in DOMAIN map \ {e} |-> map[x]]

Mark(status, refs, s) == [r \in refs |-> s] @@ status

-----------------------------------------------------------------------------
(* The three requests.                                                     *)

\* A second creation of an entry is refused at once.
create_entry(b, e, attrs, ref) ==
    IF e \in DOMAIN b.creating
    THEN [b EXCEPT !.status = Mark(@, {ref}, "exists")]
    ELSE [b EXCEPT !.creating = (e :> [attrs |-> attrs, ref |-> ref]) @@ @,
                   !.create_order = Append(@, e),
                   !.status = Mark(@, {ref}, "not_executed")]

set_entry_attribute(b, e, attr, ref) ==
    LET old == IF e \in DOMAIN b.setting THEN b.setting[e] ELSE <<>>
    IN  [b EXCEPT !.setting = (e :> Append(old, [attrs |-> attr, ref |-> ref])) @@ @,
                  !.set_order = Append(@, e),
                  !.status = Mark(@, {ref}, "not_executed")]

\* A removal cancels the settings of its entry, and a creation if there is
\* one: then nothing is left to do, and both have succeeded.
remove_entry(b, e, ref) ==
    LET sets == IF e \in DOMAIN b.setting
                THEN {b.setting[e][i].ref : i \in DOMAIN b.setting[e]} ELSE {}
        c    == [b EXCEPT !.setting = Without(@, e),
                          !.status = Mark(@, sets, "success")]
    IN  IF e \in DOMAIN c.creating
        THEN [c EXCEPT !.creating = Without(@, e),
                       !.status = Mark(@, {c.creating[e].ref, ref}, "success")]
        ELSE [c EXCEPT !.removing = @ @@ (e :> ref),
                       !.remove_order = Append(@, e),
                       !.status = Mark(@, {ref}, "not_executed")]

bulk_entry_pending_removal(b, e) == e \in DOMAIN b.removing

bulk_entry_pending_removal_or_set(b, e) ==
    e \in DOMAIN b.removing \cup DOMAIN b.setting

-----------------------------------------------------------------------------
(* The table behind the bulk calls of SAI: entries with their attributes.  *)
(* `refuse' maps the references SAI will not execute to the status it      *)
(* answers.                                                                *)

\* What SAI answers to one element of a bulk call.
Answer(sai, c, refuse) ==
    IF c.ref \in DOMAIN refuse THEN refuse[c.ref]
    ELSE IF c.op = "create" /\ c.entry \in DOMAIN sai THEN "exists"
    ELSE IF c.op # "create" /\ c.entry \notin DOMAIN sai THEN "not_found"
    ELSE "success"

\* The table after one element of a bulk call was executed.
Execute(sai, c) ==
    CASE c.op = "create" -> (c.entry :> c.attrs) @@ sai
      [] c.op = "set"    -> (c.entry :> (c.attrs @@ sai[c.entry])) @@ sai
      [] c.op = "remove" -> Without(sai, c.entry)

\* One bulk call, with errors ignored: every element is tried and answered.
BulkCall(w, calls, refuse) ==
    FoldLeft(LAMBDA v, c :
                LET s == Answer(v.sai, c, refuse)
                IN  [sai |-> IF s = "success" THEN Execute(v.sai, c) ELSE v.sai,
                     status |-> Mark(v.status, {c.ref}, s)],
             w, calls)

-----------------------------------------------------------------------------
(* flush(): the requests of each kind in the order they came, in chunks of *)
(* max_bulk_size.  An order may name an entry that was cancelled since,    *)
(* and it is skipped.                                                      *)

Removals(b) ==
    LET live == SelectSeq(b.remove_order, LAMBDA e : e \in DOMAIN b.removing)
    IN  [i \in DOMAIN live |-> [op |-> "remove", entry |-> live[i],
                                attrs |-> EmptyMap, ref |-> b.removing[live[i]]]]

Creations(b) ==
    LET live == SelectSeq(b.create_order, LAMBDA e : e \in DOMAIN b.creating)
    IN  [i \in DOMAIN live |-> [op |-> "create", entry |-> live[i],
                                attrs |-> b.creating[live[i]].attrs,
                                ref |-> b.creating[live[i]].ref]]

\* All settings of an entry go when the entry comes up for the first time.
Settings(b) ==
    LET first(i) == \A j \in 1 .. (i - 1) : b.set_order[j] # b.set_order[i]
        live == SelectSeq([i \in DOMAIN b.set_order |->
                             [entry |-> b.set_order[i], first |-> first(i)]],
                          LAMBDA x : x.first /\ x.entry \in DOMAIN b.setting)
        of(e) == [i \in DOMAIN b.setting[e] |->
                    [op |-> "set", entry |-> e, attrs |-> b.setting[e][i].attrs,
                     ref |-> b.setting[e][i].ref]]
    IN  FlattenSeq([i \in DOMAIN live |-> of(live[i].entry)])

\* The requests of one kind: what was not executed yet is collected, and a
\* full chunk is sent.
Chunked(w, requests, refuse, max_bulk_size) ==
    LET collect(v, c) ==
            IF v.world.status[c.ref] # "not_executed" THEN v
            ELSE LET rs == Append(v.rs, c)
                 IN  IF Len(rs) >= max_bulk_size
                     THEN [rs |-> <<>>, world |-> BulkCall(v.world, rs, refuse)]
                     ELSE [v EXCEPT !.rs = rs]
        last == FoldLeft(collect, [rs |-> <<>>, world |-> w], requests)
    IN  BulkCall(last.world, last.rs, refuse)

\* The table and the bulker after flush().  An order is cleared together with
\* its requests, so not when all of them were cancelled.
flush(b, sai, refuse, max_bulk_size) ==
    LET w0 == [sai |-> sai, status |-> b.status]
        w1 == Chunked(w0, Removals(b), refuse, max_bulk_size)
        w2 == Chunked(w1, Creations(b), refuse, max_bulk_size)
        w3 == Chunked(w2, Settings(b), refuse, max_bulk_size)
        left(map, order) == IF map = EmptyMap THEN order ELSE <<>>
    IN  [sai |-> w3.sai,
         bulker |-> [NewBulker EXCEPT !.status = w3.status,
                                      !.create_order = left(b.creating, b.create_order),
                                      !.set_order = left(b.setting, b.set_order),
                                      !.remove_order = left(b.removing, b.remove_order)]]
=============================================================================
