--------------------------- MODULE RouteRegister ---------------------------
(***************************************************************************)
(* What the way of a route from fpmsyncd to RouteOrch promises: for every  *)
(* prefix a register that shows what was asked for.  Requests may be       *)
(* skipped when newer ones are there, but what is shown was asked for, as  *)
(* a whole, and never goes back to an older request.                       *)
(***************************************************************************)
EXTENDS Naturals, Sequences

CONSTANTS Keys, Route, NoRoute

VARIABLES
    log,    \* key -> the requests so far; NoRoute asks for the removal
    at,     \* key -> the number of the request that is shown, 0: none
    shown   \* key -> the route that is shown

vars == <<log, at, shown>>

Init ==
    /\ log = [k \in Keys |-> <<>>]
    /\ at = [k \in Keys |-> 0]
    /\ shown = [k \in Keys |-> NoRoute]

Ask(k, r) ==
    /\ log' = [log EXCEPT ![k] = Append(@, r)]
    /\ UNCHANGED <<at, shown>>

Show(k, n) ==
    /\ n > at[k] /\ n <= Len(log[k])
    /\ at' = [at EXCEPT ![k] = n]
    /\ shown' = [shown EXCEPT ![k] = log[k][n]]
    /\ UNCHANGED log

Next ==
    \E k \in Keys : \/ \E r \in Route \cup {NoRoute} : Ask(k, r)
                    \/ \E n \in DOMAIN log[k] : Show(k, n)

Spec == Init /\ [][Next]_vars
=============================================================================
