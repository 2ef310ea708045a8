--------------------------- MODULE PromiseContract ---------------------------
(***************************************************************************)
(* What a promise promises, whatever its implementation: it is settled at  *)
(* most once, and a reaction attached to it (the chained promise of a      *)
(* then, catch or finally) is handed its outcome at most once, not before  *)
(* the promise is settled, and unchanged.                                  *)
(***************************************************************************)
EXTENDS Naturals

CONSTANTS
    Ids,        \* the promises
    None        \* "not yet"

VARIABLES
    outcome,    \* outcome[p]: None, or the state and value p is settled with
    source,     \* source[c]: the promise whose outcome c's reaction waits for
    delivered   \* delivered[c]: the outcome c's reaction was given

contractVars == <<outcome, source, delivered>>

ContractInit ==
    /\ outcome = [p \in Ids |-> None]
    /\ source = [p \in Ids |-> None]
    /\ delivered = [p \in Ids |-> None]

\* p is settled now or was settled before; a settled promise stays as it is.
SettledOnce(p) == outcome[p] # None => outcome'[p] = outcome[p]

\* c becomes a reaction of some promise, once.
AttachedOnce(c) == source[c] # None => source'[c] = source[c]

\* c's reaction is given the outcome of its source, once.
DeliveredOnce(c) ==
    \/ delivered'[c] = delivered[c]
    \/ /\ delivered[c] = None
       /\ source[c] # None
       /\ outcome[source[c]] # None
       /\ delivered'[c] = outcome[source[c]]

ContractNext == \A p \in Ids : SettledOnce(p) /\ AttachedOnce(p) /\ DeliveredOnce(p)

ContractSpec == ContractInit /\ [][ContractNext]_contractVars
=============================================================================
