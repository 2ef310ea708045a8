------------------------------ MODULE OrderedMap ------------------------------
(***************************************************************************)
(* What a Map promises its user (and a Set, whose keys are its values): a  *)
(* list of entries in the order of insertion, in which a deleted entry     *)
(* leaves an empty place, and iterators that are positions in that list.   *)
(* Emptying the map empties every place, so that an iterator goes on with  *)
(* the first entry added afterwards.                                       *)
(***************************************************************************)
EXTENDS Naturals, Sequences, FiniteSetsExt

CONSTANTS Content, Value, Empty

VARIABLES
    list,  \* entries [key, value], or Empty
    iters, \* iterators: the place to look at next, and whether it has ended
    out    \* what the last operation returned, tagged with its name

Places(k) == {i \in DOMAIN list : list[i] # Empty /\ list[i].key = k}

\* What the map shows: the value of a key, if it has one, and the entries.
Lookup(k) == IF Places(k) = {} THEN Empty ELSE list[CHOOSE i \in Places(k) : TRUE].value

Live ==
    LET shown[n \in 0..Len(list)] ==
            IF n = 0 THEN <<>>
            ELSE IF list[n] # Empty THEN Append(shown[n - 1], list[n]) ELSE shown[n - 1]
    IN  shown[Len(list)]

AbstractInit == list = <<>> /\ iters = <<>> /\ out = <<"none", Empty>>

Set(k, v) ==
    /\ list' = IF Places(k) = {} THEN Append(list, [key |-> k, value |-> v])
               ELSE [i \in DOMAIN list |-> IF i \in Places(k) THEN [key |-> k, value |-> v]
                                                             ELSE list[i]]
    /\ out' = <<"none", Empty>>
    /\ UNCHANGED iters

Delete(k) ==
    /\ list' = [i \in DOMAIN list |-> IF i \in Places(k) THEN Empty ELSE list[i]]
    /\ out' = <<"delete", Places(k) # {}>>
    /\ UNCHANGED iters

Clear ==
    /\ list' = <<>>
    /\ iters' = [i \in DOMAIN iters |-> [iters[i] EXCEPT !.at = 1]]
    /\ out' = <<"none", Empty>>

NewIterator ==
    /\ iters' = Append(iters, [at |-> 1, ended |-> FALSE])
    /\ out' = <<"none", Empty>>
    /\ UNCHANGED list

\* The entries that iterator i has still before it.
Ahead(i) == {j \in DOMAIN list : ~iters[i].ended /\ j >= iters[i].at /\ list[j] # Empty}

Advance(i) ==
    /\ i \in DOMAIN iters
    /\ IF Ahead(i) = {}
       THEN out' = <<"next", Empty>> /\ iters' = [iters EXCEPT ![i] = [at |-> 1, ended |-> TRUE]]
       ELSE out' = <<"next", list[Min(Ahead(i))]>> /\ iters' = [iters EXCEPT ![i].at = Min(Ahead(i)) + 1]
    /\ UNCHANGED list

AbstractNext ==
    \/ \E k \in Content : Delete(k) \/ \E v \in Value : Set(k, v)
    \/ Clear
    \/ NewIterator
    \/ \E i \in DOMAIN iters : Advance(i)

OrderedMapSpec == AbstractInit /\ [][AbstractNext]_<<list, iters, out>>
=============================================================================
