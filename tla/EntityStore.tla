---------------------------- MODULE EntityStore -----------------------------
(***************************************************************************)
(* What an entity store promises to the systems of the game: an entity has *)
(* the components that were added to it, each with the value written last, *)
(* and nothing done to one entity shows in another.                        *)
(***************************************************************************)
EXTENDS Naturals, Functions

CONSTANTS Ids, Components, Values

VARIABLE store       \* entity id |-> (component |-> value), for live entities

Live == DOMAIN store

Without(f, x) == Restrict(f, DOMAIN f \ {x})
Put(f, x, v)  == [y \in DOMAIN f \cup {x} |-> IF y = x THEN v ELSE f[y]]

Init == store = [e \in {} |-> [c \in {} |-> 0]]

Create == \E e \in Ids \ Live : store' = Put(store, e, [c \in {} |-> 0])

Destroy == \E e \in Live : store' = Without(store, e)

(* Adding a component, or writing through the reference get returns.       *)
Write == \E e \in Live, c \in Components, v \in Values :
           store' = Put(store, e, Put(store[e], c, v))

Remove == \E e \in Live, c \in Components :
            /\ c \in DOMAIN store[e]
            /\ store' = Put(store, e, Without(store[e], c))

Next == Create \/ Destroy \/ Write \/ Remove

Spec == Init /\ [][Next]_store
=============================================================================
