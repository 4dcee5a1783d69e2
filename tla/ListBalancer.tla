---------------------------- MODULE ListBalancer ----------------------------
(***************************************************************************)
(* threadsafe::list_balancer, the weighted pool: a value [list, map] where  *)
(* list holds the units and map, filled up to _map_size, an index into the *)
(* list for every point of preference.  Indices count from 0, as in C.     *)
(***************************************************************************)
EXTENDS Sequences, Integers, SequencesExt

new_pool == [list |-> <<>>, map |-> <<>>]

(* __add_unit: pref entries of the map name the new unit.                    *)
last_index_Next(pool) == Len(pool.list) + 1
last_index(pool) == Len(pool.list)

add_unit(pool, unit, pref) ==
  [list |-> Append(pool.list, unit),
   map  |-> pool.map \o [k \in 1..pref |-> last_index(pool)]]

(* __claear empties the list and leaves _map_size as it is.                  *)
clear(pool) == [pool EXCEPT !.list = <<>>]

is_empty(pool) == pool.list = <<>>

(* The indices that balanced_rand may use, and whether they are in the list. *)
Picks(pool) == ToSet(pool.map)
InList(pool, i) == i < Len(pool.list)
=============================================================================
