---------------------------- MODULE MCHashTable ----------------------------
(* A small table for TLC: two lists, three keys that collide in the first,
   one in the second. *)
EXTENDS HashTable

MCKey == 1 .. 6

(* Key 5 has a negative sum and a list all the same, key 6 has none. *)
MCCharSum == <<2, 3, 4, 6, -4, -3>>
=============================================================================
