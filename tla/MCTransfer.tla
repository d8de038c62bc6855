----------------------------- MODULE MCTransfer -----------------------------
(* Transfer on a small instance: maps of three runs, one pending, one      *)
(* partial and one complete, in any order, of four pieces or of seven.     *)
EXTENDS Transfer

MCLengths == {<<1, 2, 1>>, <<3, 1, 3>>}
MCStates == {<<0, 1, 3>>, <<0, 3, 1>>, <<1, 0, 3>>, <<1, 3, 0>>, <<3, 0, 1>>, <<3, 1, 0>>}
MCMaps ==
  {[i \in 1 .. 3 |-> [state |-> s[i], length |-> l[i]]] : s \in MCStates, l \in MCLengths}
=============================================================================
