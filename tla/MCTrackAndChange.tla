--------------------------- MODULE MCTrackAndChange ---------------------------
(* TrackAndChange for model checking. *)
EXTENDS TrackAndChange

(* Two children with one key, one child with none or both. *)
CommandLines ==
  {[no_childs |-> 2, burst_count |-> 2, keys |-> {"str"}],
   [no_childs |-> 1, burst_count |-> 2, keys |-> {}],
   [no_childs |-> 1, burst_count |-> 2, keys |-> AnyKey]}

(* Few values, so that they wrap; with three letters a value that is not the *)
(* newest shows in the next.                                                 *)
SmallWrap == [uint |-> 2, str |-> 3]
===============================================================================
