------------------------------- MODULE MemMap -------------------------------
(***************************************************************************)
(* bhyve/mem.c: which handler serves an address.  The state is a record m  *)
(*   tree  the ranges of mmio_rb_root.  Nothing is ever registered in      *)
(*         mmio_rb_fallback                                                *)
(*   hint  mmio_hint[0], the range found by the last lookup, or NoRange    *)
(*   ok    no assertion has failed                                         *)
(* A range has the name of the device that registered it, the index of its *)
(* BAR (arg2 of the handler) and the extent base .. end.                   *)
(***************************************************************************)
EXTENDS Integers

NoRange == [name |-> "none", bar |-> "none", base |-> 1, end |-> 0]

Covers(r, a)  == a \in r.base .. r.end
Overlap(r, s) == r.base <= s.end /\ s.base <= r.end

(* mmio_rb_lookup: at most one range                                       *)
Found(m, a) == {r \in m.tree : Covers(r, a)}

(* The range access_memory takes: the hint, if it covers the address       *)
Reached(m, a) ==
  IF Covers(m.hint, a) THEN m.hint
  ELSE IF Found(m, a) = {} THEN NoRange
  ELSE CHOOSE r \in Found(m, a) : TRUE

access_memory(m, a) ==
  IF Reached(m, a) = NoRange THEN m ELSE [m EXCEPT !.hint = Reached(m, a)]

(* register_mem.  A base that is covered already is no error, and nothing  *)
(* is registered.  An overlap found by RB_INSERT is: the caller asserts.   *)
register_mem(m, r) ==
  IF Found(m, r.base) # {} THEN m
  ELSE IF \E s \in m.tree : Overlap(r, s) THEN [m EXCEPT !.ok = FALSE]
  ELSE [m EXCEPT !.tree = @ \cup {r}]

(* Mutant of unregister_mem: the cache is not flushed.                     *)
unregister_mem_hint(m, r) == [m EXCEPT !.tree = @ \ {r}]

(* unregister_mem asserts that the range found at the base is this one, by *)
(* name and extent; its caller, that one is found.                         *)
unregister_mem(m, r) ==
  LET same == {s \in Found(m, r.base) :
                 s.name = r.name /\ s.base = r.base /\ s.end = r.end}
  IN  IF same = {} THEN [m EXCEPT !.ok = FALSE]
      ELSE [m EXCEPT !.tree = @ \ same,
                     !.hint = IF @ \in same THEN NoRange ELSE @]
=============================================================================
