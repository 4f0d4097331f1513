----------------------------- MODULE AunTables -----------------------------
(***************************************************************************)
(* The two fixed-size tables of timed stream entries in aun.c: the         *)
(* deferred streams of a receive block and the condemned streams of the    *)
(* engine.  Both are searched and filled the same way, so one set of       *)
(* operators stands for defer_find/defer_set and condemn_find/condemn_set. *)
(*                                                                         *)
(* A due time is kept as the time left: 0 is "expired".  An expired entry  *)
(* stays in its slot until a lookup of its stream clears it.               *)
(***************************************************************************)
EXTENDS Naturals, FiniteSetsExt

NoStream == << >>
Vacant   == [stream |-> NoStream, left |-> 0]

EmptyTable(slots) == [i \in 1 .. slots |-> Vacant]

Own(tbl, s) == {i \in DOMAIN tbl : tbl[i].stream = s}

\* The lookup stops at the first entry of the stream, live or not.
Live(tbl, s) == Own(tbl, s) # {} /\ tbl[Min(Own(tbl, s))].left > 0

\* The side effect of a lookup: an expired first entry is cleared.
AfterFind(tbl, s) ==
  IF Own(tbl, s) # {} /\ ~Live(tbl, s)
  THEN [tbl EXCEPT ![Min(Own(tbl, s))] = Vacant] ELSE tbl

\* The entry cleared when a listener takes a frame of the stream.
Lift(tbl, s) ==
  IF Own(tbl, s) # {} THEN [tbl EXCEPT ![Min(Own(tbl, s))] = Vacant] ELSE tbl

Free(tbl) == {i \in DOMAIN tbl : tbl[i].left = 0}

\* Mutant: one pass, so a free slot below the stream's own entry wins.
VictimFused(tbl, s) ==
  IF Own(tbl, s) \cup Free(tbl) # {}
  THEN Min(Own(tbl, s) \cup Free(tbl))
  ELSE Min({i \in DOMAIN tbl :
              \A j \in DOMAIN tbl : tbl[i].left <= tbl[j].left})

\* The slot written: the stream's own, else the first free or expired one,
\* else the first of those that expire soonest.
Victim(tbl, s) ==
  IF Own(tbl, s) # {} THEN Min(Own(tbl, s))
  ELSE IF Free(tbl) # {} THEN Min(Free(tbl))
  ELSE Min({i \in DOMAIN tbl :
              \A j \in DOMAIN tbl : tbl[i].left <= tbl[j].left})

Set(tbl, s, left) ==
  [tbl EXCEPT ![Victim(tbl, s)] = [stream |-> s, left |-> left]]

Age(tbl) ==
  [i \in DOMAIN tbl |->
     [tbl[i] EXCEPT !.left = IF @ = 0 THEN 0 ELSE @ - 1]]

NoDuplicates(tbl) ==
  \A i, j \in DOMAIN tbl :
     tbl[i].stream = tbl[j].stream /\ tbl[i].stream # NoStream => i = j
=============================================================================
