---------------------------- MODULE RemoteCalls ----------------------------
(***************************************************************************)
(* What a client of a remote file promises the program above it: calls go  *)
(* out one at a time, each is run at most once and in order, and a call    *)
(* that is reported done has been run.  A call that is reported failed may *)
(* still be run, before any later one.  No messages, retries or clocks:    *)
(* NetTnfs implements this over datagrams that are lost and delayed.       *)
(***************************************************************************)
EXTENDS Naturals, Sequences

CONSTANT MaxCalls

VARIABLES
  issued,   \* calls issued
  ran,      \* calls run, in order; 0 is a farewell nobody waits for
  outcome   \* what the program has been told about each call

vars == <<issued, ran, outcome>>

Farewell == 0

RanAlready(c) == \E i \in 1 .. Len(ran) : ran[i] = c

Init ==
  /\ issued = 1 /\ ran = << >>
  /\ outcome = [c \in 1 .. MaxCalls |-> "open"]

Issue ==
  /\ outcome[issued] # "open" /\ issued < MaxCalls
  /\ issued' = issued + 1
  /\ UNCHANGED <<ran, outcome>>

\* The far end runs a call: never one that is older than the last it ran.
Run(c) ==
  /\ \A i \in 1 .. Len(ran) : ran[i] # Farewell /\ ran[i] < c
  /\ ran' = Append(ran, c)
  /\ UNCHANGED <<issued, outcome>>

Leave ==
  /\ ran' = Append(ran, Farewell)
  /\ UNCHANGED <<issued, outcome>>

\* The program learns how its call ended; a call that follows from it may be
\* issued at once.
Finish(how) ==
  /\ outcome[issued] = "open"
  /\ how = "done" => RanAlready(issued)
  /\ outcome' = [outcome EXCEPT ![issued] = how]
  /\ issued' = issued \/ (how = "done" /\ issued < MaxCalls /\ issued' = issued + 1)
  /\ UNCHANGED ran

Next ==
  \/ Issue \/ Leave
  \/ \E c \in 1 .. issued : Run(c)
  \/ \E how \in {"done", "failed"} : Finish(how)

Spec == Init /\ [][Next]_vars
=============================================================================
