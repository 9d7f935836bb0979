------------------------------- MODULE Stream -------------------------------
(***************************************************************************)
(* What the agent promises its hub of the terminals it runs (flow.rs,      *)
(* batch.rs, away.rs): the frames of a terminal are heard in the order it  *)
(* said them, each at most once, over one connection after another.  Some  *)
(* may never be heard: a connection may end with frames in its queue, and  *)
(* what is kept while the hub is away has bounds.                          *)
(*                                                                         *)
(* AgentOutput implements this.                                            *)
(***************************************************************************)
EXTENDS Naturals

CONSTANTS Terminal, MaxConn

VARIABLES
    said,    \* said[t]: how many things t has said, numbered from 1
    over,    \* the terminals whose end was said: nothing follows it
    heard    \* heard[t]: the pairs <<connection, number>> that were written

Init ==
    /\ said = [t \in Terminal |-> 0]
    /\ over = {}
    /\ heard = [t \in Terminal |-> {}]

(* A terminal says one thing more, perhaps its last.                       *)
Say(t) ==
    /\ t \notin over
    /\ said' = [said EXCEPT ![t] = @ + 1]
    /\ over' \in {over, over \cup {t}}
    /\ UNCHANGED heard

(* A run of what it said is written to connection c: after everything that *)
(* was written to c or to an earlier connection, and before everything     *)
(* that was written to a later one.                                        *)
Hear(c, t, first, last) ==
    /\ first <= last /\ last <= said[t]
    /\ \A p \in heard[t] : IF p[1] <= c THEN p[2] < first ELSE last < p[2]
    /\ heard' = [heard EXCEPT ![t] = @ \cup ({c} \X (first .. last))]
    /\ UNCHANGED <<said, over>>

Next ==
    \E t \in Terminal :
        \/ Say(t)
        \/ \E c \in 1 .. MaxConn, first, last \in 1 .. said[t] : Hear(c, t, first, last)

Spec == Init /\ [][Next]_<<said, over, heard>>
=============================================================================
