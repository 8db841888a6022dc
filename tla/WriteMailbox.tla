---------------------------- MODULE WriteMailbox ----------------------------
(***************************************************************************)
(* What AttributePollingComponentManager promises for writes, without its  *)
(* queue, polls, chunks and failures: one mailbox per attribute in which   *)
(* the last write wins.  A write that is accepted may be superseded or     *)
(* thrown away; what is delivered for an attribute is no newer than what   *)
(* was accepted for it and newer than what was delivered for it before.    *)
(***************************************************************************)
EXTENDS Naturals

CONSTANT Attr

VARIABLES
    accepted,   \* accepted[a]: the newest write of a a client handed in
    delivered   \* delivered[a]: the newest write of a the hardware was sent

vars == <<accepted, delivered>>

Init ==
    /\ accepted = [a \in Attr |-> 0]
    /\ delivered = [a \in Attr |-> 0]

\* A write newer than every other one.
Accept(a) ==
    /\ \A b \in Attr : accepted'[a] > accepted[b]
    /\ accepted' = [accepted EXCEPT ![a] = accepted'[a]]
    /\ UNCHANGED delivered

\* One request to the hardware, carrying writes of some attributes.
Deliver(A) ==
    /\ delivered' \in [Attr -> Nat]
    /\ \A a \in A : delivered[a] < delivered'[a] /\ delivered'[a] <= accepted[a]
    /\ \A a \in Attr \ A : delivered'[a] = delivered[a]
    /\ UNCHANGED accepted

Next == (\E a \in Attr : Accept(a)) \/ (\E A \in SUBSET Attr : Deliver(A))

Spec == Init /\ [][Next]_vars
====
