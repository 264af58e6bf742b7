---------------------------- MODULE DurableIndex ----------------------------
(***************************************************************************)
(* What a namespace promises to those who write to it: commits received    *)
(* are answered, and indexed, in any order; an answer and an entry of the  *)
(* index are never taken back, and nothing is indexed that nobody sent.    *)
(***************************************************************************)
EXTENDS FiniteSets

CONSTANT Hash

VARIABLES received, acked, indexed

dvars == <<received, acked, indexed>>

Init == received = {} /\ acked = {} /\ indexed = {}

Receive(S) ==
    /\ received' = received \cup S
    /\ UNCHANGED <<acked, indexed>>

Answer(S) ==
    /\ S \subseteq received
    /\ acked' = acked \cup S
    /\ UNCHANGED <<received, indexed>>

Index(S) ==
    /\ S \subseteq received
    /\ indexed' = indexed \cup S
    /\ UNCHANGED <<received, acked>>

Next == \E S \in SUBSET Hash : Receive(S) \/ Answer(S) \/ Index(S)

Spec == Init /\ [][Next]_dvars
=============================================================================
