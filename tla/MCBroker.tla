------------------------------ MODULE MCBroker ------------------------------
(* Instances of Broker for TLC: who publishes and subscribes to what.       *)
EXTENDS Broker

CONSTANTS p1, p2, s1, s2, t1, t2

OneTopic == [p \in Publishers |-> t1]
TwoTopics == [p \in Publishers |-> IF p = p1 THEN t1 ELSE t2]

\* The subscribers take one topic each, or s2 takes two and names one twice.
Same == {[s \in Subscribers |-> <<t1>>]}
Mixed == {[s \in Subscribers |-> IF s = s1 THEN <<t1>> ELSE <<t2, t1, t1>>]}

=============================================================================
