---------------------------- MODULE MCMqttSession ----------------------------
(***************************************************************************)
(* MqttSession with one-byte bodies.  The safety run follows the behaviours *)
(* of scenes, each with two bodies whose exchanges are mixed: constraint    *)
(* OneScene looks at who has called and what the broker has sent.           *)
(***************************************************************************)
EXTENDS MqttSession, TLC

CONSTANTS zero,       \* a call of QoS 0
          one1, one2, \* calls of QoS 1
          two1, two2, \* calls of QoS 2
          n0, n1,     \* arrivals of QoS 0 and of QoS 1
          m1, m2      \* arrivals of QoS 2 with one identifier

AllCalls == {zero, one1, one2, two1, two2}
AllArrivals == {n0, m1, m2}
LiveCalls == {one1}
LiveArrivals == {n1}

MCLease == Call \cup Arrival
MCSize == [body \in MCLease |-> 1]
MCQos == [body \in MCLease |-> CASE body \in {zero, n0} -> 0
                                 [] body \in {one1, one2, n1} -> 1
                                 [] OTHER -> 2]
MCInboundId == [m \in Arrival |-> 1]

\* Two publishes of one QoS that use the single identifier one after the other,
\* a publish and an arrival without acknowledgements, and two arrivals that the
\* broker gives the same identifier.
Scenes == {{two1, two2}, {one1, one2}, {zero, n0}, {m1, m2}}

OneScene ==
  \E scene \in Scenes :
    /\ \A c \in Call \ scene : call[c] = "idle"
    /\ \A m \in Arrival \ scene : outbound[m] = "new"

\* A driver that failed takes no further step, and no property of MqttSession is
\* about what happens after it.
DriverServes == task = "running" \/ result = "Closed"

Symmetry == Permutations({one1, one2}) \cup Permutations({two1, two2})
              \cup Permutations({m1, m2})
=============================================================================
