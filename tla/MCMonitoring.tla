---------------------------- MODULE MCMonitoring ----------------------------
(***************************************************************************)
(* Instances of Monitoring for TLC: one trip for the interleavings of its  *)
(* writers, two for monitor runs that meet.  The monitor is deployed in    *)
(* every cast.                                                             *)
(***************************************************************************)
EXTENDS Monitoring

CONSTANTS t1, t2, w1, w2, m1, m2, m3, k1, h1, h2, h3, c1, s1, s2, a1, e1

\* t1 is the trip of every job but the second window.
MCTrips == [j \in Jobs |-> IF j = w2 THEN t2 ELSE t1]
\* m1 carries itinerary version 1, m2 cancels; windows are of version 0.
MCKinds == [m \in Messages |-> CASE m = m1 -> "upsert" [] m = m2 -> "cancelled"
                               [] OTHER -> "other"]
MCVersions == [j \in Windows \cup Messages |-> IF j = m1 THEN 1 ELSE 0]
MCJobs == [p \in Hooks \cup Callers |->
             CASE p \in Callers -> k1 [] p = h1 -> m1 [] p = h2 -> m2 [] OTHER -> m3]
MCTripAt == [p \in Admins \cup Reporters |-> t1]
MCCasts == {{s1, s2, t1, t2, w1, w2}, {s1, s2, e1, t1, w1}, {s1, h1, e1, w1},
            {s1, h1, e1, t1, w1}, {s1, h2, e1, t1, w1}, {s1, h3, t1, w1},
            {s1, c1, e1, t1, w1}, {s1, a1, e1, t1, w1}}
TwoTrips == {{s1, e1, t1, t2, w1, w2}}
=============================================================================
