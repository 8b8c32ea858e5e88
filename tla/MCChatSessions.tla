--------------------------- MODULE MCChatSessions ---------------------------
(* A session that is created and continued; and one with a turn that is       *)
(* continued by a request that is sent twice, continued while its last turn   *)
(* is regenerated, regenerated by a request that is sent twice, or            *)
(* regenerated while the request of that turn is sent again.                  *)
EXTENDS ChatSessions
CONSTANTS e0, e1, e2, q0, q1, q2, m1

Ask(k, q) == [kind |-> k, req |-> q]
Create == Ask("create", q0)
Continue(q) == Ask("continue", q)
Retry(q) == Ask("retry", q)

Plan(a, b, c) == e0 :> a @@ e1 :> b @@ e2 :> c
After(b, c) == {Plan(Ask("past", q0), b, c), Plan(Ask("past", q0), c, b)}
Plans == {Plan(Create, Continue(q1), Ask("none", q2)),
          Plan(Create, Ask("none", q2), Continue(q1))}
           \cup After(Continue(q1), Continue(q1))
           \cup After(Continue(q1), Retry(q2))
           \cup After(Retry(q1), Retry(q1))
           \cup After(Retry(q1), Continue(q0))

(* Where a mark has overwritten a newer record no property says anything.     *)
Unclobbered == ~clobbered
Symmetry == Permutations({e1, e2})
=============================================================================
