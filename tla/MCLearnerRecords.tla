-------------------------- MODULE MCLearnerRecords --------------------------
(* An instance of LearnerRecords for TLC.                                      *)
EXTENDS LearnerRecords, TLC

CONSTANTS u1, u2, u3, c1, c2, s1, e1, e2, p1, p2

\* One path is in both programs, and is the default of none.
MCOffers == (e1 :> {p1, p2}) @@ (e2 :> {p2})
MCDefault == (e1 :> p1) @@ (e2 :> NoPath)

\* Two courses of one stage: two units, and an interview.
MCCourseOf == (u1 :> c1) @@ (u2 :> c1) @@ (u3 :> c2)
MCStageOf == (c1 :> s1) @@ (c2 :> s1)
=============================================================================
