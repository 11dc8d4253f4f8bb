-------------------------- MODULE LearningProgram ---------------------------
(* One student's enrollments in learning programs, the career paths attempted  *)
(* in each, and the requests to change or drop one                             *)
(* (features/learning_programs/services.py).                                   *)
(*                                                                             *)
(* A request that locks the enrollment or the program and writes at its end is *)
(* one step: what it reads of other rows can only have it refused, by itself   *)
(* or by a unique index.  The organization's limits, which two such requests   *)
(* may exceed together, are left out: they only refuse.  A withdrawal locks    *)
(* neither and is three steps.  A career path is one version of it and is not  *)
(* archived.                                                                   *)
EXTENDS Naturals, FiniteSets

CONSTANTS Programs,     \* the student has at most one enrollment in each
          Paths,
          Offers,       \* paths of a program's version
          Default,      \* its default path, or NoPath
          NoPath,
          Managers,     \* withdrawals running at the same time
          PathCap,      \* max_career_paths_per_enrollment
          SwitchLimit   \* max_path_switches

VARIABLES enrolled,   \* program_enrollments.status
          stamped,    \* enrollments with withdrawn_at set
          attempt,    \* program_path_attempts, by path: one switched out or cancelled
                      \* counts for nothing and is "none"
          request,    \* the open path_change_requests row
          switches,   \* approved requests
          access,     \* student_career_enrollments.status, by path
          finished,   \* paths the student has completed (CourseCompletion)
          leaving,    \* withdrawals
          raced       \* programs in which a path was started while a withdrawal had
                      \* read the attempts

vars == <<enrolled, stamped, attempt, request, switches, access, finished, leaving, raced>>

NoRequest == [kind |-> "none", from |-> NoPath, target |-> NoPath]
Away == [pc |-> "idle", of |-> "none", again |-> FALSE, listed |-> {}, pending |-> FALSE]

Init ==
    /\ enrolled = [e \in Programs |-> "none"]
    /\ stamped = {} /\ raced = {}
    /\ attempt = [e \in Programs |-> [p \in Paths |-> "none"]]
    /\ request = [e \in Programs |-> NoRequest]
    /\ switches = [e \in Programs |-> 0]
    /\ access = [p \in Paths |-> "none"]
    /\ finished = {}
    /\ leaving = [m \in Managers |-> Away]

-----------------------------------------------------------------------------
(* Queries and helpers *)

Running(e) == {p \in Paths : attempt[e][p] = "active"}
Selected(e) == {p \in Paths : attempt[e][p] # "none"}

\* find_active_path_attempt_elsewhere.
Elsewhere(e, p) == \E o \in Programs \ {e} : p \in Running(o)

\* uq_program_path_attempts_active_student_path: a second active attempt is refused.
Startable(p) == \A e \in Programs : p \notin Running(e)

\* A withdrawal holds the attempts it listed.
Listing(e) == \E m \in Managers : leaving[m].pc = "listed" /\ leaving[m].of = e
Held(e) == \E m \in Managers : leaving[m].of = e /\ leaving[m].listed # {}

\* Mutant: a dropped row is left as it is.
EnsuredNew(p) == IF access[p] = "none" THEN [access EXCEPT ![p] = "active"] ELSE access

\* ensure_program_path_access.
Ensured(p) == IF access[p] \in {"none", "dropped"} THEN [access EXCEPT ![p] = "active"] ELSE access

\* release_program_path_access, for paths with no other active attempt.
Released(rows, paths) ==
    [p \in Paths |-> IF p \in paths /\ rows[p] = "active" THEN "dropped" ELSE rows[p]]

Start(e, p) ==
    /\ Startable(p)
    /\ attempt' = [attempt EXCEPT ![e][p] = "active"]
    /\ enrolled' = [enrolled EXCEPT ![e] = "active"]
    /\ access' = Ensured(p)
    /\ raced' = IF Listing(e) THEN raced \cup {e} ELSE raced

-----------------------------------------------------------------------------
(* Managers *)

\* enroll_students: the default path is started unless it runs elsewhere, is finished
\* already, or is one too many.
Enroll(e) ==
    /\ enrolled[e] \in {"none", "withdrawn"}
    /\ \/ /\ enrolled' = [enrolled EXCEPT ![e] = "awaiting_path"]
          /\ UNCHANGED <<attempt, access, raced>>
       \/ /\ Default[e] \in Paths \ finished
          /\ Start(e, Default[e])
    /\ stamped' = stamped \ {e}
    /\ UNCHANGED <<request, switches, finished, leaving>>

\* withdraw_student reads the enrollment; withdrawing again is not refused.
Withdraw(m, e) ==
    /\ leaving[m] = Away
    /\ enrolled[e] \notin {"none", "completed"}
    /\ leaving' = [leaving EXCEPT ![m] = [Away EXCEPT !.pc = "read", !.of = e,
                                                      !.again = enrolled[e] = "withdrawn"]]
    /\ UNCHANGED <<enrolled, stamped, attempt, request, switches, access, finished, raced>>

\* The active attempts, FOR UPDATE; with none of them the open request is looked for
\* before anything is written.
WithdrawLists(m, e) ==
    /\ leaving[m].pc = "read" /\ leaving[m].of = e
    /\ ~Held(e)
    /\ leaving' = [leaving EXCEPT ![m].pc = "listed", ![m].listed = Running(e),
                                  ![m].pending = Running(e) # {} \/ request[e] # NoRequest]
    /\ UNCHANGED <<enrolled, stamped, attempt, request, switches, access, finished, raced>>

\* Mutant: one attempt is cancelled.
WithdrawnOne(m, e) ==
    /\ leaving[m].pc = "listed" /\ leaving[m].of = e
    /\ \E gone \in SUBSET leaving[m].listed :
         /\ Cardinality(gone) = 1
         /\ attempt' = [attempt EXCEPT ![e] = [p \in Paths |-> IF p \in gone THEN "none" ELSE @[p]]]
         /\ access' = Released(access, gone)
    /\ enrolled' = IF leaving[m].again THEN enrolled ELSE [enrolled EXCEPT ![e] = "withdrawn"]
    /\ stamped' = stamped \cup {e}
    /\ request' = IF leaving[m].pending THEN [request EXCEPT ![e] = NoRequest] ELSE request
    /\ leaving' = [leaving EXCEPT ![m] = Away]
    /\ UNCHANGED <<switches, finished, raced>>

\* The writes, from what it read: an enrollment read as withdrawn already has no new
\* status in its UPDATE.
Withdrawn(m, e) ==
    /\ leaving[m].pc = "listed" /\ leaving[m].of = e
    /\ attempt' = [attempt EXCEPT ![e] = [p \in Paths |-> IF p \in leaving[m].listed THEN "none"
                                                          ELSE @[p]]]
    /\ access' = Released(access, leaving[m].listed)
    /\ enrolled' = IF leaving[m].again THEN enrolled ELSE [enrolled EXCEPT ![e] = "withdrawn"]
    /\ stamped' = stamped \cup {e}
    /\ request' = IF leaving[m].pending THEN [request EXCEPT ![e] = NoRequest] ELSE request
    /\ leaving' = [leaving EXCEPT ![m] = Away]
    /\ UNCHANGED <<switches, finished, raced>>

-----------------------------------------------------------------------------
(* The student *)

SelectPath(e, p) ==
    /\ enrolled[e] \in {"awaiting_path", "active"}
    /\ p \in Offers[e] \ Selected(e)
    /\ Cardinality(Selected(e)) < PathCap
    /\ Start(e, p)
    /\ UNCHANGED <<stamped, request, switches, finished, leaving>>

\* What both kinds of request look for, holding the enrollment and its attempts.
Requestable(e, from) ==
    /\ enrolled[e] = "active" /\ ~Held(e)
    /\ from \in Running(e)
    /\ request[e] = NoRequest
    /\ switches[e] < SwitchLimit

RequestChange(e, from, to) ==
    /\ Requestable(e, from)
    /\ to \in Offers[e] \ Selected(e)
    /\ ~Elsewhere(e, to)
    /\ request' = [request EXCEPT ![e] = [kind |-> "change", from |-> from, target |-> to]]
    /\ UNCHANGED <<enrolled, stamped, attempt, switches, access, finished, leaving, raced>>

RequestDrop(e, from) ==
    /\ Requestable(e, from)
    /\ Cardinality(Running(e)) >= 2
    /\ request' = [request EXCEPT ![e] = [kind |-> "drop", from |-> from, target |-> NoPath]]
    /\ UNCHANGED <<enrolled, stamped, attempt, switches, access, finished, leaving, raced>>

-----------------------------------------------------------------------------
(* The dean *)

\* cancel_change_request, a rejection, or an approval that finds the target archived.
Close(e) ==
    /\ request[e] # NoRequest
    /\ request' = [request EXCEPT ![e] = NoRequest]
    /\ UNCHANGED <<enrolled, stamped, attempt, switches, access, finished, leaving, raced>>

\* What an approval finds, holding the request, the enrollment and the attempt; otherwise
\* it is refused and the request stays open.
Approvable(e, kind) ==
    /\ request[e].kind = kind
    /\ enrolled[e] = "active" /\ ~Held(e)
    /\ request[e].from \in Running(e)
    /\ switches[e] < SwitchLimit

Approve(e) ==
    /\ switches' = [switches EXCEPT ![e] = @ + 1]
    /\ request' = [request EXCEPT ![e] = NoRequest]
    /\ UNCHANGED <<enrolled, stamped, finished, leaving, raced>>

\* The change: one attempt switched out, the other started.
ApproveChange(e) ==
    /\ Approvable(e, "change")
    /\ LET from == request[e].from
           to == request[e].target
       IN /\ to \notin Selected(e) /\ ~Elsewhere(e, to)
          /\ attempt' = [attempt EXCEPT ![e][from] = "none", ![e][to] = "active"]
          /\ access' = Released(Ensured(to), {from})
    /\ Approve(e)

\* Mutant: the last path is looked for when the request is filed only.
ApproveDropBlindly(e) ==
    /\ Approvable(e, "drop")
    /\ attempt' = [attempt EXCEPT ![e][request[e].from] = "none"]
    /\ access' = Released(access, {request[e].from})
    /\ Approve(e)

\* _approve_path_drop: another path must remain.
ApproveDrop(e) ==
    /\ Approvable(e, "drop")
    /\ Running(e) # {request[e].from}
    /\ attempt' = [attempt EXCEPT ![e][request[e].from] = "none"]
    /\ access' = Released(access, {request[e].from})
    /\ Approve(e)

-----------------------------------------------------------------------------
(* Completion *)

\* The last award the path needed.
Finish(p) ==
    /\ p \notin finished
    /\ finished' = finished \cup {p}
    /\ UNCHANGED <<enrolled, stamped, attempt, request, switches, access, leaving, raced>>

\* sync_enrollment_completion of a path with access: complete_program_attempts locks the
\* active enrollments' attempts; a program whose paths are all done is completed.
Complete(p) ==
    LET mine == {e \in Programs : enrolled[e] = "active" /\ p \in Running(e)} IN
    /\ p \in finished /\ access[p] = "active"
    /\ \A e \in mine : ~Held(e)
    /\ attempt' = [e \in Programs |-> IF e \in mine THEN [attempt[e] EXCEPT ![p] = "completed"]
                                      ELSE attempt[e]]
    /\ enrolled' = [e \in Programs |-> IF e \in mine /\ Running(e) = {p} THEN "completed"
                                       ELSE enrolled[e]]
    /\ access' = [access EXCEPT ![p] = "completed"]
    /\ UNCHANGED <<stamped, request, switches, finished, leaving, raced>>

-----------------------------------------------------------------------------
Manage(e) == \/ Enroll(e)
             \/ \E m \in Managers : Withdraw(m, e) \/ WithdrawLists(m, e) \/ Withdrawn(m, e)

Study(e) == \/ \E p \in Paths : SelectPath(e, p) \/ RequestDrop(e, p)
            \/ \E from, to \in Paths : RequestChange(e, from, to)

Decide(e) == Close(e) \/ ApproveChange(e) \/ ApproveDrop(e)

Next == \/ \E e \in Programs : Manage(e) \/ Study(e) \/ Decide(e)
        \/ \E p \in Paths : Finish(p) \/ Complete(p)

Spec == Init /\ [][Next]_vars

-----------------------------------------------------------------------------
(* Properties *)

TypeOK ==
    /\ enrolled \in [Programs -> {"none", "awaiting_path", "active", "completed", "withdrawn"}]
    /\ stamped \subseteq Programs /\ raced \subseteq Programs
    /\ attempt \in [Programs -> [Paths -> {"none", "active", "completed"}]]
    /\ switches \in [Programs -> 0 .. SwitchLimit]
    /\ access \in [Paths -> {"none", "active", "completed", "dropped"}]
    /\ finished \subseteq Paths

\* An active enrollment has an active path, however approvals, completions and other
\* programs interleave (_approve_path_drop: without one, "a state nothing else in the
\* feature can produce or recover from"); but for one made active again under a second
\* withdrawal, which leaves withdrawn_at on it.
ActiveHasPath ==
    \A e \in Programs : enrolled[e] = "active" /\ e \notin stamped => Running(e) # {}

\* A withdrawn enrollment runs no path, but for one started after the withdrawal had
\* listed the attempts.
WithdrawnRunsNothing ==
    \A e \in Programs : enrolled[e] = "withdrawn" /\ Running(e) # {} => e \in raced

\* Whoever changes, drops, withdraws or completes a path, in whichever program, the
\* student keeps access to the paths attempted (a manager who unenrolls the student
\* from the path itself is left out).
AccessHeld ==
    \A e \in Programs : \A p \in Running(e) : access[p] \in {"active", "completed"}
=============================================================================
