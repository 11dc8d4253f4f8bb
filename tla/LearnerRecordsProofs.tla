------------------------ MODULE LearnerRecordsProofs -------------------------
(* Theorems about LearnerRecords, for any programs, paths, limits, courses and *)
(* number of requests under way.                                               *)
(*                                                                             *)
(* LearningProgram: an active enrollment has a path, a withdrawn one runs      *)
(* none, and the student has access to every path attempted.                   *)
(*                                                                             *)
(* CourseCompletion: why the award's unique index never refuses a promotion.   *)
(* The SELECT of ensure_completion_award does not see what others insert, so   *)
(* it alone keeps nobody out; but the enrollment's UPDATE is flushed before it *)
(* and locks the row.  The invariant says that whoever is to grant an award,   *)
(* or granted one and has not committed, holds that course's enrollment, and   *)
(* nobody else does.                                                           *)
(*                                                                             *)
(* OverdueSweep: what a batch closes was overdue, and grades once.             *)
EXTENDS LearnerRecords, TLAPS

(* LearningProgram *)

LeavingType == [pc : {"idle", "read", "listed"}, of : Programs \cup {"none"}, again : BOOLEAN,
                listed : SUBSET Paths, pending : BOOLEAN]

Rows ==
    /\ enrolled \in [Programs -> {"none", "awaiting_path", "active", "completed", "withdrawn"}]
    /\ stamped \subseteq Programs /\ raced \subseteq Programs
    /\ attempt \in [Programs -> [Paths -> {"none", "active", "completed"}]]
    /\ access \in [Paths -> {"none", "active", "completed", "dropped"}]
    /\ leaving \in [Managers -> LeavingType]
    /\ DOMAIN request = Programs
    /\ \A e \in Programs : request[e].kind = "change" => request[e].target \in Paths

\* uq_program_path_attempts_active_student_path.
Unique == \A e, o \in Programs : \A p \in Paths : p \in Running(e) \cap Running(o) => e = o

\* What a withdrawal has locked is still running, and no other one has locked it; what
\* runs and is not locked was started behind its back.
Locks ==
    /\ \A m \in Managers : leaving[m].listed # {} => leaving[m].pc = "listed"
    /\ \A m \in Managers, e \in Programs : leaving[m].of = e => leaving[m].listed \subseteq Running(e)
    /\ \A m, n \in Managers :
          leaving[m].of = leaving[n].of /\ leaving[m].listed # {} /\ leaving[n].listed # {} => m = n
    /\ \A m \in Managers, e \in Programs :
          leaving[m].pc = "listed" /\ leaving[m].of = e
            => Running(e) \subseteq leaving[m].listed \/ e \in raced

IInv == Rows /\ Unique /\ Locks /\ ActiveHasPath /\ WithdrawnRunsNothing /\ AccessHeld
-----------------------------------------------------------------------------
LEMMA InitIInv == Init => IInv
<1> SUFFICES ASSUME Init PROVE IInv
  OBVIOUS
<1>1. Rows
  BY DEF Init, Rows, LeavingType, Away, NoRequest
<1>2. \A e \in Programs : Running(e) = {}
  BY DEF Init, Running
<1>3. QED
  BY <1>1, <1>2 DEF Init, IInv, Unique, Locks, ActiveHasPath, WithdrawnRunsNothing, AccessHeld, Away

\* A path started in a program where it does not run, by a request of that program.
LEMMA StartStep ==
  ASSUME IInv, NEW e \in Programs, NEW p \in Paths, Start(e, p),
         stamped' \subseteq Programs, \A o \in Programs \ {e} : o \in stamped' <=> o \in stamped,
         UNCHANGED <<request, leaving>>
  PROVE  IInv'
<1> USE DEF IInv
<1>1. Running(e)' = Running(e) \cup {p} /\ \A o \in Programs \ {e} : Running(o)' = Running(o)
  BY DEF Rows, Start, Running
<1>2. raced \subseteq raced' /\ raced' \subseteq Programs
  BY DEF Rows, Start
<1>3. Rows'
  BY <1>2 DEF Rows, Start, Ensured
<1>4. Unique'
  BY <1>1 DEF Unique, Start, Startable
<1>5. Locks'
  BY <1>1, <1>2 DEF Locks, Start, Listing
<1>6. ActiveHasPath'
  BY <1>1 DEF ActiveHasPath, Start, Rows
<1>7. WithdrawnRunsNothing'
  BY <1>1, <1>2 DEF WithdrawnRunsNothing, Start, Rows
<1>8. AccessHeld'
  BY <1>1 DEF AccessHeld, Start, Ensured, Rows
<1>9. QED
  BY <1>3, <1>4, <1>5, <1>6, <1>7, <1>8

LEMMA EnrollStep ==
  ASSUME IInv, NEW e \in Programs, Enroll(e)
  PROVE  IInv'
<1>1. CASE enrolled' = [enrolled EXCEPT ![e] = "awaiting_path"] /\ UNCHANGED <<attempt, access, raced>>
  <2>1. \A o \in Programs : Running(o)' = Running(o)
    BY <1>1 DEF Running
  <2>2. Rows'
    BY <1>1 DEF IInv, Rows, Enroll
  <2>3. Unique' /\ Locks' /\ AccessHeld'
    BY <1>1, <2>1 DEF IInv, Unique, Locks, AccessHeld, Enroll
  <2>4. ActiveHasPath' /\ WithdrawnRunsNothing'
    BY <1>1, <2>1 DEF IInv, Rows, ActiveHasPath, WithdrawnRunsNothing, Enroll
  <2>5. QED
    BY <2>2, <2>3, <2>4 DEF IInv
<1>2. CASE Default[e] \in Paths /\ Start(e, Default[e])
  BY <1>2, StartStep DEF Enroll, IInv, Rows
<1>3. QED
  BY <1>1, <1>2 DEF Enroll

\* A request filed or closed.
LEMMA OnlyRequest ==
  ASSUME IInv, UNCHANGED <<enrolled, stamped, attempt, access, leaving, raced>>,
         DOMAIN request' = Programs,
         \A e \in Programs : request'[e].kind = "change" => request'[e].target \in Paths
  PROVE  IInv'
  BY DEF IInv, Rows, Unique, Locks, ActiveHasPath, WithdrawnRunsNothing, AccessHeld, Running
LEMMA StudyStep ==
  ASSUME IInv, NEW e \in Programs, Study(e)
  PROVE  IInv'
<1>1. ASSUME NEW p \in Paths, SelectPath(e, p) PROVE IInv'
  BY <1>1, StartStep DEF SelectPath, IInv, Rows
<1>2. ASSUME NEW p \in Paths, RequestDrop(e, p) PROVE IInv'
  BY <1>2, OnlyRequest DEF RequestDrop, IInv, Rows
<1>3. ASSUME NEW from \in Paths, NEW to \in Paths, RequestChange(e, from, to) PROVE IInv'
  BY <1>3, OnlyRequest DEF RequestChange, IInv, Rows
<1>4. QED
  BY <1>1, <1>2, <1>3 DEF Study

\* What a withdrawal has seen when it has listed the attempts.
LEMMA Listed ==
  ASSUME NEW r \in LeavingType, NEW running \in SUBSET Paths, NEW pending \in BOOLEAN
  PROVE  [r EXCEPT !.pc = "listed", !.listed = running, !.pending = pending] \in LeavingType
  BY DEF LeavingType

LEMMA WithdrawStep ==
  ASSUME IInv, NEW m \in Managers, NEW e \in Programs, Withdraw(m, e) \/ WithdrawLists(m, e)
  PROVE  IInv'
<1> USE DEF IInv
<1>1. \A o \in Programs : Running(o)' = Running(o)
  BY DEF Withdraw, WithdrawLists, Running
<1>2. CASE Withdraw(m, e)
  <2> DEFINE again == enrolled[e] = "withdrawn"
  <2> DEFINE read == [Away EXCEPT !.pc = "read", !.of = e, !.again = again]
  <2>1. read \in LeavingType /\ read.pc = "read" /\ read.of = e /\ read.listed = {}
    <3>1. again \in BOOLEAN
      OBVIOUS
    <3> HIDE DEF again
    <3>2. QED
      BY <3>1 DEF Away, LeavingType
  <2>2. leaving' = [leaving EXCEPT ![m] = read]
    BY <1>2 DEF Withdraw
  <2> HIDE DEF read
  <2>3. Rows'
    BY <1>2, <2>1, <2>2 DEF Withdraw, Rows
  <2>4. Locks'
    <3>1. /\ leaving'[m] = read
          /\ \A n \in Managers : n # m => leaving'[n] = leaving[n]
      BY <2>2 DEF Rows
    <3>2. raced' = raced
      BY <1>2 DEF Withdraw
    <3>3. QED
      BY <1>1, <2>1, <3>1, <3>2 DEF Locks
  <2>5. Unique' /\ ActiveHasPath' /\ WithdrawnRunsNothing' /\ AccessHeld'
    BY <1>1, <1>2 DEF Withdraw, Unique, ActiveHasPath, WithdrawnRunsNothing, AccessHeld
  <2>6. QED
    BY <2>3, <2>4, <2>5
<1>3. CASE WithdrawLists(m, e)
  <2> DEFINE pending == Running(e) # {} \/ request[e] # NoRequest
  <2>1. pending \in BOOLEAN /\ Running(e) \subseteq Paths
    BY DEF Running
  <2>2. leaving' = [leaving EXCEPT ![m].pc = "listed", ![m].listed = Running(e),
                                   ![m].pending = pending]
    BY <1>3 DEF WithdrawLists
  <2> HIDE DEF pending
  <2> DEFINE listed == [leaving[m] EXCEPT !.pc = "listed", !.listed = Running(e),
                                          !.pending = pending]
  <2>3. leaving' \in [Managers -> LeavingType]
    <3>1. listed \in LeavingType
      <4>1. leaving[m] \in LeavingType
        BY DEF Rows
      <4>2. QED
        BY <2>1, <4>1, Listed
    <3>2. leaving' = [leaving EXCEPT ![m] = listed]
      BY <2>2 DEF Rows, LeavingType
    <3> HIDE DEF listed
    <3>3. QED
      BY <3>1, <3>2 DEF Rows
  <2>4. /\ leaving'[m].pc = "listed" /\ leaving'[m].of = e /\ leaving'[m].listed = Running(e)
        /\ \A n \in Managers \ {m} : leaving'[n] = leaving[n]
    BY <1>3, <2>2 DEF Rows, LeavingType, WithdrawLists
  <2>5. Rows'
    BY <1>3, <2>3 DEF WithdrawLists, Rows
  <2>6. Locks'
    <3>1. \A n \in Managers \ {m} : leaving[n].of = e => leaving[n].listed = {}
      BY <1>3 DEF WithdrawLists, Held
    <3>2. \A n \in Managers : n # m => leaving'[n] = leaving[n]
      BY <2>4
    <3>3. \A n \in Managers : leaving'[n].listed # {} => leaving'[n].pc = "listed"
      BY <2>4, <3>2 DEF Locks
    <3>4. \A n \in Managers, o \in Programs :
            leaving'[n].of = o => leaving'[n].listed \subseteq Running(o)'
      BY <1>1, <2>4, <3>2 DEF Locks
    <3>5. \A n, k \in Managers :
            leaving'[n].of = leaving'[k].of /\ leaving'[n].listed # {} /\ leaving'[k].listed # {}
              => n = k
      BY <2>4, <3>1, <3>2 DEF Locks
    <3>6. \A n \in Managers, o \in Programs :
            leaving'[n].pc = "listed" /\ leaving'[n].of = o
              => Running(o)' \subseteq leaving'[n].listed \/ o \in raced'
      <4>1. raced' = raced
        BY <1>3 DEF WithdrawLists
      <4>2. QED
        BY <1>1, <2>4, <3>2, <4>1 DEF Locks
    <3>7. QED
      BY <3>3, <3>4, <3>5, <3>6 DEF Locks
  <2>7. Unique' /\ ActiveHasPath' /\ WithdrawnRunsNothing' /\ AccessHeld'
    BY <1>1, <1>3 DEF WithdrawLists, Unique, ActiveHasPath, WithdrawnRunsNothing, AccessHeld
  <2>8. QED
    BY <2>5, <2>6, <2>7
<1>4. QED
  BY <1>2, <1>3

\* The withdrawal releases only what it has locked, so no other program's path.
LEMMA WithdrawnStep ==
  ASSUME IInv, NEW m \in Managers, NEW e \in Programs, Withdrawn(m, e)
  PROVE  IInv'
<1> USE DEF IInv
<1> DEFINE gone == leaving[m].listed
<1>1. gone \subseteq Running(e) /\ leaving[m].of = e /\ leaving[m].pc = "listed"
  BY DEF Withdrawn, Locks
<1>2. Running(e)' = Running(e) \ gone /\ \A o \in Programs \ {e} : Running(o)' = Running(o)
  BY DEF Withdrawn, Running, Rows
<1>3. /\ leaving'[m] = Away
      /\ \A n \in Managers \ {m} : leaving'[n] = leaving[n]
  BY DEF Withdrawn, Rows
<1>4. Rows'
  <2>1. leaving' \in [Managers -> LeavingType]
    BY DEF Withdrawn, Rows, LeavingType, Away
  <2>2. enrolled' \in [Programs -> {"none", "awaiting_path", "active", "completed", "withdrawn"}]
    BY DEF Withdrawn, Rows
  <2>3. access' \in [Paths -> {"none", "active", "completed", "dropped"}]
    BY DEF Withdrawn, Rows, Released
  <2>4. /\ DOMAIN request' = Programs
        /\ \A o \in Programs : request'[o].kind = "change" => request'[o].target \in Paths
    BY DEF Withdrawn, Rows, NoRequest
  <2>5. attempt' \in [Programs -> [Paths -> {"none", "active", "completed"}]]
    BY DEF Withdrawn, Rows
  <2>6. stamped' \subseteq Programs /\ raced' \subseteq Programs
    BY DEF Withdrawn, Rows
  <2>7. QED
    BY <2>1, <2>2, <2>3, <2>4, <2>5, <2>6 DEF Rows
<1>5. Unique'
  BY <1>2 DEF Unique
<1>6. Locks'
  <2>1. \A n \in Managers \ {m} : gone # {} /\ leaving[n].of = e => leaving[n].listed = {}
    BY <1>1 DEF Locks
  <2>2. raced' = raced
    BY DEF Withdrawn
  <2>3. QED
    BY <1>1, <1>2, <1>3, <2>1, <2>2 DEF Locks, Away
<1>7. ActiveHasPath'
  BY <1>2 DEF ActiveHasPath, Withdrawn, Rows
<1>8. WithdrawnRunsNothing'
  BY <1>1, <1>2 DEF WithdrawnRunsNothing, Withdrawn, Rows, Locks
<1>9. AccessHeld'
  <2>1. access' = Released(access, gone)
    BY DEF Withdrawn
  <2>2. ASSUME NEW o \in Programs, NEW p \in Running(o)' PROVE p \in Paths /\ p \in Running(o) /\ p \notin gone
    BY <1>1, <1>2, <2>2 DEF Unique, Running
  <2>3. QED
    BY <2>1, <2>2 DEF AccessHeld, Released
<1>10. QED
  BY <1>4, <1>5, <1>6, <1>7, <1>8, <1>9
\* What an approval finds: the path it ends runs here alone, and no withdrawal holds it.
LEMMA Approved ==
  ASSUME IInv, NEW e \in Programs, NEW kind, Approvable(e, kind)
  PROVE  /\ request[e].from \in Running(e) /\ request[e].from \in Paths
         /\ \A o \in Programs \ {e} : request[e].from \notin Running(o)
         /\ \A m \in Managers : leaving[m].of = e => leaving[m].listed = {}
         /\ Listing(e) => e \in raced
<1>1. request[e].from \in Running(e) /\ \A m \in Managers : leaving[m].of = e => leaving[m].listed = {}
  BY DEF Approvable, Held
<1>2. QED
  BY <1>1 DEF IInv, Locks, Unique, Listing, Running

\* The enrollment's attempts, once approved, and the rows of access that follow.
LEMMA ApproveKeeps ==
  ASSUME IInv, NEW e \in Programs, NEW kind, Approvable(e, kind), Approve(e),
         attempt' \in [Programs -> [Paths -> {"none", "active", "completed"}]],
         access' \in [Paths -> {"none", "active", "completed", "dropped"}],
         Running(e)' # {}, \A o \in Programs \ {e} : Running(o)' = Running(o)
  PROVE  Rows' /\ Locks' /\ ActiveHasPath' /\ WithdrawnRunsNothing'
<1> USE DEF IInv
<1>1. Rows'
  <2>1. /\ DOMAIN request' = Programs
        /\ \A o \in Programs : request'[o].kind = "change" => request'[o].target \in Paths
    BY DEF Approve, Rows, NoRequest
  <2>2. QED
    BY <2>1 DEF Approve, Rows
<1>2. Locks'
  BY Approved DEF Approve, Locks, Listing
<1>3. ActiveHasPath'
  BY DEF Approve, ActiveHasPath
<1>4. WithdrawnRunsNothing'
  BY DEF Approve, Approvable, WithdrawnRunsNothing
<1>5. QED
  BY <1>1, <1>2, <1>3, <1>4

LEMMA ApproveChangeStep ==
  ASSUME IInv, NEW e \in Programs, ApproveChange(e)
  PROVE  IInv'
<1> USE DEF IInv
<1> DEFINE from == request[e].from
<1> DEFINE to == request[e].target
<1>1. /\ Approvable(e, "change") /\ Approve(e) /\ to \in Paths /\ to \notin Running(e)
      /\ \A o \in Programs : to \notin Running(o)
  BY DEF ApproveChange, Approvable, Rows, Selected, Running, Elsewhere
<1>2. from \in Running(e) /\ from \in Paths /\ \A o \in Programs \ {e} : from \notin Running(o)
  BY <1>1, Approved
<1>3. /\ attempt' = [attempt EXCEPT ![e][from] = "none", ![e][to] = "active"]
      /\ access' = Released(Ensured(to), {from})
  BY DEF ApproveChange
<1> HIDE DEF from, to
<1>4. /\ attempt' \in [Programs -> [Paths -> {"none", "active", "completed"}]]
      /\ access' \in [Paths -> {"none", "active", "completed", "dropped"}]
  BY <1>1, <1>2, <1>3 DEF Rows, Released, Ensured
<1>5. /\ Running(e)' = (Running(e) \ {from}) \cup {to}
      /\ \A o \in Programs \ {e} : Running(o)' = Running(o)
  BY <1>1, <1>2, <1>3 DEF Rows, Running
<1>6. Rows' /\ Locks' /\ ActiveHasPath' /\ WithdrawnRunsNothing'
  BY <1>1, <1>4, <1>5, ApproveKeeps
<1>7. Unique'
  BY <1>1, <1>5 DEF Unique
<1>8. AccessHeld'
  BY <1>1, <1>2, <1>3, <1>5 DEF AccessHeld, Released, Ensured, Rows, Running
<1>9. QED
  BY <1>6, <1>7, <1>8

LEMMA ApproveDropStep ==
  ASSUME IInv, NEW e \in Programs, ApproveDrop(e)
  PROVE  IInv'
<1> USE DEF IInv
<1> DEFINE from == request[e].from
<1>1. Approvable(e, "drop") /\ Approve(e) /\ Running(e) # {from}
  BY DEF ApproveDrop
<1>2. from \in Running(e) /\ from \in Paths /\ \A o \in Programs \ {e} : from \notin Running(o)
  BY <1>1, Approved
<1>3. attempt' = [attempt EXCEPT ![e][from] = "none"] /\ access' = Released(access, {from})
  BY DEF ApproveDrop
<1> HIDE DEF from
<1>4. /\ attempt' \in [Programs -> [Paths -> {"none", "active", "completed"}]]
      /\ access' \in [Paths -> {"none", "active", "completed", "dropped"}]
  BY <1>2, <1>3 DEF Rows, Released
<1>5. /\ Running(e)' = Running(e) \ {from}
      /\ \A o \in Programs \ {e} : Running(o)' = Running(o)
  BY <1>2, <1>3 DEF Rows, Running
<1>6. Rows' /\ Locks' /\ ActiveHasPath' /\ WithdrawnRunsNothing'
  BY <1>1, <1>2, <1>4, <1>5, ApproveKeeps
<1>7. Unique'
  BY <1>5 DEF Unique
<1>8. AccessHeld'
  BY <1>2, <1>3, <1>5 DEF AccessHeld, Released, Running
<1>9. QED
  BY <1>6, <1>7, <1>8

\* A completion takes the path out of every active enrollment, and completes those it
\* leaves without one.
LEMMA CompleteStep ==
  ASSUME IInv, NEW p \in Paths, Complete(p)
  PROVE  IInv'
<1> USE DEF IInv
<1> DEFINE mine == {e \in Programs : enrolled[e] = "active" /\ p \in Running(e)}
<1>1. \A o \in Programs : Running(o)' = IF o \in mine THEN Running(o) \ {p} ELSE Running(o)
  BY DEF Complete, Running, Rows
<1>2. \A e \in mine : \A m \in Managers : leaving[m].of = e => leaving[m].listed = {}
  BY DEF Complete, Held
<1>3. UNCHANGED <<stamped, request, leaving, raced>>
  BY DEF Complete
<1>4. enrolled' = [e \in Programs |-> IF e \in mine /\ Running(e) = {p} THEN "completed"
                                      ELSE enrolled[e]]
  BY DEF Complete
<1>5. Rows'
  BY <1>3, <1>4 DEF Complete, Rows
<1>6. Unique'
  BY <1>1 DEF Unique
<1>7. Locks'
  BY <1>1, <1>2, <1>3 DEF Locks
<1>8. ActiveHasPath' /\ WithdrawnRunsNothing'
  BY <1>1, <1>3, <1>4 DEF ActiveHasPath, WithdrawnRunsNothing
<1>9. AccessHeld'
  BY <1>1 DEF AccessHeld, Complete, Rows
<1>10. QED
  BY <1>5, <1>6, <1>7, <1>8, <1>9
-----------------------------------------------------------------------------
LEMMA IInvStep == IInv /\ [Next]_vars => IInv'
<1> SUFFICES ASSUME IInv, [Next]_vars PROVE IInv'
  OBVIOUS
<1>1. ASSUME NEW e \in Programs, Manage(e) PROVE IInv'
  BY <1>1, EnrollStep, WithdrawStep, WithdrawnStep DEF Manage
<1>2. ASSUME NEW e \in Programs, Study(e) PROVE IInv'
  BY <1>2, StudyStep
<1>3. ASSUME NEW e \in Programs, Close(e) PROVE IInv'
  BY <1>3, OnlyRequest DEF Close, IInv, Rows, NoRequest
<1>4. ASSUME NEW e \in Programs, ApproveChange(e) \/ ApproveDrop(e) PROVE IInv'
  BY <1>4, ApproveChangeStep, ApproveDropStep
<1>5. ASSUME NEW p \in Paths, Finish(p) PROVE IInv'
  BY <1>5, OnlyRequest DEF Finish, IInv, Rows
<1>6. ASSUME NEW p \in Paths, Complete(p) PROVE IInv'
  BY <1>6, CompleteStep
<1>7. CASE UNCHANGED vars
  BY <1>7, OnlyRequest DEF vars, IInv, Rows
<1>8. QED
  BY <1>1, <1>2, <1>3, <1>4, <1>5, <1>6, <1>7 DEF Next, Decide

\* The rows, the unique index and the locks support each other; the three properties
\* below are parts of it.
THEOREM ProgramInvariant == Spec => []IInv
  BY InitIInv, IInvStep, PTL DEF Spec

\* Whatever the managers, the student, the dean and other programs do, an active
\* enrollment has an active path, unless a second withdrawal has stamped it.
THEOREM ActiveHasPathAlways == Spec => []ActiveHasPath
  BY ProgramInvariant, PTL DEF IInv

\* A withdrawn enrollment runs a path only if it was started while a withdrawal had
\* already listed the attempts.
THEOREM WithdrawnRunsNothingAlways == Spec => []WithdrawnRunsNothing
  BY ProgramInvariant, PTL DEF IInv

\* No drop, change, withdrawal or completion in one program takes the access another
\* program's attempt needs.
THEOREM AccessHeldAlways == Spec => []AccessHeld
  BY ProgramInvariant, PTL DEF IInv

\* Approvals look at the count they raise, under the enrollment's lock.
LEMMA CountStep ==
  ASSUME SwitchLimit \in Nat, switches \in [Programs -> 0 .. SwitchLimit],
         finished \subseteq Paths, [Next]_vars
  PROVE  switches' \in [Programs -> 0 .. SwitchLimit] /\ finished' \subseteq Paths
<1>1. ASSUME NEW e \in Programs, ApproveChange(e) \/ ApproveDrop(e)
      PROVE  switches' \in [Programs -> 0 .. SwitchLimit] /\ finished' \subseteq Paths
  <2>1. /\ switches[e] \in Nat /\ switches[e] < SwitchLimit
        /\ switches' = [switches EXCEPT ![e] = @ + 1] /\ finished' = finished
    BY <1>1 DEF ApproveChange, ApproveDrop, Approvable, Approve
  <2>2. switches[e] + 1 \in 0 .. SwitchLimit
    BY <2>1
  <2>3. QED
    BY <2>1, <2>2
<1>2. ASSUME NEW p \in Paths, Finish(p)
      PROVE  switches' \in [Programs -> 0 .. SwitchLimit] /\ finished' \subseteq Paths
  BY <1>2 DEF Finish
<1>3. ASSUME NEW p \in Paths, Complete(p) PROVE UNCHANGED <<switches, finished>>
  BY <1>3 DEF Complete
<1>4. ASSUME NEW e \in Programs, Manage(e) \/ Study(e) \/ Close(e)
      PROVE  UNCHANGED <<switches, finished>>
  BY <1>4 DEF Manage, Study, Close, Enroll, Withdraw, WithdrawLists, Withdrawn, SelectPath,
              RequestDrop, RequestChange
<1>5. QED
  BY <1>1, <1>2, <1>3, <1>4 DEF Next, Decide, vars

\* The rows hold values of their columns, and no more changes are approved in an
\* enrollment than its program allows.
THEOREM TypesInvariant ==
  ASSUME SwitchLimit \in Nat
  PROVE  Spec => []TypeOK
<1> DEFINE Counts == switches \in [Programs -> 0 .. SwitchLimit] /\ finished \subseteq Paths
<1>1. Init => Counts
  BY DEF Init
<1>2. Counts /\ [Next]_vars => Counts'
  BY CountStep
<1>3. IInv /\ Counts => TypeOK
  BY DEF IInv, Rows, TypeOK
<1> HIDE DEF Counts
<1>4. QED
  BY <1>1, <1>2, <1>3, ProgramInvariant, PTL DEF Spec

-----------------------------------------------------------------------------
(* CourseCompletion *)

\* The steps that are about the course in hand.
OnCourse == {"load", "tally", "promote", "demote", "award", "insert"}

TxType == [pc : OnCourse \cup {"idle", "paths", "latch", "prepare", "commit"},
           todo : SUBSET Courses, course : Courses \cup {"none"},
           read : Course!Statuses \cup {"none"}, did : SUBSET Units, undid : SUBSET Units,
           status : [Courses -> Course!Statuses \cup {"none"}], awards : SUBSET Courses,
           stages : SUBSET Stages, latched : SUBSET Stages, prepared : BOOLEAN]

\* A transaction knows its course, and holds the enrollments of its awards.
Sane(r) ==
    /\ r \in TxType
    /\ r.pc \in OnCourse => r.course \in Courses
    /\ r.pc \in {"award", "insert"} => r.status[r.course] # "none"
    /\ \A c \in r.awards : r.status[c] # "none"

\* Two transactions hold no enrollment together.
Apart(r, o) == \A c \in Courses : r.status[c] = "none" \/ o.status[c] = "none"

CourseRows ==
    /\ done \subseteq Units
    /\ enrollment \in [Courses -> Course!Statuses]
    /\ award \subseteq Courses /\ latch \subseteq Stages
    /\ career \in Course!Statuses

Transactions ==
    /\ tx \in [Course!Txs -> TxType]
    /\ \A t \in Course!Txs : Sane(tx[t])
    /\ \A t, o \in Course!Txs : t # o => Apart(tx[t], tx[o])

CourseInv == CourseRows /\ Transactions /\ Course!AwardNeverRefused
-----------------------------------------------------------------------------
(* What a step leaves in its transaction *)

LEMMA IdleSane ==
  /\ Sane(Course!Idle) /\ Course!Idle.pc = "idle"
  /\ Course!Idle.status = [c \in Courses |-> "none"]
  /\ \A r \in TxType : Apart(Course!Idle, r)
  BY DEF Course!Idle, Sane, TxType, OnCourse, Course!Statuses, Apart

\* Going on to the next course keeps what was written.
LEMMA NextCourseSane ==
  ASSUME NEW r \in TxType, \A c \in r.awards : r.status[c] # "none"
  PROVE  /\ Sane(Course!NextCourse(r))
         /\ Course!NextCourse(r).status = r.status
         /\ Course!NextCourse(r).pc # "insert"
<1>1. CASE r.todo = {}
  BY <1>1 DEF Course!NextCourse, Sane, TxType, OnCourse
<1>2. CASE r.todo # {}
  <2> DEFINE d == CHOOSE d \in r.todo : TRUE
  <2>1. d \in r.todo /\ r.todo \subseteq Courses
    BY <1>2 DEF TxType
  <2>2. Course!NextCourse(r) = [r EXCEPT !.pc = "load", !.course = d, !.todo = @ \ {d},
                                  !.read = "none", !.stages = {}]
    BY <1>2 DEF Course!NextCourse
  <2> DEFINE s == [r EXCEPT !.pc = "load", !.course = d, !.todo = @ \ {d},
                            !.read = "none", !.stages = {}]
  <2> HIDE DEF d
  <2>3. s \in TxType
    BY <2>1 DEF TxType, OnCourse
  <2>4. /\ s.pc = "load" /\ s.course = d /\ s.status = r.status /\ s.awards = r.awards
    BY DEF TxType
  <2> HIDE DEF s
  <2>5. Course!NextCourse(r) = s
    BY <2>2 DEF s
  <2>6. QED
    BY <2>1, <2>3, <2>4, <2>5 DEF Sane
<1>3. QED
  BY <1>1, <1>2

\* A step that changes one transaction, and no award on which another one counts.
LEMMA OneMoves ==
  ASSUME CourseInv, CourseRows', NEW t \in Course!Txs, NEW r, Sane(r),
         \A o \in Course!Txs \ {t} : Apart(r, tx[o]),
         tx' = [tx EXCEPT ![t] = r],
         r.pc = "insert" => r.course \notin award',
         \A o \in Course!Txs \ {t} : tx[o].pc = "insert" => tx[o].course \notin award'
  PROVE  CourseInv'
<1> USE DEF CourseInv, Transactions
<1>1. r \in TxType
  BY DEF Sane
<1>2. /\ tx' \in [Course!Txs -> TxType] /\ tx'[t] = r
      /\ \A o \in Course!Txs \ {t} : tx'[o] = tx[o]
  BY <1>1
<1>3. \A o \in Course!Txs : Sane(tx'[o])
  BY <1>2
<1>4. \A o, p \in Course!Txs : o # p => Apart(tx'[o], tx'[p])
  BY <1>2 DEF Apart
<1>5. Course!AwardNeverRefused'
  BY <1>2 DEF Course!AwardNeverRefused
<1>6. QED
  BY <1>2, <1>3, <1>4, <1>5

\* A step that writes no enrollment and no award.
LEMMA OneMovesQuietly ==
  ASSUME CourseInv, CourseRows', UNCHANGED award, NEW t \in Course!Txs, NEW r, Sane(r),
         r.status = tx[t].status, r.pc = "insert" => r.course \notin award,
         tx' = [tx EXCEPT ![t] = r]
  PROVE  CourseInv'
<1>1. \A o \in Course!Txs \ {t} : Apart(r, tx[o])
  BY DEF CourseInv, Transactions, Apart
<1>2. \A o \in Course!Txs \ {t} : tx[o].pc = "insert" => tx[o].course \notin award
  BY DEF CourseInv, Course!AwardNeverRefused
<1>3. QED
  BY <1>1, <1>2, OneMoves

\* A transaction that begins or is rolled back holds nothing.
LEMMA Fresh ==
  ASSUME CourseInv, CourseRows', UNCHANGED award, NEW t \in Course!Txs, NEW r, Sane(r),
         r.status = Course!Idle.status, r.pc # "insert", tx' = [tx EXCEPT ![t] = r]
  PROVE  CourseInv'
<1>1. \A c \in Courses : r.status[c] = "none"
  BY IdleSane
<1>2. \A o \in Course!Txs \ {t} : Apart(r, tx[o])
  BY <1>1 DEF Apart
<1>3. \A o \in Course!Txs \ {t} : tx[o].pc = "insert" => tx[o].course \notin award
  BY DEF CourseInv, Course!AwardNeverRefused
<1>4. QED
  BY <1>2, <1>3, OneMoves

LEMMA RowsKept ==
  ASSUME CourseRows, UNCHANGED <<done, enrollment, award, latch, career>>
  PROVE  CourseRows'
  BY DEF CourseRows

LEMMA CourseInit == Course!Init => CourseInv
<1> SUFFICES ASSUME Course!Init PROVE CourseInv
  OBVIOUS
<1>1. CourseRows
  BY DEF Course!Init, CourseRows, Course!Statuses
<1>2. \A t \in Course!Txs : tx[t] = Course!Idle
  BY DEF Course!Init
<1>3. Transactions
  BY <1>2, IdleSane DEF Course!Init, Transactions, Sane
<1>4. Course!AwardNeverRefused
  BY <1>2, IdleSane DEF Course!AwardNeverRefused
<1>5. QED
  BY <1>1, <1>3, <1>4 DEF CourseInv
-----------------------------------------------------------------------------
(* The steps *)

\* Whatever starts a recomputation, and what changes rows without one.
LEMMA PeopleStep ==
  ASSUME CourseOf \in [Units -> Courses], CourseInv, Course!People
  PROVE  CourseInv'
<1> USE DEF CourseInv
<1>1. ASSUME NEW t \in Requests, NEW u \in Units, Course!Do(t, u) PROVE CourseInv'
  <2> DEFINE r == [Course!Idle EXCEPT !.pc = "load", !.course = CourseOf[u], !.did = {u}]
  <2>1. Sane(r) /\ r.status = Course!Idle.status /\ r.pc # "insert"
    BY IdleSane, ZenonT(30) DEF Sane, TxType, OnCourse, Course!Idle
  <2>2. CourseRows' /\ UNCHANGED award /\ t \in Course!Txs /\ tx' = [tx EXCEPT ![t] = r]
    BY <1>1, RowsKept DEF Course!Do, Course!Set, Course!Txs
  <2> HIDE DEF r
  <2>3. QED
    BY <2>1, <2>2, Fresh
<1>2. ASSUME NEW t \in Requests, NEW u \in Units, Course!Undo(t, u) PROVE CourseInv'
  <2> DEFINE r == [Course!Idle EXCEPT !.pc = "load", !.course = CourseOf[u], !.undid = {u}]
  <2>1. Sane(r) /\ r.status = Course!Idle.status /\ r.pc # "insert"
    BY IdleSane, ZenonT(30) DEF Sane, TxType, OnCourse, Course!Idle
  <2>2. CourseRows' /\ UNCHANGED award /\ t \in Course!Txs /\ tx' = [tx EXCEPT ![t] = r]
    BY <1>2, RowsKept DEF Course!Undo, Course!Set, Course!Txs
  <2> HIDE DEF r
  <2>3. QED
    BY <2>1, <2>2, Fresh
<1>3. ASSUME NEW t \in Requests, NEW u \in Units, Course!Verdict(t, u) PROVE CourseInv'
  <2> DEFINE r == [Course!Idle EXCEPT !.pc = "load", !.course = CourseOf[u]]
  <2>1. Sane(r) /\ r.status = Course!Idle.status /\ r.pc # "insert"
    BY IdleSane DEF Sane, TxType, OnCourse, Course!Idle
  <2>2. CourseRows' /\ UNCHANGED award /\ t \in Course!Txs /\ tx' = [tx EXCEPT ![t] = r]
    BY <1>3 DEF Course!Verdict, Course!Set, Course!Txs, CourseRows
  <2> HIDE DEF r
  <2>3. QED
    BY <2>1, <2>2, Fresh
<1>4. ASSUME NEW u \in Units, Course!Curriculum(u) PROVE CourseInv'
  BY <1>4 DEF Course!Curriculum, CourseRows, Transactions, Course!AwardNeverRefused
<1>5. ASSUME NEW c \in Courses, Course!Manage(c) PROVE CourseInv'
  BY <1>5 DEF Course!Manage, CourseRows, Transactions, Course!AwardNeverRefused,
     Course!Statuses
<1>6. QED
  BY <1>1, <1>2, <1>3, <1>4, <1>5 DEF Course!People

\* The enrollment's UPDATE waits until nobody else holds it; from then on it is held.
LEMMA PromoteStep ==
  ASSUME CourseInv, NEW t \in Course!Txs, Course!Promote(t)
  PROVE  CourseInv'
<1> USE DEF CourseInv
<1> DEFINE r == [tx[t] EXCEPT !.pc = "award", !.status[tx[t].course] = "completed"]
<1>1. tx[t] \in TxType /\ Sane(tx[t]) /\ tx[t].course \in Courses
  BY DEF Course!Promote, Transactions, Sane, OnCourse
<1>2. /\ r \in TxType /\ r.pc = "award"
      /\ r.course = tx[t].course /\ r.awards = tx[t].awards
      /\ r.status = [tx[t].status EXCEPT ![tx[t].course] = "completed"]
  BY <1>1 DEF TxType, OnCourse, Course!Statuses
<1>3. Sane(r)
  BY <1>1, <1>2 DEF Sane, TxType
<1>4. \A o \in Course!Txs \ {t} : Apart(tx[t], tx[o]) /\ tx[o].status[tx[t].course] = "none"
  BY DEF Course!Promote, Transactions, Course!Others, Course!HoldsEnrollment
<1>5. \A o \in Course!Txs \ {t} : Apart(r, tx[o])
  BY <1>1, <1>2, <1>4 DEF Apart, TxType
<1>6. CourseRows' /\ tx' = [tx EXCEPT ![t] = r] /\ UNCHANGED award
  BY RowsKept DEF Course!Promote, Course!Set
<1>7. \A o \in Course!Txs \ {t} : tx[o].pc = "insert" => tx[o].course \notin award
  BY DEF Course!AwardNeverRefused
<1> HIDE DEF r
<1>8. QED
  BY <1>2, <1>3, <1>5, <1>6, <1>7, OneMoves

LEMMA DemoteStep ==
  ASSUME CourseInv, NEW t \in Course!Txs, Course!Demote(t)
  PROVE  CourseInv'
<1> USE DEF CourseInv
<1> DEFINE s == [tx[t] EXCEPT !.status[tx[t].course] = "active"]
           r == Course!NextCourse(s)
<1>1. tx[t] \in TxType /\ Sane(tx[t]) /\ tx[t].course \in Courses
  BY DEF Course!Demote, Transactions, Sane, OnCourse
<1>2. /\ s \in TxType /\ s.awards = tx[t].awards
      /\ s.status = [tx[t].status EXCEPT ![tx[t].course] = "active"]
  BY <1>1 DEF TxType, Course!Statuses
<1>3. \A c \in s.awards : s.status[c] # "none"
  BY <1>1, <1>2 DEF Sane, TxType
<1>4. \A o \in Course!Txs \ {t} : Apart(tx[t], tx[o]) /\ tx[o].status[tx[t].course] = "none"
  BY DEF Course!Demote, Transactions, Course!Others, Course!HoldsEnrollment
<1>5. \A o \in Course!Txs \ {t} : Apart(s, tx[o])
  BY <1>1, <1>2, <1>4 DEF Apart, TxType
<1>6. CourseRows' /\ tx' = [tx EXCEPT ![t] = r] /\ UNCHANGED award
  BY RowsKept DEF Course!Demote, Course!Set
<1>7. \A o \in Course!Txs \ {t} : tx[o].pc = "insert" => tx[o].course \notin award
  BY DEF Course!AwardNeverRefused
<1> HIDE DEF s
<1>8. Sane(r) /\ r.status = s.status /\ r.pc # "insert"
  BY <1>2, <1>3, NextCourseSane
<1>9. \A o \in Course!Txs \ {t} : Apart(r, tx[o])
  BY <1>5, <1>8 DEF Apart
<1> HIDE DEF r
<1>10. QED
  BY <1>6, <1>7, <1>8, <1>9, OneMoves

\* The steps that write no enrollment: they read, grant the award or see to the path.
LEMMA QuietStep ==
  ASSUME CourseInv, NEW t \in Course!Txs,
         \/ Course!Load(t) \/ Course!Tally(t) \/ Course!LookForAward(t)
         \/ Course!Evaluate(t) \/ Course!Latch(t) \/ Course!Prepare(t)
           \/ Course!SyncRaises(t)
  PROVE  CourseInv'
<1> USE DEF CourseInv
<1> DEFINE r == tx'[t]
<1>1. tx[t] \in TxType /\ Sane(tx[t]) /\ \A c \in tx[t].awards : tx[t].status[c] # "none"
  BY DEF Transactions, Sane
<1>2. CourseRows' /\ UNCHANGED award
  BY RowsKept DEF Course!Load, Course!Tally, Course!LookForAward, Course!Evaluate,
     Course!Latch, Course!Prepare, Course!SyncRaises
<1>3. tx' = [tx EXCEPT ![t] = r]
  BY DEF Course!Load, Course!Tally, Course!LookForAward, Course!Evaluate, Course!Latch,
     Course!Prepare, Course!SyncRaises, Course!Set, Transactions
<1>4. /\ Sane(Course!NextCourse(tx[t])) /\ Course!NextCourse(tx[t]).status = tx[t].status
      /\ Course!NextCourse(tx[t]).pc # "insert"
  BY <1>1, NextCourseSane
<1>5. Sane(r) /\ r.status = tx[t].status /\ (r.pc = "insert" => r.course \notin award)
  <2>1. CASE r = Course!NextCourse(tx[t])
    BY <1>4, <2>1
  <2>2. CASE Course!Load(t) /\ r # Course!NextCourse(tx[t])
    <3>1. r = [tx[t] EXCEPT !.pc = "tally", !.read = Course!Status(t, tx[t].course)]
      BY <2>2 DEF Course!Load, Course!Set, Transactions
    <3>2. tx[t].course \in Courses /\ Course!Status(t, tx[t].course) \in Course!Statuses
      BY <1>1, <2>2 DEF Course!Load, Course!Status, Sane, OnCourse, TxType, CourseRows
    <3>3. QED
      BY <1>1, <3>1, <3>2, ZenonT(30) DEF Sane, TxType, OnCourse
  <2>3. CASE Course!Tally(t) /\ r # Course!NextCourse(tx[t])
    <3>1. r \in {[tx[t] EXCEPT !.pc = "promote"], [tx[t] EXCEPT !.pc = "demote"]}
      BY <2>3 DEF Course!Tally, Course!Set, Transactions
    <3>2. tx[t].course \in Courses
      BY <1>1, <2>3 DEF Course!Tally, Sane, OnCourse
    <3>3. QED
      BY <1>1, <3>1, <3>2 DEF Sane, TxType, OnCourse
  <2>4. CASE Course!LookForAward(t)
    <3>1. r = [tx[t] EXCEPT !.pc = IF tx[t].course \in award \cup tx[t].awards
                                   THEN "paths" ELSE "insert"]
      BY <2>4 DEF Course!LookForAward, Course!Set, Transactions
    <3>2. tx[t].pc = "award" /\ tx[t].course \in Courses
      BY <1>1, <2>4 DEF Course!LookForAward, Sane, OnCourse
    <3>3. QED
      BY <1>1, <3>1, <3>2 DEF Sane, TxType, OnCourse
  <2>5. CASE Course!Evaluate(t) /\ r # Course!NextCourse(tx[t])
    <3>1. r = [tx[t] EXCEPT !.pc = "latch",
                            !.stages = {s \in Stages : Course!Complete(t, s)}]
      BY <2>5 DEF Course!Evaluate, Course!Set, Transactions
    <3>2. QED
      BY <1>1, <3>1, ZenonT(30) DEF Sane, TxType, OnCourse
  <2>6. CASE Course!Latch(t)
    <3> DEFINE l == [tx[t] EXCEPT !.latched = @ \cup (tx[t].stages \ latch)]
    <3>1. r = [l EXCEPT !.pc = "prepare"] \/ r = Course!NextCourse(l)
      BY <2>6 DEF Course!Latch, Course!Set, Transactions
    <3>2. l \in TxType /\ l.awards = tx[t].awards /\ l.status = tx[t].status
      BY <1>1 DEF TxType
    <3>3. /\ Sane(Course!NextCourse(l)) /\ Course!NextCourse(l).status = l.status
          /\ Course!NextCourse(l).pc # "insert"
      BY <1>1, <3>2, NextCourseSane
    <3>4. Sane([l EXCEPT !.pc = "prepare"])
      BY <1>1, <3>2, ZenonT(30) DEF Sane, TxType, OnCourse
    <3> HIDE DEF l
    <3>5. CASE r = [l EXCEPT !.pc = "prepare"]
      BY <3>2, <3>4, <3>5 DEF TxType
    <3>6. QED
      BY <3>1, <3>2, <3>3, <3>5
  <2>7. CASE Course!Prepare(t)
    <3> DEFINE l == [tx[t] EXCEPT !.prepared = TRUE]
    <3>1. r = Course!NextCourse(l)
      BY <2>7 DEF Course!Prepare, Course!Set, Transactions
    <3>2. l \in TxType /\ l.awards = tx[t].awards /\ l.status = tx[t].status
      BY <1>1 DEF TxType
    <3> HIDE DEF l
    <3>3. QED
      BY <1>1, <3>1, <3>2, NextCourseSane
  <2>8. CASE Course!SyncRaises(t)
    BY <1>4, <2>8 DEF Course!SyncRaises, Course!Set, Transactions
  <2>9. QED
    BY <2>1, <2>2, <2>3, <2>4, <2>5, <2>6, <2>7, <2>8
<1> HIDE DEF r
<1>6. QED
  BY <1>2, <1>3, <1>5, OneMovesQuietly

\* Nobody inserted the award since the SELECT: the enrollment is held.
LEMMA InsertAwardStep ==
  ASSUME CourseInv, NEW t \in Course!Txs, Course!InsertAward(t)
  PROVE  CourseInv'
<1> USE DEF CourseInv
<1> DEFINE r == [tx[t] EXCEPT !.pc = "paths", !.awards = @ \cup {tx[t].course}]
<1>1. Sane(tx[t]) /\ tx[t].course \in Courses /\ tx[t].pc = "insert"
  BY DEF Course!InsertAward, Transactions, Sane, OnCourse
<1>2. tx[t].course \notin award
  BY <1>1 DEF Course!AwardNeverRefused
<1>3. tx' = [tx EXCEPT ![t] = r] /\ CourseRows' /\ UNCHANGED award
  BY <1>2, RowsKept DEF Course!InsertAward, Course!Set
<1>4. Sane(r) /\ r.status = tx[t].status /\ r.pc # "insert"
  BY <1>1 DEF Sane, TxType, OnCourse
<1> HIDE DEF r
<1>5. QED
  BY <1>3, <1>4, OneMovesQuietly

\* The awards of a commit are of courses it held, and so of nobody else's.
LEMMA CommitStep ==
  ASSUME CourseInv, NEW t \in Course!Txs, Course!Commit(t)
  PROVE  CourseInv'
<1> USE DEF CourseInv
<1>1. Sane(tx[t]) /\ tx[t] \in TxType
  BY DEF Transactions, Sane
<1>2. \A c \in Courses : Course!Status(t, c) \in Course!Statuses
  BY <1>1 DEF Course!Status, TxType, CourseRows
<1>3. CourseRows'
  BY <1>1, <1>2 DEF Course!Commit, CourseRows, Course!Seen, TxType, Course!Statuses
<1>4. \A o \in Course!Txs \ {t} : tx[o].pc = "insert" => tx[o].course \notin award'
  <2> SUFFICES ASSUME NEW o \in Course!Txs \ {t}, tx[o].pc = "insert",
                      tx[o].course \in tx[t].awards
               PROVE  FALSE
    BY DEF Course!AwardNeverRefused, Course!Commit
  <2>1. tx[o].course \in Courses /\ tx[o].status[tx[o].course] # "none"
    BY DEF Transactions, Sane, OnCourse
  <2>2. tx[t].status[tx[o].course] # "none" /\ Apart(tx[t], tx[o])
    BY <1>1 DEF Transactions, Sane
  <2>3. QED
    BY <2>1, <2>2 DEF Apart
<1>5. tx' = [tx EXCEPT ![t] = Course!Idle] /\ Sane(Course!Idle) /\ Course!Idle.pc # "insert"
  BY IdleSane DEF Course!Commit, Course!Set
<1>6. \A o \in Course!Txs \ {t} : Apart(Course!Idle, tx[o])
  BY IdleSane DEF Transactions
<1>7. QED
  BY <1>3, <1>4, <1>5, <1>6, OneMoves

LEMMA CronStep ==
  ASSUME CourseInv, Course!SweepBegin \/ Course!SnapshotBegin
  PROVE  CourseInv'
<1> USE DEF CourseInv
<1>1. CASE Course!SweepBegin
  <2> DEFINE s == [Course!Idle EXCEPT !.todo = {c \in Courses : enrollment[c] # "dropped"}]
  <2>1. s \in TxType /\ s.awards = {} /\ s.status = Course!Idle.status
    BY IdleSane DEF Sane, TxType, Course!Idle
  <2>2. tx' = [tx EXCEPT !["sweep"] = Course!NextCourse(s)] /\ CourseRows' /\ UNCHANGED award
    BY <1>1, RowsKept DEF Course!SweepBegin, Course!Set
  <2> HIDE DEF s
  <2>3. /\ Sane(Course!NextCourse(s)) /\ Course!NextCourse(s).status = Course!Idle.status
        /\ Course!NextCourse(s).pc # "insert"
    BY <2>1, NextCourseSane
  <2>4. QED
    BY <2>2, <2>3, Fresh DEF Course!Txs
<1>2. CASE Course!SnapshotBegin
  <2> DEFINE r == [Course!Idle EXCEPT !.pc = "paths"]
  <2>1. Sane(r) /\ r.status = Course!Idle.status /\ r.pc # "insert"
    BY IdleSane DEF Sane, TxType, OnCourse, Course!Idle
  <2>2. tx' = [tx EXCEPT !["snapshot"] = r] /\ CourseRows' /\ UNCHANGED award
    BY <1>2, RowsKept DEF Course!SnapshotBegin, Course!Set
  <2> HIDE DEF r
  <2>3. QED
    BY <2>1, <2>2, Fresh DEF Course!Txs
<1>3. QED
  BY <1>1, <1>2

LEMMA DiesStep ==
  ASSUME CourseInv, NEW t \in Course!Txs, Course!Dies(t)
  PROVE  CourseInv'
<1>1. CourseRows' /\ UNCHANGED award /\ tx' = [tx EXCEPT ![t] = Course!Idle]
  BY RowsKept DEF CourseInv, Course!Dies, Course!Set
<1>2. QED
  BY <1>1, IdleSane, Fresh

LEMMA CourseStep ==
  ASSUME CourseOf \in [Units -> Courses], CourseInv, [Course!Next]_Course!vars
  PROVE  CourseInv'
<1>1. CASE Course!People
  BY <1>1, PeopleStep
<1>2. ASSUME NEW t \in Course!Txs, Course!Sync(t) \/ Course!SyncRaises(t) \/ Course!Dies(t)
      PROVE  CourseInv'
  BY <1>2, QuietStep, PromoteStep, DemoteStep, InsertAwardStep, CommitStep, DiesStep
     DEF Course!Sync
<1>3. CASE Course!SweepBegin \/ Course!SnapshotBegin
  BY <1>3, CronStep
<1>4. CASE UNCHANGED Course!vars
  BY <1>4 DEF Course!vars, CourseInv, CourseRows, Transactions, Course!AwardNeverRefused
<1>5. QED
  BY <1>1, <1>2, <1>3, <1>4 DEF Course!Next
-----------------------------------------------------------------------------
(* The theorems on courses *)

\* What the transactions have read and written, and the invariant that a course's
\* award and its status are written by one transaction at a time.
THEOREM CourseInvariant ==
  ASSUME CourseOf \in [Units -> Courses]
  PROVE  Course!Spec => []CourseInv
<1>1. CourseInv /\ [Course!Next]_Course!vars => CourseInv'
  BY CourseStep
<1>2. QED
  BY <1>1, CourseInit, PTL DEF Course!Spec

\* Rows and transactions keep their types (CourseCompletion's TypeOK).
THEOREM CourseTypes ==
  ASSUME CourseOf \in [Units -> Courses]
  PROVE  Course!Spec => []Course!TypeOK
<1>1. CourseInv => Course!TypeOK
  BY DEF CourseInv, CourseRows, Transactions, TxType, Course!TypeOK
<1>2. QED
  BY <1>1, CourseInvariant, PTL

-----------------------------------------------------------------------------
(* OverdueSweep *)

SweepType ==
    [pc : {"idle", "running"}, todo : SUBSET Batch!Attempts, due : SUBSET Batch!Attempts,
     closing : Batch!Attempts \cup {0}, flushed : SUBSET Batch!Attempts,
     fresh : SUBSET Batch!Attempts]

BatchRows ==
    /\ status \in [Batch!Attempts -> {"absent", "in_progress", "submitted"}]
    /\ timed \subseteq Batch!Attempts /\ overdue \subseteq timed
    /\ graded \subseteq Batch!Attempts
    /\ \A n \in Batch!Attempts : status[n] = "submitted" => n \in graded

\* What a batch has closed was overdue when it began.
BatchTaken ==
    /\ sweep \in SweepType
    /\ sweep.due \subseteq overdue /\ sweep.flushed \subseteq sweep.due
    /\ sweep.fresh \subseteq sweep.flushed

\* Of the grades a batch is to insert, nobody else has inserted any but that of the attempt
\* in hand: for the others the unique index makes them wait.
BatchAlone == sweep.fresh \cap graded \subseteq {sweep.closing}

BatchInv == BatchRows /\ BatchTaken /\ BatchAlone

LEMMA BatchInit == Batch!Init => BatchInv
<1> SUFFICES ASSUME Batch!Init PROVE BatchInv
  OBVIOUS
<1>1. Batch!NoSweep \in SweepType /\ Batch!NoSweep.due = {} /\ Batch!NoSweep.flushed = {}
      /\ Batch!NoSweep.fresh = {}
  BY DEF Batch!NoSweep, SweepType
<1>2. QED
  BY <1>1 DEF Batch!Init, BatchInv, BatchRows, BatchTaken, BatchAlone

\* Students, teachers and time.
LEMMA BatchPeople ==
  ASSUME BatchInv, NEW n \in Batch!Attempts,
         \/ \E limit \in BOOLEAN : Batch!Start(n, limit)
         \/ Batch!DeadlinePasses(n) \/ Batch!Submit(n) \/ Batch!FirstGrade(n)
  PROVE  BatchInv'
<1> USE DEF BatchInv
<1>1. sweep' = sweep /\ overdue \subseteq overdue'
  BY DEF Batch!Start, Batch!DeadlinePasses, Batch!Submit, Batch!FirstGrade
<1>2. BatchRows'
  BY DEF BatchRows, Batch!Start, Batch!DeadlinePasses, Batch!Submit, Batch!FirstGrade,
         Batch!Started
<1>3. graded' = graded \/ (graded' = graded \cup {n} /\ (n \in sweep.flushed => n = sweep.closing))
  BY DEF Batch!Start, Batch!DeadlinePasses, Batch!Submit, Batch!FirstGrade, Batch!Locked
<1>4. BatchTaken' /\ BatchAlone'
  BY <1>1, <1>3 DEF BatchTaken, BatchAlone
<1>5. QED
  BY <1>2, <1>4

LEMMA BatchSweeps ==
  ASSUME BatchInv, Batch!Sweep
  PROVE  BatchInv'
<1> USE DEF BatchInv
<1>1. 0 \notin graded
  BY DEF BatchRows, Batch!Attempts
<1>2. Batch!NoSweep \in SweepType /\ Batch!NoSweep.due = {} /\ Batch!NoSweep.flushed = {}
      /\ Batch!NoSweep.fresh = {}
  BY DEF Batch!NoSweep, SweepType
<1>3. CASE Batch!SweepBegin
  <2>1. Batch!Candidates \subseteq Batch!Attempts
    BY DEF Batch!Candidates
  <2>2. overdue \subseteq Batch!Attempts
    BY DEF BatchRows
  <2>3. /\ sweep' \in SweepType /\ sweep'.due = overdue /\ sweep'.flushed = {}
        /\ sweep'.fresh = {}
    BY <1>2, <1>3, <2>1, <2>2 DEF Batch!SweepBegin, SweepType, Batch!NoSweep
  <2>4. QED
    BY <1>3, <2>3 DEF Batch!SweepBegin, BatchRows, BatchTaken, BatchAlone
<1>4. ASSUME NEW n \in Batch!Attempts, Batch!SweepSkip(n) PROVE BatchInv'
  BY <1>4 DEF Batch!SweepSkip, BatchRows, BatchTaken, BatchAlone, SweepType
<1>5. ASSUME NEW n \in Batch!Attempts, Batch!SweepFinalize(n) PROVE BatchInv'
  <2>1. sweep.closing = 0 /\ n \in sweep.due
    BY <1>5 DEF Batch!SweepFinalize, Batch!Looking
  <2>2. /\ sweep' \in SweepType /\ sweep'.due = sweep.due /\ sweep'.closing = n
        /\ sweep'.flushed = sweep.flushed \cup {n}
        /\ sweep'.fresh \in {sweep.fresh, sweep.fresh \cup {n}}
    BY <1>5 DEF Batch!SweepFinalize, BatchTaken, SweepType
  <2>3. sweep.fresh \cap graded = {}
    BY <1>1, <2>1 DEF BatchAlone
  <2>4. sweep'.fresh \subseteq sweep'.flushed
    BY <2>2 DEF BatchTaken, SweepType
  <2>5. UNCHANGED <<status, timed, overdue, graded>>
    BY <1>5 DEF Batch!SweepFinalize
  <2>6. QED
    BY <2>1, <2>2, <2>3, <2>4, <2>5 DEF BatchRows, BatchTaken, BatchAlone
<1>6. CASE Batch!SweepRecord
  BY <1>6 DEF Batch!SweepRecord, BatchRows, BatchTaken, BatchAlone, SweepType
<1>7. CASE Batch!SweepConflict
  BY <1>2, <1>7 DEF Batch!SweepConflict, BatchRows, BatchTaken, BatchAlone
<1>8. CASE Batch!SweepCommit
  <2>1. BatchRows'
    BY <1>8 DEF Batch!SweepCommit, BatchRows, BatchTaken, SweepType
  <2>2. QED
    BY <1>2, <1>8, <2>1 DEF Batch!SweepCommit, BatchTaken, BatchAlone
<1>9. QED
  BY <1>3, <1>4, <1>5, <1>6, <1>7, <1>8 DEF Batch!Sweep

LEMMA BatchStep ==
  ASSUME BatchInv, [Batch!Next]_Batch!vars
  PROVE  BatchInv'
<1>1. CASE UNCHANGED Batch!vars
  BY <1>1 DEF Batch!vars, BatchInv, BatchRows, BatchTaken, BatchAlone
<1>2. QED
  BY <1>1, BatchPeople, BatchSweeps DEF Batch!Next

-----------------------------------------------------------------------------
(* The records *)

\* A step of the records is one of the courses, or leaves them alone.
LEMMA CoursePart ==
  /\ RecordsInit => Course!Init
  /\ [RecordsNext]_allVars => [Course!Next]_Course!vars
  BY DEF RecordsInit, RecordsNext, allVars, completionVars, Course!vars

\* And one of the programs, or leaves those alone.
LEMMA ProgramPart == RecordsSpec => Spec
<1>1. RecordsInit => Init
  BY DEF RecordsInit
<1>2. [RecordsNext]_allVars => [Next]_vars
  BY DEF RecordsNext, allVars
<1>3. QED
  BY <1>1, <1>2, PTL DEF RecordsSpec, Spec

\* However many requests, jobs and crons recompute a student's courses at once, no
\* INSERT of an award is refused: nobody's grade or lesson is rolled back with it
\* (ensure_completion_award, "must not fail because a downstream completion side-effect").
THEOREM AwardNeverRefusedInvariant ==
  ASSUME CourseOf \in [Units -> Courses]
  PROVE  RecordsSpec => []AwardNeverRefused
<1>1. RecordsInit => CourseInv
  BY CoursePart, CourseInit
<1>2. CourseInv /\ [RecordsNext]_allVars => CourseInv'
  BY CoursePart, CourseStep
<1>3. CourseInv => AwardNeverRefused
  BY DEF CourseInv, AwardNeverRefused
<1>4. QED
  BY <1>1, <1>2, <1>3, PTL DEF RecordsSpec

\* A step of the records is one of the overdue batch, or leaves it alone.
LEMMA BatchPart ==
  /\ RecordsInit => Batch!Init
  /\ [RecordsNext]_allVars => [Batch!Next]_Batch!vars
  BY DEF RecordsInit, RecordsNext, allVars, batchVars, Batch!vars

\* The batch closes attempts that are overdue and no other, leaves no closed attempt
\* without a grade, and none of the grades it commits was inserted by somebody else in the
\* meantime: the conflict that rolls the batch back is met, if at all, before the commit
\* (sweep_overdue, flush_or_conflict).
THEOREM BatchSound ==
  RecordsSpec => []/\ sweep.flushed \subseteq overdue
                   /\ sweep.closing = 0 => sweep.fresh \cap graded = {}
                   /\ \A n \in Batch!Attempts : status[n] = "submitted" => n \in graded
<1>1. RecordsInit => BatchInv
  BY BatchPart, BatchInit
<1>2. BatchInv /\ [RecordsNext]_allVars => BatchInv'
  BY BatchPart, BatchStep
<1>3. BatchInv => /\ sweep.flushed \subseteq overdue
                  /\ sweep.closing = 0 => sweep.fresh \cap graded = {}
                  /\ \A n \in Batch!Attempts : status[n] = "submitted" => n \in graded
  BY DEF BatchInv, BatchRows, BatchTaken, BatchAlone, Batch!Attempts
<1>4. QED
  BY <1>1, <1>2, <1>3, PTL DEF RecordsSpec

\* What the programs promise holds whatever becomes of the courses and the attempts.
THEOREM RecordsKept ==
  RecordsSpec => [](ActiveHasPath /\ WithdrawnRunsNothing /\ AccessHeld)
  BY ProgramPart, ActiveHasPathAlways, WithdrawnRunsNothingAlways, AccessHeldAlways, PTL
=============================================================================
