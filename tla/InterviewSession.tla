-------------------------- MODULE InterviewSession --------------------------
(* One student's sessions of one interview over REST: starting one              *)
(* (services/taking.start_session, services/retake), its onboarding             *)
(* (services/onboarding.respond), its turns (taking.take_session_step on the     *)
(* sequential path, with the version check of orchestrator/repository) and its   *)
(* end.  A browser tab sends a request with an idempotency key, sends it again   *)
(* while it has no answer, and goes on from what it was told.  Nothing is locked *)
(* when a session is read; unique indexes and the version of the runtime row are *)
(* all that separates two requests.                                             *)
(*                                                                             *)
(* A transaction reads committed rows; what it will commit is in its record and  *)
(* the rows it has flushed are locked until then.                               *)
EXTENDS Integers, Sequences, FiniteSets

CONSTANTS Tabs,          \* browser tabs of the student
          Starts,        \* requests to start, at the same time
          Requests,      \* turns and onboarding replies, at the same time
          NoTab,
          LastQuestion,  \* the approved questions are 1 .. LastQuestion, by position
          LastStage,     \* onboarding_stage "completed"; the stage before is "readiness"
          MaxAttempts,   \* max_attempts of the interview
          MaxFollowUps,  \* max_follow_ups_per_question
          MaxSessions,   \* bound: attempt_number
          MaxKeys,       \* bound: idempotency keys the tabs make up
          MaxFaults      \* bound: requests that fail on their way

VARIABLES session,  \* committed interview_sessions rows by attempt_number, and what is theirs
          start,    \* transactions of start_session
          request,  \* transactions of /respond and /onboarding/respond
          tab,      \* what each tab shows and waits for
          keys,     \* idempotency keys made up so far
          faults

vars == <<session, start, request, tab, keys, faults>>

SessionIds == 1 .. MaxSessions
Keys == 1 .. MaxKeys

\* asked: interview_session_questions in the order of sequence_no; answered: the
\* places in it that have an answer.  said: turn keys of user messages.  announced:
\* stages with their ceremony message.  version: state_version, from 1; 0 while
\* there is no runtime row.
NoSession == [status |-> "absent", key |-> 0, stage |-> 0, announced |-> {0},
              asked |-> <<>>, answered |-> {}, said |-> {},
              followups |-> [q \in 1 .. LastQuestion |-> 0], version |-> 0, lastKey |-> 0]
NoStart == [pc |-> "idle", tab |-> NoTab, key |-> 0, number |-> 0]
NoRequest == [pc |-> "idle", tab |-> NoTab, session |-> 0, key |-> 0, shown |-> 0,
              kind |-> "answer", version |-> 0, saved |-> FALSE, next |-> 0, number |-> 0,
              announce |-> FALSE, stage |-> 0]
NoPage == [start |-> 0, session |-> 0, stage |-> 0, place |-> 0, key |-> 0]

Init ==
    /\ session = [n \in SessionIds |-> NoSession]
    /\ start = [s \in Starts |-> NoStart]
    /\ request = [p \in Requests |-> NoRequest]
    /\ tab = [t \in Tabs |-> NoPage]
    /\ keys = 0
    /\ faults = 0

Live(n) == session[n].status = "in_progress"
Ended(n) == session[n].status = "ended"

-----------------------------------------------------------------------------
(* The tab *)

\* What a tab shows of a session: the stage of its onboarding and the place of the
\* current question.
Page(n) == [NoPage EXCEPT !.session = n, !.stage = session[n].stage,
                          !.place = Len(session[n].asked)]

\* A request ends.  Its answer is lost, or its tab goes on from the page it is told;
\* a tab that waits for another key by now ignores it.
Answer(p, page) ==
    LET t == request[p].tab IN
    /\ request' = [request EXCEPT ![p] = NoRequest]
    /\ tab' \in {tab} \cup IF tab[t].key = request[p].key THEN {[tab EXCEPT ![t] = page]} ELSE {}

\* A request ends in an error its tab answers by sending it again, if it hears of it.
Abort(p) == /\ request' = [request EXCEPT ![p] = NoRequest]
            /\ UNCHANGED tab

Proceed(p, fields) == /\ request' = [request EXCEPT ![p] = fields]
                      /\ UNCHANGED tab

\* The student asks for a session: the first, or another when the last has ended.
NewStart(t) ==
    /\ tab[t].start = 0 /\ tab[t].key = 0
    /\ tab[t].session # 0 => Ended(tab[t].session)
    /\ keys < MaxKeys
    /\ keys' = keys + 1
    /\ tab' = [tab EXCEPT ![t].start = keys + 1]
    /\ UNCHANGED <<session, start, request, faults>>

\* The first copy of the start request, or one more.
SendStart(t, s) ==
    /\ tab[t].start # 0 /\ start[s].pc = "idle"
    /\ start' = [start EXCEPT ![s] = [NoStart EXCEPT !.pc = "sent", !.tab = t,
                                                     !.key = tab[t].start]]
    /\ UNCHANGED <<session, request, tab, keys, faults>>

\* A reply to the onboarding or an answer to the question shown, with a new key; or,
\* while it has not been answered, one more copy of it.
Send(t, p) ==
    LET again == tab[t].key # 0
        key == IF again THEN tab[t].key ELSE keys + 1
        setup == tab[t].stage # LastStage
    IN /\ tab[t].session # 0 /\ tab[t].start = 0
       /\ request[p].pc = "idle"
       /\ again \/ keys < MaxKeys
       /\ keys' = IF again THEN keys ELSE keys + 1
       /\ tab' = [tab EXCEPT ![t].key = key]
       /\ request' = [request EXCEPT ![p] =
            [NoRequest EXCEPT !.pc = "sent", !.tab = t, !.session = tab[t].session, !.key = key,
                              !.kind = IF setup THEN "onboarding" ELSE "answer",
                              !.shown = IF setup THEN tab[t].stage ELSE tab[t].place]]
       /\ UNCHANGED <<session, start, faults>>

-----------------------------------------------------------------------------
(* start_session *)

\* The start ends with session n (0: an error), and its tab goes on from there.
Entered(s, n) ==
    LET t == start[s].tab IN
    /\ start' = [start EXCEPT ![s] = NoStart]
    /\ tab' \in {tab} \cup IF n # 0 /\ tab[t].start = start[s].key
                             THEN {[tab EXCEPT ![t] = Page(n)]} ELSE {}
    /\ UNCHANGED <<session, request, keys, faults>>

Advances(s, fields) == /\ start' = [start EXCEPT ![s] = fields]
                       /\ UNCHANGED <<session, request, tab, keys, faults>>

\* get_session_by_idempotency_key: the session this key made, live or not.
StartKeyed(s) ==
    /\ start[s].pc = "sent"
    /\ LET made == {n \in SessionIds : session[n].key = start[s].key} IN
       \/ \E n \in made : Entered(s, n)
       \/ made = {} /\ Advances(s, [start[s] EXCEPT !.pc = "unknown"])

\* get_active_session
StartActive(s) ==
    /\ start[s].pc = "unknown"
    /\ \/ \E n \in SessionIds : Live(n) /\ Entered(s, n)
       \/ (\A n \in SessionIds : ~Live(n)) /\ Advances(s, [start[s] EXCEPT !.pc = "inactive"])

\* _enforce_retake_policy: no session is left, or another may be made.
StartGate(s) ==
    /\ start[s].pc = "inactive"
    /\ IF Cardinality({n \in SessionIds : Ended(n)}) >= MaxAttempts
         THEN /\ start' = [start EXCEPT ![s] = NoStart]
              /\ tab' = [tab EXCEPT ![start[s].tab].start = IF @ = start[s].key THEN 0 ELSE @]
              /\ UNCHANGED <<session, request, keys, faults>>
         ELSE Advances(s, [start[s] EXCEPT !.pc = "allowed"])

\* get_session_attempt_number: MAX(attempt_number) + 1.
StartNumber(s) ==
    LET used == {n \in SessionIds : session[n].status # "absent"} IN
    /\ start[s].pc = "allowed"
    /\ Cardinality(used) < MaxSessions
    /\ Advances(s, [start[s] EXCEPT !.pc = "numbered", !.number = Cardinality(used) + 1])

\* The INSERT waits for one with the same number or key that is not committed.
StartFree(s) ==
    \A o \in Starts \ {s} : start[o].pc = "inserted" =>
        start[o].number # start[s].number /\ start[o].key # start[s].key

\* Mutant: the key of a start is not unique.
StartInsertUnkeyed(s) ==
    /\ start[s].pc = "numbered"
    /\ \A o \in Starts \ {s} : start[o].pc = "inserted" => start[o].number # start[s].number
    /\ IF session[start[s].number].status # "absent"
         THEN \/ \E n \in SessionIds : Live(n) /\ Entered(s, n)
              \/ (\A n \in SessionIds : ~Live(n)) /\ Entered(s, 0)
         ELSE Advances(s, [start[s] EXCEPT !.pc = "inserted"])

\* The loser of a number returns the session the winner started, if it is live yet;
\* the loser of a key raises.
StartInsert(s) ==
    /\ start[s].pc = "numbered"
    /\ StartFree(s)
    /\ IF session[start[s].number].status # "absent"
         THEN \/ \E n \in SessionIds : Live(n) /\ Entered(s, n)
              \/ (\A n \in SessionIds : ~Live(n)) /\ Entered(s, 0)
       ELSE IF \E n \in SessionIds : session[n].key = start[s].key THEN Entered(s, 0)
       ELSE Advances(s, [start[s] EXCEPT !.pc = "inserted"])

\* The row and its first question.
StartCommit(s) ==
    LET n == start[s].number  t == start[s].tab IN
    /\ start[s].pc = "inserted"
    /\ session' = [session EXCEPT ![n] = [NoSession EXCEPT !.status = "in_progress",
                                            !.key = start[s].key, !.asked = <<1>>]]
    /\ start' = [start EXCEPT ![s] = NoStart]
    /\ tab' \in {tab} \cup IF tab[t].start = start[s].key
                             THEN {[tab EXCEPT ![t] = [NoPage EXCEPT !.session = n, !.place = 1]]}
                             ELSE {}
    /\ UNCHANGED <<request, keys, faults>>

\* The connection, the process or the database fails before the commit.
StartFails(s) ==
    /\ start[s].pc # "idle" /\ faults < MaxFaults
    /\ faults' = faults + 1
    /\ start' = [start EXCEPT ![s] = NoStart]
    /\ UNCHANGED <<session, request, tab, keys>>

-----------------------------------------------------------------------------
(* A turn *)

Step == UNCHANGED <<session, start, keys, faults>>

\* Others of the same session.
Rivals(p) == {o \in Requests \ {p} : request[o].session = request[p].session}

\* take_session_step reads the session and its current question: an error, the
\* question the session has gone on to, or the turn is bound to it.
TurnLoad(p) ==
    LET n == request[p].session IN
    /\ request[p].pc = "sent" /\ request[p].kind = "answer"
    /\ IF Live(n) /\ session[n].stage = LastStage /\ Len(session[n].asked) = request[p].shown
         THEN Proceed(p, [request[p] EXCEPT !.pc = "bound"])
         ELSE Answer(p, Page(n))
    /\ Step

\* load_or_init and the replay of the last turn.
TurnState(p) ==
    LET s == session[request[p].session] IN
    /\ request[p].pc = "bound"
    /\ \/ s.version = 0 /\ Proceed(p, [request[p] EXCEPT !.pc = "creating"])
       \/ s.version # 0 /\ s.lastKey = request[p].key /\ Answer(p, Page(request[p].session))
       \/ /\ s.version # 0 /\ s.lastKey # request[p].key
          /\ Proceed(p, [request[p] EXCEPT !.pc = "loaded", !.version = s.version])
    /\ Step

\* What the turn is: an answer, or a request for a hint, for the end and so on.
Assessed(p, saved, kinds) ==
    \E kind \in kinds :
        Proceed(p, [request[p] EXCEPT !.pc = "assessed", !.saved = saved, !.kind = kind])

\* The first turn inserts the runtime row, which two cannot: the loser's
\* transaction is lost, although the stage that failed is made up for.
TurnCreate(p) ==
    /\ request[p].pc = "creating"
    /\ \A o \in Rivals(p) : ~request[o].saved
    /\ IF session[request[p].session].version # 0 THEN Abort(p)
                                                  ELSE Assessed(p, TRUE, {"answer", "control"})
    /\ Step

\* save: the UPDATE waits for the row and tests the version.  When it is stale
\* the stage fails, and the guard in its shadow mode takes the turn for an answer.
TurnSave(p) ==
    /\ request[p].pc = "loaded"
    /\ \A o \in Rivals(p) : ~request[o].saved
    /\ IF session[request[p].session].version = request[p].version
         THEN Assessed(p, TRUE, {"answer", "control"})
         ELSE Assessed(p, FALSE, {"answer"})
    /\ Step

\* The user message is flushed; the index on its key waits for one not committed
\* and refuses one that is.
Unsaid(p) == \A o \in Rivals(p) : request[o].key = request[p].key =>
                request[o].pc \notin {"recorded", "advancing", "chosen", "numbered", "done",
                                     "decided", "looked", "written"}
Said(p) == request[p].key \in session[request[p].session].said

\* Mutant: the key of a turn is not unique.
TurnRecordAgain(p) ==
    /\ request[p].pc = "assessed"
    /\ Proceed(p, [request[p] EXCEPT
                     !.pc = IF request[p].kind = "control" THEN "done" ELSE "recorded"])
    /\ Step

TurnRecord(p) ==
    /\ request[p].pc = "assessed"
    /\ Unsaid(p)
    /\ IF Said(p) THEN Abort(p)
       ELSE Proceed(p, [request[p] EXCEPT
                          !.pc = IF request[p].kind = "control" THEN "done" ELSE "recorded"])
    /\ Step

\* maybe_generate_followup: while there may be one more, the model decides.
TurnFollowUp(p) ==
    LET s == session[request[p].session] IN
    /\ request[p].pc = "recorded"
    /\ \/ /\ s.followups[s.asked[request[p].shown]] < MaxFollowUps
          /\ Proceed(p, [request[p] EXCEPT !.pc = "done", !.kind = "followup"])
       \/ Proceed(p, [request[p] EXCEPT !.pc = "advancing"])
    /\ Step

\* _next_published_question_after: the first not asked; when there is none the turn
\* says the interview is finished.
TurnNext(p) ==
    LET s == session[request[p].session]
        left == (1 .. LastQuestion) \ {s.asked[i] : i \in DOMAIN s.asked}
    IN /\ request[p].pc = "advancing"
       /\ \/ left = {} /\ Proceed(p, [request[p] EXCEPT !.pc = "done"])
          \/ \E q \in left : /\ \A o \in left : q <= o
                            /\ Proceed(p, [request[p] EXCEPT !.pc = "chosen", !.next = q])
       /\ Step

\* _next_session_sequence, after the transition message.
TurnNumber(p) ==
    /\ request[p].pc = "chosen"
    /\ Proceed(p, [request[p] EXCEPT !.pc = "numbered",
                                     !.number = Len(session[request[p].session].asked) + 1])
    /\ Step

\* The INSERT of the next question; a number is taken once in a session.
TurnAttach(p) ==
    /\ request[p].pc = "numbered"
    /\ \A o \in Rivals(p) : ~(/\ request[o].pc = "done" /\ request[o].next # 0
                              /\ request[o].number = request[p].number)
    /\ IF Len(session[request[p].session].asked) >= request[p].number
         THEN Abort(p)
         ELSE Proceed(p, [request[p] EXCEPT !.pc = "done"])
    /\ Step

\* What a turn commits: its message, its follow-up or the next question, and the
\* runtime row if it could save it.
AfterTurn(r, s) ==
    [s EXCEPT !.said = @ \cup {r.key},
              !.answered = IF r.kind = "control" THEN @ ELSE @ \cup {r.shown},
              !.followups[s.asked[r.shown]] = IF r.kind = "followup" THEN @ + 1 ELSE @,
              !.asked = IF r.next = 0 THEN @ ELSE Append(@, r.next),
              !.version = IF r.saved THEN r.version + 1 ELSE @,
              !.lastKey = IF r.saved THEN r.key ELSE @]

\* The page a tab is told by a transaction that leaves the session as s.
PageAfter(n, s) ==
    [NoPage EXCEPT !.session = n, !.stage = s.stage, !.place = Len(s.asked)]

Committed(p, s) ==
    LET n == request[p].session IN
    /\ session' = [session EXCEPT ![n] = s]
    /\ Answer(p, PageAfter(n, s))
    /\ UNCHANGED <<start, keys, faults>>

TurnCommit(p) ==
    /\ request[p].pc = "done" /\ request[p].kind # "onboarding"
    /\ Committed(p, AfterTurn(request[p], session[request[p].session]))

-----------------------------------------------------------------------------
(* The onboarding *)

\* respond: the session, the key and the stage it is at.
OnboardLoad(p) ==
    LET n == request[p].session IN
    /\ request[p].pc = "sent" /\ request[p].kind = "onboarding"
    /\ IF Live(n) /\ ~Said(p) /\ session[n].stage = request[p].shown
         THEN Proceed(p, [request[p] EXCEPT !.pc = "heard"])
         ELSE Answer(p, Page(n))
    /\ Step

\* Mutant: the key of a reply is not unique.
OnboardRecordAgain(p) ==
    /\ request[p].pc = "heard"
    /\ \E stage \in {request[p].shown, request[p].shown + 1} :
         Proceed(p, [request[p] EXCEPT !.pc = IF stage = request[p].shown THEN "done" ELSE "decided",
                                       !.stage = stage])
    /\ Step

\* The reply is flushed and decides the stage: this one again, the next, or the
\* readiness check.  The loser of a key answers with the session as it is.
OnboardRecord(p) ==
    LET shown == request[p].shown
        targets == {shown, shown + 1} \cup IF shown < LastStage - 1 THEN {LastStage - 1} ELSE {}
    IN /\ request[p].pc = "heard"
       /\ Unsaid(p)
       /\ IF Said(p) THEN Answer(p, Page(request[p].session))
          ELSE \E stage \in targets :
                 Proceed(p, [request[p] EXCEPT !.pc = IF stage = shown THEN "done" ELSE "decided",
                                               !.stage = stage])
       /\ Step

\* _existing_message: has the new stage been announced?
OnboardLook(p) ==
    /\ request[p].pc = "decided"
    /\ Proceed(p, [request[p] EXCEPT !.pc = "looked",
                 !.announce = request[p].stage \notin session[request[p].session].announced])
    /\ Step

\* The UPDATE of the session waits for its row; the INSERT of the announcement
\* fails when there is one by now.
OnboardWrite(p) ==
    /\ request[p].pc = "looked"
    /\ \A o \in Rivals(p) : request[o].pc # "written"
    /\ IF request[p].announce /\ request[p].stage \in session[request[p].session].announced
         THEN Abort(p)
         ELSE Proceed(p, [request[p] EXCEPT !.pc = "written"])
    /\ Step

\* The stage it decided replaces the one there is, whichever that is.
AfterOnboarding(r, s) ==
    [s EXCEPT !.said = @ \cup {r.key},
              !.stage = IF r.pc = "written" THEN r.stage ELSE @,
              !.announced = IF r.pc = "written" THEN @ \cup {r.stage} ELSE @]

OnboardCommit(p) ==
    /\ request[p].kind = "onboarding" /\ request[p].pc \in {"done", "written"}
    /\ Committed(p, AfterOnboarding(request[p], session[request[p].session]))

RequestFails(p) ==
    /\ request[p].pc # "idle" /\ faults < MaxFaults
    /\ faults' = faults + 1
    /\ Abort(p)
    /\ UNCHANGED <<session, start, keys>>

\* The student, the deadline or the agent ends it: terminalize_in_progress_session.
Finish(n) ==
    /\ Live(n)
    /\ \A p \in Requests : request[p].session = n => request[p].pc # "written"
    /\ session' = [session EXCEPT ![n].status = "ended"]
    /\ UNCHANGED <<start, request, tab, keys, faults>>

-----------------------------------------------------------------------------
Next ==
    \/ \E t \in Tabs : NewStart(t)
    \/ \E t \in Tabs, s \in Starts : SendStart(t, s)
    \/ \E t \in Tabs, p \in Requests : Send(t, p)
    \/ \E s \in Starts : \/ StartKeyed(s) \/ StartActive(s) \/ StartGate(s)
                         \/ StartNumber(s) \/ StartInsert(s) \/ StartCommit(s) \/ StartFails(s)
    \/ \E p \in Requests :
         \/ TurnLoad(p) \/ TurnState(p) \/ TurnCreate(p) \/ TurnSave(p) \/ TurnRecord(p)
         \/ TurnFollowUp(p) \/ TurnNext(p) \/ TurnNumber(p) \/ TurnAttach(p) \/ TurnCommit(p)
         \/ OnboardLoad(p) \/ OnboardRecord(p) \/ OnboardLook(p) \/ OnboardWrite(p)
         \/ OnboardCommit(p) \/ RequestFails(p)
    \/ \E n \in SessionIds : Finish(n)

Spec == Init /\ [][Next]_vars

-----------------------------------------------------------------------------
(* Properties *)

\* A student has at most one session in progress of an interview (start_session),
\* whatever starts are sent again while others are still on their way.
OneLive == Cardinality({n \in SessionIds : Live(n)}) <= 1

\* A session goes past a question only when it has been answered, and asks none
\* twice (StaleSessionQuestionError, the unique sequence_no): no copy of a turn moves
\* it once more.
NoQuestionSkipped ==
    \A n \in SessionIds :
        LET s == session[n] IN
        /\ \A i \in 1 .. Len(s.asked) - 1 : i \in s.answered
        /\ \A i, j \in DOMAIN s.asked : s.asked[i] = s.asked[j] => i = j

\* The setup never goes back, not even when a reply sent again is carried out late
\* (onboarding.respond): the assessment, once begun, is not left.
OnboardingForward ==
    [][\A n \in SessionIds : session'[n].stage >= session[n].stage]_vars
=============================================================================
