--------------------------- MODULE LearnerWorkProofs --------------------------
(* Theorems about LearnerWork: for any number of questions, stages, retakes,   *)
(* keys and failures, and of requests sent twice from one tab, at most one     *)
(* session is in progress, no question is skipped and no stage is taken back;  *)
(* and a marked attempt has the score its answers are worth.                   *)
EXTENDS LearnerWork, FiniteSetTheorems, SequenceTheorems, TLAPS

-----------------------------------------------------------------------------
(* The inductive invariant of the sessions *)

\* The states of a request once it has read its session, and once its message is
\* flushed.
Flushed == {"recorded", "advancing", "chosen", "numbered", "done", "decided", "looked", "written"}
PastLoad == {"bound", "creating", "loaded", "assessed", "heard"} \cup Flushed

RowType ==
    [status : {"absent", "in_progress", "ended"}, key : Nat, stage : 0 .. LastStage,
     announced : SUBSET (0 .. LastStage), asked : Seq(Nat), answered : SUBSET Nat,
     said : SUBSET Nat, followups : [1 .. LastQuestion -> Nat], version : Nat, lastKey : Nat]
StartType ==
    [pc : {"idle", "sent", "unknown", "inactive", "allowed", "numbered", "inserted"},
     tab : Tabs \cup {NoTab}, key : Nat, number : Nat]
RequestType ==
    [pc : {"idle", "sent"} \cup PastLoad, tab : Tabs \cup {NoTab}, session : Nat, key : Nat,
     shown : Nat, kind : {"answer", "control", "followup", "onboarding"}, version : Nat,
     saved : BOOLEAN, next : Nat, number : Nat, announce : BOOLEAN, stage : 0 .. LastStage]
PageType == [start : Nat, session : Nat, stage : 0 .. LastStage, place : Nat, key : Nat]

TakingTypes ==
    /\ sessions \in [Taking!SessionIds -> RowType]
    /\ start \in [Starts -> StartType]
    /\ request \in [Requests -> RequestType]
    /\ tab \in [Tabs -> PageType]
    /\ keys \in Nat

Made(k) == \E n \in Taking!SessionIds : sessions[n].key = k
Barred == Cardinality({n \in Taking!SessionIds : Taking!Ended(n)}) >= MaxAttempts

\* A session is absent or what one key made.
SessionOnce ==
    /\ \A n \in Taking!SessionIds :
         /\ sessions[n].status = "absent" => sessions[n] = Taking!NoSession
         /\ sessions[n].status # "absent" => sessions[n].key \in 1 .. keys
         /\ sessions[n].said \subseteq 1 .. keys
         /\ sessions[n].lastKey # 0 => sessions[n].lastKey \in sessions[n].said
    /\ \A n, m \in Taking!SessionIds : sessions[n].key = sessions[m].key /\ sessions[n].key # 0
         => n = m

\* Keys are those of tabs.
KeysKnown ==
    /\ \A s \in Starts : start[s].pc # "idle" => start[s].key \in 1 .. keys /\ start[s].tab \in Tabs
    /\ \A p \in Requests :
         request[p].pc # "idle" => /\ request[p].key \in 1 .. keys /\ request[p].tab \in Tabs
                                   /\ request[p].session \in Taking!SessionIds
                                   /\ sessions[request[p].session].status # "absent"
    /\ \A t \in Tabs :
         /\ tab[t].start <= keys /\ tab[t].key <= keys
         /\ tab[t].start # 0 => tab[t].key = 0
         /\ tab[t].session # 0 =>
              tab[t].session \in Taking!SessionIds /\ sessions[tab[t].session].status # "absent"
         /\ tab[t].session = 0 => tab[t].key = 0

\* What a start may still do.
Startable(s) ==
    /\ s.pc \in {"allowed", "numbered", "inserted"} =>
         Made(s.key) \/ (s.key = tab[s.tab].start /\ ~Barred)
    /\ s.pc \in {"sent", "unknown", "inactive"} /\ s.key # tab[s.tab].start =>
         Made(s.key) \/ Barred
    /\ s.pc \in {"numbered", "inserted"} => s.number \in Taking!SessionIds
    /\ s.pc = "inserted" => ~Made(s.key) /\ sessions[s.number].status = "absent"

OneStarts ==
    /\ \A s \in Starts : start[s].pc # "idle" => Startable(start[s])
    /\ \A s, o \in Starts :
         start[s].pc = "inserted" /\ start[o].pc = "inserted" /\ s # o
         => start[s].key # start[o].key /\ start[s].number # start[o].number
    /\ \A n \in Taking!SessionIds :
         Taking!Live(n) => /\ ~Barred
                           /\ \E t \in Tabs : \/ sessions[n].key = tab[t].start
                                              \/ tab[t].start = 0 /\ tab[t].session = n

Posted(r) == r.key \in sessions[r.session].said
Place(r) == IF r.kind = "onboarding" THEN sessions[r.session].stage
                                     ELSE Len(sessions[r.session].asked)

OnItsWay(r) ==
    /\ r.key = tab[r.tab].key =>
         /\ r.session = tab[r.tab].session
         /\ r.pc = "sent"
              => r.kind = IF tab[r.tab].stage # LastStage THEN "onboarding" ELSE "answer"
         /\ r.pc = "sent" => r.shown = IF tab[r.tab].stage # LastStage THEN tab[r.tab].stage
                                                                       ELSE tab[r.tab].place
    /\ r.key # tab[r.tab].key => Posted(r) \/ Taking!Ended(r.session)
    /\ r.pc \in PastLoad => Posted(r) \/ r.shown = Place(r)
    /\ r.pc \in Flushed => ~Posted(r)

\* What a request is about to write.
Carries(r) ==
    /\ r.next # 0 => /\ r.pc \in {"chosen", "numbered", "done"}
                     /\ r.kind \in {"answer", "followup"}
                     /\ \A i \in DOMAIN sessions[r.session].asked : sessions[r.session].asked[i] # r.next
    /\ r.pc \in {"decided", "looked", "written"} => r.stage >= r.shown
    /\ r.pc \in {"heard", "decided", "looked", "written"} => r.kind = "onboarding"
    /\ r.pc \in {"recorded", "advancing", "chosen", "numbered"} => r.kind \in {"answer", "followup"}
    /\ r.kind = "onboarding" => r.pc \in {"sent", "heard", "done", "decided", "looked", "written"}
    /\ r.kind = "onboarding" => r.shown < LastStage

OneTurn ==
    /\ \A p \in Requests : request[p].pc # "idle" => OnItsWay(request[p]) /\ Carries(request[p])
    /\ \A p, o \in Requests :
         /\ request[p].pc \in PastLoad /\ request[o].pc \in PastLoad
         /\ request[p].session = request[o].session
         /\ ~Posted(request[p]) /\ ~Posted(request[o])
         => request[p].key = request[o].key
    /\ \A p, o \in Requests :
         /\ request[p].pc \in Flushed /\ request[o].pc \in Flushed
         /\ request[p].session = request[o].session
         => p = o
    /\ \A t \in Tabs :
         LET n == tab[t].session IN
         n # 0 /\ Taking!Live(n) /\ tab[t].key \notin sessions[n].said
         => tab[t].place = Len(sessions[n].asked) /\ tab[t].stage = sessions[n].stage

TakingInv ==
    /\ TakingTypes /\ SessionOnce /\ KeysKnown /\ OneStarts /\ OneTurn
    /\ Taking!NoQuestionSkipped

OneTab == \A t, u \in Tabs : t = u
-----------------------------------------------------------------------------
\* The cardinality InterviewSession speaks of.
LEMMA SameCardinality == \A S : Taking!Cardinality(S) = Cardinality(S)
  BY DEF Taking!Cardinality, Cardinality

LEMMA TakingInit == Taking!Init => TakingInv
<1> SUFFICES ASSUME Taking!Init PROVE TakingInv
  OBVIOUS
<1> USE TakingAssumption
<1>1. Taking!NoSession \in RowType /\ Taking!NoStart \in StartType
        /\ Taking!NoRequest \in RequestType
      /\ Taking!NoPage \in PageType
  BY DEF Taking!NoSession, RowType, Taking!NoStart, StartType, Taking!NoRequest,
     RequestType, Taking!NoPage, PageType
<1>2. TakingTypes
  BY <1>1 DEF Taking!Init, TakingTypes
<1>3. SessionOnce /\ KeysKnown
  BY DEF Taking!Init, SessionOnce, KeysKnown, Taking!NoSession, Taking!NoStart,
     Taking!NoRequest, Taking!NoPage
<1>4. OneStarts
  BY DEF Taking!Init, OneStarts, Taking!Live, Taking!NoStart, Taking!NoSession
<1>5. OneTurn
  BY DEF Taking!Init, OneTurn, PastLoad, Flushed, Taking!NoRequest, Taking!NoPage
<1>6. Taking!NoQuestionSkipped
  BY DEF Taking!Init, Taking!NoQuestionSkipped, Taking!NoSession
<1>7. QED
  BY <1>2, <1>3, <1>4, <1>5, <1>6 DEF TakingInv

\* What goes on at the tabs and the sessions does not change what a start may do, as
\* long as no session begins or ends and the tabs wait for the same starts.
LEMMA StartsKept ==
  ASSUME OneStarts, UNCHANGED start,
         \A n \in Taking!SessionIds : sessions'[n].status = sessions[n].status
           /\ sessions'[n].key = sessions[n].key,
         \A s \in Starts : start[s].pc # "idle" => start[s].tab \in Tabs,
         \A s \in Starts : start[s].pc \in {"numbered", "inserted"}
           => start[s].number \in Taking!SessionIds,
         \A t \in Tabs : tab'[t].start = tab[t].start /\ tab'[t].session = tab[t].session
  PROVE  OneStarts'
<1>1. \A k : Made(k)' <=> Made(k)
  BY DEF Made
<1>2. {n \in Taking!SessionIds : Taking!Ended(n)}' = {n \in Taking!SessionIds : Taking!Ended(n)}
  BY DEF Taking!Ended
<1>3. Barred' <=> Barred
  BY <1>2 DEF Barred
<1>4. \A s \in Starts : start'[s].pc # "idle" => Startable(start[s])'
  <2> SUFFICES ASSUME NEW s \in Starts, start'[s].pc # "idle" PROVE Startable(start[s])'
    OBVIOUS
  <2>1. Startable(start[s])
    BY DEF OneStarts
  <2>2. Made(start[s].key)' <=> Made(start[s].key)
    BY <1>1
  <2>3. QED
    BY <2>1, <1>1, <1>3 DEF Startable
<1>5. \A n \in Taking!SessionIds : Taking!Live(n)' <=> Taking!Live(n)
  BY DEF Taking!Live
<1>6. QED
  BY <1>3, <1>4, <1>5 DEF OneStarts

\* A request goes on, with its key, in its session.
LEMMA Proceeds ==
  ASSUME OneTab, TakingInv, NEW p \in Requests, request[p].pc # "idle",
         NEW f \in RequestType, Taking!Proceed(p, f), Taking!Step,
         f.key = request[p].key, f.tab = request[p].tab, f.session = request[p].session,
         f.pc \in PastLoad, OnItsWay(f), Carries(f),
         request[p].pc \in PastLoad \/ Taking!Live(request[p].session),
         \/ f.pc \in Flushed => request[p].pc \in Flushed
         \/ \A o \in Taking!Rivals(p) : request[o].pc \notin Flushed
  PROVE  TakingInv'
<1> USE DEF TakingInv, Taking!Proceed, Taking!Step
<1>1. /\ request' \in [Requests -> RequestType]
      /\ request'[p] = f /\ \A o \in Requests \ {p} : request'[o] = request[o]
  BY DEF TakingTypes
<1>2. TakingTypes' /\ SessionOnce'
  BY <1>1 DEF TakingTypes, SessionOnce
<1>3. KeysKnown'
  BY <1>1 DEF KeysKnown
<1>4. OneStarts'
  BY StartsKept DEF KeysKnown, OneStarts, Startable
<1>5. Taking!NoQuestionSkipped'
  BY DEF Taking!NoQuestionSkipped
<1>6. f.pc # "idle"
  BY DEF PastLoad, Flushed
<1>7. \A o \in Requests : request'[o].pc # "idle" => OnItsWay(request'[o]) /\ Carries(request'[o])
  BY <1>1 DEF OneTurn
<1>8. \A o \in Requests : request'[o].pc # "idle" => OnItsWay(request[o])' /\ Carries(request[o])'
  <2> SUFFICES ASSUME NEW o \in Requests, request'[o].pc # "idle"
               PROVE  OnItsWay(request[o])' /\ Carries(request[o])'
    OBVIOUS
  <2>1. OnItsWay(request'[o]) /\ Carries(request'[o])
    BY <1>7
  <2>2. OnItsWay(request[o])'
    BY <2>1 DEF OnItsWay, Posted, Place, Taking!Ended
  <2>3. Carries(request[o])'
    BY <2>1 DEF Carries
  <2>4. QED
    BY <2>2, <2>3
<1>9. \A o \in Requests \ {p} :
         /\ request[o].pc \in PastLoad /\ f.pc \in PastLoad /\ request[o].session = f.session
         /\ ~Posted(request[o]) /\ ~Posted(f)
         => request[o].key = f.key
  <2> SUFFICES ASSUME NEW o \in Requests \ {p}, request[o].pc \in PastLoad,
                      request[o].session = f.session, ~Posted(request[o]), ~Posted(f)
               PROVE  request[o].key = f.key
    OBVIOUS
  <2>1. CASE request[p].pc \in PastLoad
    BY <2>1 DEF OneTurn, Posted
  <2>2. CASE Taking!Live(request[p].session)
    <3>1. ~Taking!Ended(f.session)
      BY <2>2 DEF Taking!Live, Taking!Ended
    <3>2. request[o].pc # "idle" /\ OnItsWay(request[o])
      BY DEF OneTurn, PastLoad, Flushed
    <3>3. request[o].key = tab[request[o].tab].key /\ f.key = tab[f.tab].key
      BY <3>1, <3>2 DEF OnItsWay
    <3>4. request[o].tab \in Tabs /\ f.tab \in Tabs
      BY <3>2 DEF KeysKnown
    <3>5. QED
      BY <3>3, <3>4 DEF OneTab
  <2>3. QED
    BY <2>1, <2>2
<1>10. \A o \in Requests \ {p} :
         /\ request[o].pc \in Flushed /\ f.pc \in Flushed => request[o].session # f.session
  BY DEF OneTurn, Taking!Rivals
<1>11. \A o, q \in Requests :
         /\ request'[o].pc \in PastLoad /\ request'[q].pc \in PastLoad
         /\ request'[o].session = request'[q].session
         /\ ~Posted(request'[o]) /\ ~Posted(request'[q])
         => request'[o].key = request'[q].key
  BY <1>1, <1>9 DEF OneTurn
<1>12. \A o, q \in Requests :
         /\ request'[o].pc \in Flushed /\ request'[q].pc \in Flushed
         /\ request'[o].session = request'[q].session
         => o = q
  BY <1>1, <1>10 DEF OneTurn
<1>13. OneTurn'
  BY <1>8, <1>11, <1>12 DEF OneTurn, Posted, Taking!Live
<1>14. QED
  BY <1>2, <1>3, <1>4, <1>5, <1>13

\* A request ends, having changed nothing or, its message flushed before, having written
\* what it was for.
LEMMA Leaves ==
  ASSUME OneTab, TakingInv, NEW p \in Requests, request[p].pc # "idle",
         NEW n, n = request[p].session,
         NEW page \in PageType, Taking!Answer(p, page), UNCHANGED <<start, keys>>,
         sessions' \in [Taking!SessionIds -> RowType],
         \A m \in Taking!SessionIds \ {n} : sessions'[m] = sessions[m],
         sessions'[n].status = sessions[n].status, sessions'[n].key = sessions[n].key,
         sessions'[n].said \subseteq sessions[n].said \cup {request[p].key},
         sessions[n].said \subseteq sessions'[n].said,
         sessions'[n].lastKey # 0 => sessions'[n].lastKey \in sessions'[n].said,
         page.start = 0, page.key = 0, page.session = n,
         page.stage = sessions'[n].stage, page.place = Len(sessions'[n].asked),
         tab' = tab \/ request[p].key \in sessions'[n].said \/ ~Taking!Live(n),
         \/ sessions'[n] = sessions[n]
         \/ request[p].pc \in Flushed /\ request[p].key \in sessions'[n].said,
         Taking!NoQuestionSkipped'
  PROVE  TakingInv'
<1> USE DEF TakingInv
<1> DEFINE t == request[p].tab
           k == request[p].key
<1>0. /\ t \in Tabs /\ k \in 1 .. keys /\ n \in Taking!SessionIds /\ sessions[n].status # "absent"
      /\ k # 0 /\ keys \in Nat
  BY DEF KeysKnown, TakingTypes
<1>1. /\ request' = [request EXCEPT ![p] = Taking!NoRequest]
      /\ tab' = tab \/ (tab[t].key = k /\ tab' = [tab EXCEPT ![t] = page])
  BY DEF Taking!Answer
<1>2. /\ request' \in [Requests -> RequestType]
      /\ request'[p] = Taking!NoRequest /\ \A o \in Requests \ {p} : request'[o] = request[o]
      /\ Taking!NoRequest.pc = "idle" /\ Taking!NoRequest.pc \notin PastLoad
      /\ Taking!NoRequest.pc \notin Flushed
  <2>1. Taking!NoRequest \in RequestType
    BY TakingAssumption DEF Taking!NoRequest, RequestType
  <2>2. QED
    BY <1>1, <2>1 DEF TakingTypes, Taking!NoRequest, PastLoad, Flushed
<1>3. /\ tab' \in [Tabs -> PageType]
      /\ \A u \in Tabs : \/ tab'[u] = tab[u]
                         \/ tab[u].key = k /\ tab'[u] = page /\ tab' # tab
  BY <1>0, <1>1 DEF TakingTypes
<1>4. TakingTypes'
  BY <1>2, <1>3 DEF TakingTypes
<1>5. SessionOnce'
  <2>1. \A m \in Taking!SessionIds : sessions'[m].status = sessions[m].status
          /\ sessions'[m].key = sessions[m].key
    BY <1>0
  <2>2. sessions[n] # sessions'[n] => sessions[n].status # "absent"
    BY <1>0
  <2>3. QED
    BY <1>0, <2>1, <2>2 DEF SessionOnce
<1>6. KeysKnown'
  <2>1. \A m \in Taking!SessionIds : sessions'[m].status = sessions[m].status
    BY <1>0
  <2>2. ASSUME NEW o \in Requests, request'[o].pc # "idle"
        PROVE  /\ request'[o].key \in 1 .. keys /\ request'[o].tab \in Tabs
               /\ request'[o].session \in Taking!SessionIds
               /\ sessions'[request'[o].session].status # "absent"
    <3>1. o # p /\ request'[o] = request[o]
      BY <1>2, <2>2
    <3>2. QED
      BY <2>1, <2>2, <3>1 DEF KeysKnown
  <2>3. ASSUME NEW u \in Tabs
        PROVE  /\ tab'[u].start <= keys /\ tab'[u].key <= keys
               /\ tab'[u].start # 0 => tab'[u].key = 0
               /\ tab'[u].session # 0 => /\ tab'[u].session \in Taking!SessionIds
                                        /\ sessions'[tab'[u].session].status # "absent"
               /\ tab'[u].session = 0 => tab'[u].key = 0
    <3>1. CASE tab'[u] = tab[u]
      BY <2>1, <3>1 DEF KeysKnown
    <3>2. CASE tab'[u] = page
      BY <1>0, <2>1, <3>2
    <3>3. QED
      BY <1>3, <3>1, <3>2
  <2>4. QED
    BY <2>2, <2>3 DEF KeysKnown
<1>7. OneStarts'
  <2>1. \A u \in Tabs : tab'[u].start = tab[u].start /\ tab'[u].session = tab[u].session
    <3> SUFFICES ASSUME NEW u \in Tabs, tab[u].key = k, tab'[u] = page
                 PROVE  tab'[u].start = tab[u].start /\ tab'[u].session = tab[u].session
      BY <1>3
    <3>1. tab[u].start = 0
      BY <1>0 DEF KeysKnown, TakingTypes, PageType
    <3>2. n = tab[u].session
      BY <1>0 DEF OneTurn, OnItsWay, OneTab
    <3>3. QED
      BY <3>1, <3>2
  <2>2. \A m \in Taking!SessionIds : sessions'[m].status = sessions[m].status
          /\ sessions'[m].key = sessions[m].key
    BY <1>0
  <2>3. QED
    BY <2>1, <2>2, StartsKept DEF KeysKnown, OneStarts, Startable
<1>8. \A o \in Requests \ {p} : request[o].pc # "idle" =>
         /\ request[o].session \in Taking!SessionIds /\ request[o].key # 0
         /\ request[o].tab \in Tabs
         /\ sessions[request[o].session].status # "absent"
         /\ OnItsWay(request[o]) /\ Carries(request[o])
  BY DEF KeysKnown, OneTurn
<1>9. \A o \in Requests \ {p} : Posted(request[o]) /\ request[o].pc # "idle"
                                => request[o].key \in sessions'[request[o].session].said
  BY <1>0, <1>8 DEF Posted
\* Another request whose session was written has the key that was written.
<1>10. \A o \in Requests \ {p} :
         request[o].pc \in PastLoad =>
            \/ sessions'[request[o].session] = sessions[request[o].session]
            \/ request[o].pc \notin Flushed /\ request[o].key \in sessions'[request[o].session].said
  <2> SUFFICES ASSUME NEW o \in Requests \ {p}, request[o].pc \in PastLoad,
                      sessions'[request[o].session] # sessions[request[o].session]
               PROVE  request[o].pc \notin Flushed
                        /\ request[o].key \in sessions'[request[o].session].said
    OBVIOUS
  <2>1. request[o].pc # "idle"
    BY DEF PastLoad, Flushed
  <2>2. request[o].session = n /\ request[p].pc \in Flushed /\ k \in sessions'[n].said
    BY <1>8, <2>1
  <2>3. request[p].pc \in PastLoad /\ ~Posted(request[p])
    BY <2>2 DEF OneTurn, OnItsWay, PastLoad
  <2>4. Posted(request[o]) \/ request[o].key = k
    BY <2>2, <2>3 DEF OneTurn
  <2>5. request[o].pc \notin Flushed
    BY <2>2 DEF OneTurn
  <2>6. QED
    BY <1>9, <2>1, <2>2, <2>4, <2>5
<1>11. \A o \in Requests \ {p} : request[o].pc # "idle" => OnItsWay(request[o])'
  <2> SUFFICES ASSUME NEW o \in Requests \ {p}, request[o].pc # "idle" PROVE OnItsWay(request[o])'
    OBVIOUS
  <2> DEFINE r == request[o]
  <2>1. request'[o] = r
    BY <1>2
  <2>2. r.key = tab'[r.tab].key => tab'[r.tab] = tab[r.tab]
    BY <1>3, <1>8
  <2>3. r.key # tab'[r.tab].key
          => r.key \in sessions'[r.session].said \/ sessions'[r.session].status = "ended"
    <3>1. CASE tab'[r.tab] = tab[r.tab]
      BY <3>1, <1>0, <1>8, <1>9 DEF OnItsWay, Taking!Ended
    <3>2. CASE tab[r.tab].key = k /\ tab'[r.tab] = page /\ tab' # tab
      <4>1. CASE r.key # k
        BY <4>1, <3>2, <1>0, <1>8, <1>9 DEF OnItsWay, Taking!Ended
      <4>2. CASE r.key = k
        <5>1. r.session = n
          <6>1. OnItsWay(request[p])
            BY DEF OneTurn
          <6>2. OnItsWay(r) /\ r.tab = t
            BY <1>0, <1>8 DEF OneTab
          <6>3. QED
            BY <4>2, <3>2, <6>1, <6>2 DEF OnItsWay
        <5>2. k \in sessions'[n].said \/ ~Taking!Live(n)
          BY <3>2
        <5>3. ~Taking!Live(n) => sessions[n].status = "ended"
          BY <1>0 DEF Taking!Live, TakingTypes, RowType
        <5>4. QED
          BY <4>2, <5>1, <5>2, <5>3
      <4>3. QED
        BY <4>1, <4>2
    <3>3. QED
      BY <3>1, <3>2, <1>3, <1>8
  <2>4. r.pc \in PastLoad => \/ r.key \in sessions'[r.session].said
                             \/ sessions'[r.session] = sessions[r.session] /\ r.shown = Place(r)
    BY <1>8, <1>9, <1>10 DEF OnItsWay
  <2>5. r.pc \in Flushed => r.key \notin sessions'[r.session].said
    BY <1>8, <1>10 DEF OnItsWay, PastLoad, Posted
  <2>6. r.key = tab'[r.tab].key =>
          /\ r.session = tab'[r.tab].session
          /\ r.pc = "sent"
               => r.kind = IF tab'[r.tab].stage # LastStage THEN "onboarding" ELSE "answer"
          /\ r.pc = "sent" => r.shown = IF tab'[r.tab].stage # LastStage
                                         THEN tab'[r.tab].stage ELSE tab'[r.tab].place
    BY <1>8, <2>2 DEF OnItsWay
  <2>7. r.pc \in PastLoad => r.key \in sessions'[r.session].said \/ r.shown = Place(request[o])'
    BY <2>1, <2>4 DEF Place
  <2>8. QED
    BY <2>1, <2>3, <2>5, <2>6, <2>7 DEF OnItsWay, Posted, Taking!Ended
<1>12. \A o \in Requests \ {p} : request[o].pc # "idle" => Carries(request[o])'
  <2> SUFFICES ASSUME NEW o \in Requests \ {p}, request[o].pc # "idle" PROVE Carries(request[o])'
    OBVIOUS
  <2>1. request[o].next # 0 => sessions'[request[o].session] = sessions[request[o].session]
    BY <1>8, <1>10 DEF Carries, PastLoad, Flushed
  <2>2. request'[o] = request[o] /\ Carries(request[o])
    BY <1>2, <1>8
  <2>3. QED
    BY <2>1, <2>2 DEF Carries
<1>13. \A o, q \in Requests :
         /\ request'[o].pc \in PastLoad /\ request'[q].pc \in PastLoad
         /\ request'[o].session = request'[q].session
         /\ ~Posted(request[o])' /\ ~Posted(request[q])'
         => request'[o].key = request'[q].key
  <2> SUFFICES ASSUME NEW o \in Requests, NEW q \in Requests,
                      request'[o].pc \in PastLoad, request'[q].pc \in PastLoad,
                      request'[o].session = request'[q].session,
                      ~Posted(request[o])', ~Posted(request[q])'
               PROVE  request'[o].key = request'[q].key
    OBVIOUS
  <2>1. o # p /\ q # p /\ request'[o] = request[o] /\ request'[q] = request[q]
    BY <1>2
  <2>2. request[o].pc # "idle" /\ request[q].pc # "idle"
    BY <2>1 DEF PastLoad, Flushed
  <2>3. ~Posted(request[o]) /\ ~Posted(request[q])
    BY <1>9, <2>1, <2>2 DEF Posted
  <2>4. QED
    BY <2>1, <2>3 DEF OneTurn
<1>14. \A o, q \in Requests :
         /\ request'[o].pc \in Flushed /\ request'[q].pc \in Flushed
         /\ request'[o].session = request'[q].session
         => o = q
  BY <1>2 DEF OneTurn
<1>15. ASSUME NEW u \in Tabs, tab'[u].session # 0, Taking!Live(tab[u].session)',
              tab'[u].key \notin sessions'[tab'[u].session].said
       PROVE  /\ tab'[u].place = Len(sessions'[tab'[u].session].asked)
              /\ tab'[u].stage = sessions'[tab'[u].session].stage
  <2>1. CASE tab'[u] = page
    BY <2>1
  <2>2. CASE tab'[u] = tab[u]
    <3> DEFINE m == tab[u].session
    <3>1. m \in Taking!SessionIds
      BY <1>15, <2>2 DEF KeysKnown
    <3>2. Taking!Live(m) /\ tab[u].key \notin sessions[m].said
      BY <1>15, <2>2, <3>1, <1>0 DEF Taking!Live
    <3>3. sessions'[m] = sessions[m]
      <4> SUFFICES ASSUME sessions'[m] # sessions[m] PROVE FALSE
        OBVIOUS
      <4>1. m = n /\ request[p].pc \in Flushed /\ k \in sessions'[n].said
        BY <3>1
      <4>2. tab[u].key # k
        BY <4>1, <1>15, <2>2
      <4>3. ~Posted(request[p]) /\ ~Taking!Ended(n)
        BY <4>1, <3>2 DEF OneTurn, OnItsWay, Taking!Live, Taking!Ended
      <4>4. OnItsWay(request[p])
        BY DEF OneTurn
      <4>5. QED
        BY <1>0, <4>2, <4>3, <4>4 DEF OnItsWay, OneTab
    <3>4. QED
      BY <2>2, <3>2, <3>3, <1>15 DEF OneTurn
  <2>3. QED
    BY <2>1, <2>2, <1>3
<1>16. OneTurn'
  BY <1>2, <1>11, <1>12, <1>13, <1>14, <1>15 DEF OneTurn
<1>17. QED
  BY <1>4, <1>5, <1>6, <1>7, <1>16

LEMMA PageTyped ==
  ASSUME NEW n \in Nat, NEW s \in RowType PROVE Taking!PageAfter(n, s) \in PageType
<1>1. s.stage \in 0 .. LastStage /\ s.asked \in Seq(Nat)
  BY DEF RowType
<1>2. Len(s.asked) \in Nat
  BY <1>1
<1>3. 0 \in 0 .. LastStage
  BY TakingAssumption
<1>4. QED
  BY <1>1, <1>2, <1>3 DEF Taking!PageAfter, Taking!NoPage, PageType

\* A request that has changed nothing leaves, and its tab hears of the session's page or
\* does not.
LEMMA LeavesUnchanged ==
  ASSUME OneTab, TakingInv, NEW p \in Requests, request[p].pc # "idle",
         Taking!Answer(p, Taking!Page(request[p].session)), UNCHANGED <<sessions, start, keys>>,
         tab' = tab \/ Posted(request[p]) \/ ~Taking!Live(request[p].session)
  PROVE  TakingInv'
<1> DEFINE n == request[p].session
           page == Taking!Page(n)
<1>1. n \in Taking!SessionIds /\ sessions[n] \in RowType /\ n \in Nat
  BY TakingAssumption DEF TakingInv, KeysKnown, TakingTypes, Taking!SessionIds
<1>2. page \in PageType
  BY <1>1, PageTyped DEF Taking!Page, Taking!PageAfter
<1>3. /\ page.start = 0 /\ page.key = 0 /\ page.session = n
      /\ page.stage = sessions'[n].stage /\ page.place = Len(sessions'[n].asked)
  BY DEF Taking!Page, Taking!NoPage
<1>4. sessions' \in [Taking!SessionIds -> RowType] /\ Taking!NoQuestionSkipped'
  BY DEF TakingInv, TakingTypes, Taking!NoQuestionSkipped
<1>5. sessions'[n].lastKey # 0 => sessions'[n].lastKey \in sessions'[n].said
  BY <1>1 DEF TakingInv, SessionOnce
<1>6. tab' = tab \/ request[p].key \in sessions'[n].said \/ ~Taking!Live(n)
  BY DEF Posted
<1> HIDE DEF page, n
<1>7. n = request[p].session /\ Taking!Answer(p, page)
  BY DEF n, page
<1>8. QED
  BY <1>2, <1>3, <1>4, <1>5, <1>6, <1>7, Leaves

LEMMA Aborts ==
  ASSUME OneTab, TakingInv, NEW p \in Requests, request[p].pc # "idle",
         Taking!Abort(p), UNCHANGED <<sessions, start, keys>>
  PROVE  TakingInv'
<1>1. Taking!Answer(p, Taking!Page(request[p].session)) /\ tab' = tab
  BY DEF Taking!Abort, Taking!Answer
<1>2. QED
  BY <1>1, LeavesUnchanged

\* A tab's last request to a live session, if the session has not its message yet, is about
\* what the session is at.
LEMMA Current ==
  ASSUME OneTab, TakingInv, NEW p \in Requests, request[p].pc = "sent",
         Taking!Live(request[p].session), ~Posted(request[p])
  PROVE  /\ request[p].shown = Place(request[p])
         /\ request[p].kind = "answer" => sessions[request[p].session].stage = LastStage
<1>1. OnItsWay(request[p]) /\ ~Taking!Ended(request[p].session) /\ request[p].tab \in Tabs
      /\ request[p].session \in Taking!SessionIds
  BY DEF TakingInv, OneTurn, KeysKnown, Taking!Live, Taking!Ended
<1>2. request[p].key = tab[request[p].tab].key
  BY <1>1 DEF OnItsWay
<1>3. 0 \notin Taking!SessionIds
  BY TakingAssumption DEF Taking!SessionIds
<1>4. /\ tab[request[p].tab].place = Len(sessions[request[p].session].asked)
      /\ tab[request[p].tab].stage = sessions[request[p].session].stage
      /\ request[p].session = tab[request[p].tab].session
  BY <1>1, <1>2, <1>3 DEF OnItsWay, Posted, TakingInv, OneTurn
<1>5. QED
  BY <1>1, <1>2, <1>4 DEF OnItsWay, Place

\* A request commits.
LEMMA Commits ==
  ASSUME OneTab, TakingInv, NEW p \in Requests, request[p].pc \in Flushed,
         NEW s \in RowType, Taking!Committed(p, s),
         s.status = sessions[request[p].session].status, s.key = sessions[request[p].session].key,
         s.said = sessions[request[p].session].said \cup {request[p].key},
         s.lastKey \in {sessions[request[p].session].lastKey, request[p].key},
         Taking!NoQuestionSkipped'
  PROVE  TakingInv'
<1> DEFINE n == request[p].session
           page == Taking!PageAfter(n, s)
<1>1. /\ request[p].pc # "idle" /\ n \in Taking!SessionIds /\ sessions[n] \in RowType
      /\ sessions \in [Taking!SessionIds -> RowType] /\ n \in Nat
  BY TakingAssumption DEF TakingInv, KeysKnown, TakingTypes, Flushed, Taking!SessionIds
<1>2. /\ sessions' \in [Taking!SessionIds -> RowType]
      /\ sessions'[n] = s /\ \A m \in Taking!SessionIds \ {n} : sessions'[m] = sessions[m]
      /\ UNCHANGED <<start, keys>> /\ Taking!Answer(p, page)
  BY <1>1 DEF Taking!Committed
<1>3. page \in PageType
  BY <1>1, PageTyped
<1>4. /\ page.start = 0 /\ page.key = 0 /\ page.session = n
      /\ page.stage = sessions'[n].stage /\ page.place = Len(sessions'[n].asked)
  BY <1>2 DEF Taking!PageAfter, Taking!NoPage
<1>5. sessions'[n].lastKey # 0 => sessions'[n].lastKey \in sessions'[n].said
  BY <1>1, <1>2 DEF TakingInv, SessionOnce
<1> HIDE DEF page, n
<1>6. n = request[p].session
  BY DEF n
<1>7. QED
  BY <1>1, <1>2, <1>3, <1>4, <1>5, <1>6, Leaves
-----------------------------------------------------------------------------
(* The steps of a turn *)

LEMMA TurnLoadStep ==
  ASSUME OneTab, TakingInv, NEW p \in Requests, Taking!TurnLoad(p) PROVE TakingInv'
<1> DEFINE n == request[p].session
           f == [request[p] EXCEPT !.pc = "bound"]
<1> USE DEF TakingInv
<1>1. request[p].pc = "sent" /\ request[p].kind = "answer" /\ Taking!Step
        /\ request[p] \in RequestType
  BY DEF Taking!TurnLoad, TakingTypes
<1>2. CASE Taking!Live(n) /\ sessions[n].stage = LastStage
             /\ Len(sessions[n].asked) = request[p].shown
  <2>1. Taking!Proceed(p, f)
    BY <1>2 DEF Taking!TurnLoad
  <2>2. f \in RequestType /\ f.pc = "bound"
    BY <1>1 DEF RequestType, PastLoad
  <2>3. OnItsWay(request[p]) /\ Carries(request[p])
    BY <1>1 DEF OneTurn
  <2>4. OnItsWay(f) /\ Carries(f)
    BY <1>1, <1>2, <2>2, <2>3 DEF OnItsWay, Carries, Posted, Place, Flushed, RequestType
  <2>5. f.pc \in PastLoad /\ f.pc \notin Flushed
    BY <2>2 DEF PastLoad, Flushed
  <2>6. f.key = request[p].key /\ f.tab = request[p].tab /\ f.session = request[p].session
    BY <1>1 DEF RequestType
  <2> HIDE DEF f
  <2>7. QED
    BY <1>1, <1>2, <2>1, <2>2, <2>4, <2>5, <2>6, Proceeds
<1>3. CASE ~(Taking!Live(n) /\ sessions[n].stage = LastStage
             /\ Len(sessions[n].asked) = request[p].shown)
  <2>1. Taking!Answer(p, Taking!Page(n)) /\ UNCHANGED <<sessions, start, keys>>
    BY <1>3 DEF Taking!TurnLoad, Taking!Step
  <2>2. Posted(request[p]) \/ ~Taking!Live(n)
    BY <1>1, <1>3, Current DEF Place
  <2>3. QED
    BY <1>1, <2>1, <2>2, LeavesUnchanged
<1>4. QED
  BY <1>2, <1>3

\* A step of a request under way that changes none but what it is to do next.
LEMMA GoesOn ==
  ASSUME OneTab, TakingInv, NEW p \in Requests, request[p].pc \in PastLoad,
         NEW f \in RequestType, Taking!Proceed(p, f), Taking!Step,
         f.key = request[p].key, f.tab = request[p].tab, f.session = request[p].session,
         f.shown = request[p].shown,
         f.pc \in PastLoad, f.kind = "onboarding" <=> request[p].kind = "onboarding",
         \/ f.pc \in Flushed => request[p].pc \in Flushed
         \/ ~Posted(request[p]) /\ \A o \in Taking!Rivals(p) : request[o].pc \notin Flushed,
         Carries(f)
  PROVE  TakingInv'
<1>1. OnItsWay(request[p]) /\ request[p].pc # "idle"
  BY DEF TakingInv, OneTurn, PastLoad, Flushed
<1>2. OnItsWay(f)
  BY <1>1 DEF OnItsWay, Posted, Place, PastLoad, Flushed
<1>3. QED
  BY <1>1, <1>2, Proceeds

\* While a message is flushed and not committed, no other turn of its session is past it:
\* the others past their load have its key, and the index makes them wait.
LEMMA FlushesAlone ==
  ASSUME TakingInv, NEW p \in Requests, request[p].pc \in PastLoad, Taking!Unsaid(p),
           ~Posted(request[p])
  PROVE  \A o \in Taking!Rivals(p) : request[o].pc \notin Flushed
<1> SUFFICES ASSUME NEW o \in Taking!Rivals(p), request[o].pc \in Flushed PROVE FALSE
  OBVIOUS
<1>1. o \in Requests \ {p} /\ request[o].session = request[p].session
  BY DEF Taking!Rivals
<1>2. request[o].pc \in PastLoad /\ request[o].pc # "idle"
  BY DEF PastLoad, Flushed
<1>3. ~Posted(request[o])
  BY <1>1, <1>2 DEF TakingInv, OneTurn, OnItsWay
<1>4. request[o].key = request[p].key
  BY <1>1, <1>2, <1>3 DEF TakingInv, OneTurn
<1>5. QED
  BY <1>4 DEF Taking!Unsaid, Flushed

LEMMA TurnStateStep ==
  ASSUME OneTab, TakingInv, NEW p \in Requests, Taking!TurnState(p) PROVE TakingInv'
<1> DEFINE n == request[p].session
           created == [request[p] EXCEPT !.pc = "creating"]
           loaded == [request[p] EXCEPT !.pc = "loaded", !.version = sessions[n].version]
<1> USE DEF TakingInv
<1>1. request[p].pc = "bound" /\ Taking!Step /\ request[p] \in RequestType
        /\ sessions[n] \in RowType
      /\ n \in Taking!SessionIds /\ OnItsWay(request[p]) /\ Carries(request[p])
  BY DEF Taking!TurnState, TakingTypes, KeysKnown, OneTurn
<1>2. request[p].pc \in PastLoad /\ "creating" \notin Flushed /\ "loaded" \notin Flushed
      /\ "creating" \in PastLoad /\ "loaded" \in PastLoad
  BY <1>1 DEF PastLoad, Flushed
<1>3. CASE sessions[n].version = 0 /\ Taking!Proceed(p, created)
  <2>1. created \in RequestType /\ Carries(created)
    BY <1>1 DEF RequestType, PastLoad, Carries
  <2>2. QED
    BY <1>1, <1>2, <1>3, <2>1, GoesOn DEF RequestType
<1>4. CASE sessions[n].version # 0 /\ sessions[n].lastKey = request[p].key
             /\ Taking!Answer(p, Taking!Page(n))
  <2>1. Posted(request[p])
    BY <1>1, <1>4 DEF Posted, SessionOnce, KeysKnown
  <2>2. QED
    BY <1>1, <1>4, <2>1, LeavesUnchanged DEF Taking!Step
<1>5. CASE sessions[n].version # 0 /\ sessions[n].lastKey # request[p].key
             /\ Taking!Proceed(p, loaded)
  <2>1. loaded \in RequestType /\ Carries(loaded)
    BY <1>1 DEF RequestType, RowType, PastLoad, Carries
  <2>2. QED
    BY <1>1, <1>2, <1>5, <2>1, GoesOn DEF RequestType
<1>6. QED
  BY <1>3, <1>4, <1>5 DEF Taking!TurnState

LEMMA AssessedStep ==
  ASSUME OneTab, TakingInv, NEW p \in Requests, request[p].pc \in {"creating", "loaded"},
         NEW saved \in BOOLEAN, NEW kinds, kinds \subseteq {"answer", "control"},
         Taking!Assessed(p, saved, kinds), Taking!Step
  PROVE  TakingInv'
<1> USE DEF TakingInv
<1>1. request[p] \in RequestType /\ Carries(request[p]) /\ request[p].kind # "onboarding"
  BY DEF TakingTypes, OneTurn, Carries
<1>2. PICK kind \in kinds : Taking!Proceed(p, [request[p] EXCEPT !.pc = "assessed", !.saved = saved,
                                                          !.kind = kind])
  BY DEF Taking!Assessed
<1> DEFINE f == [request[p] EXCEPT !.pc = "assessed", !.saved = saved, !.kind = kind]
<1>3. f \in RequestType /\ Carries(f) /\ f.kind # "onboarding"
  BY <1>1 DEF RequestType, PastLoad, Carries
<1>4. request[p].pc \in PastLoad /\ f.pc \in PastLoad /\ f.pc \notin Flushed
  BY <1>1 DEF PastLoad, Flushed, RequestType
<1>5. QED
  BY <1>1, <1>2, <1>3, <1>4, GoesOn DEF RequestType

LEMMA TurnCreateStep ==
  ASSUME OneTab, TakingInv, NEW p \in Requests, Taking!TurnCreate(p) PROVE TakingInv'
<1>1. request[p].pc = "creating" /\ Taking!Step
  BY DEF Taking!TurnCreate
<1>2. CASE Taking!Abort(p)
  BY <1>1, <1>2, Aborts DEF Taking!Step
<1>3. CASE Taking!Assessed(p, TRUE, {"answer", "control"})
  BY <1>1, <1>3, AssessedStep
<1>4. QED
  BY <1>2, <1>3 DEF Taking!TurnCreate

LEMMA TurnSaveStep ==
  ASSUME OneTab, TakingInv, NEW p \in Requests, Taking!TurnSave(p) PROVE TakingInv'
<1>1. request[p].pc = "loaded" /\ Taking!Step
  BY DEF Taking!TurnSave
<1>2. CASE Taking!Assessed(p, TRUE, {"answer", "control"})
  BY <1>1, <1>2, AssessedStep
<1>3. CASE Taking!Assessed(p, FALSE, {"answer"})
  BY <1>1, <1>3, AssessedStep
<1>4. QED
  BY <1>2, <1>3 DEF Taking!TurnSave

LEMMA TurnRecordStep ==
  ASSUME OneTab, TakingInv, NEW p \in Requests, Taking!TurnRecord(p) PROVE TakingInv'
<1> USE DEF TakingInv
<1>1. request[p].pc = "assessed" /\ Taking!Step /\ Taking!Unsaid(p) /\ request[p] \in RequestType
      /\ Carries(request[p]) /\ request[p].pc \in PastLoad
  BY DEF Taking!TurnRecord, TakingTypes, OneTurn, PastLoad
<1>2. CASE Taking!Said(p)
  BY <1>1, <1>2, Aborts DEF Taking!TurnRecord, Taking!Step
<1>3. CASE ~Taking!Said(p)
  <2> DEFINE f == [request[p] EXCEPT !.pc = IF request[p].kind = "control" THEN "done" ELSE "recorded"]
  <2>1. Taking!Proceed(p, f)
    BY <1>3 DEF Taking!TurnRecord
  <2>2. ~Posted(request[p]) /\ \A o \in Taking!Rivals(p) : request[o].pc \notin Flushed
    BY <1>1, <1>3, FlushesAlone DEF Posted, Taking!Said
  <2>3. f \in RequestType /\ f.pc \in PastLoad
    BY <1>1 DEF RequestType, PastLoad, Flushed
  <2>4. Carries(f)
    BY <1>1 DEF Carries, RequestType
  <2>5. QED
    BY <1>1, <2>1, <2>2, <2>3, <2>4, GoesOn DEF RequestType
<1>4. QED
  BY <1>2, <1>3

LEMMA TurnFollowUpStep ==
  ASSUME OneTab, TakingInv, NEW p \in Requests, Taking!TurnFollowUp(p) PROVE TakingInv'
<1> DEFINE done == [request[p] EXCEPT !.pc = "done", !.kind = "followup"]
           advancing == [request[p] EXCEPT !.pc = "advancing"]
<1> USE DEF TakingInv
<1>1. request[p].pc = "recorded" /\ Taking!Step /\ request[p] \in RequestType /\ Carries(request[p])
  BY DEF Taking!TurnFollowUp, TakingTypes, OneTurn
<1>2. request[p].pc \in Flushed /\ request[p].pc \in PastLoad /\ request[p].kind # "onboarding"
      /\ request[p].next = 0
  BY <1>1 DEF PastLoad, Flushed, Carries
<1>3. /\ done \in RequestType /\ done.pc \in PastLoad /\ Carries(done)
      /\ advancing \in RequestType /\ advancing.pc \in PastLoad /\ Carries(advancing)
  BY <1>1, <1>2 DEF RequestType, PastLoad, Flushed, Carries
<1>4. CASE Taking!Proceed(p, done)
  BY <1>1, <1>2, <1>3, <1>4, GoesOn DEF RequestType
<1>5. CASE Taking!Proceed(p, advancing)
  BY <1>1, <1>2, <1>3, <1>5, GoesOn DEF RequestType
<1>6. QED
  BY <1>4, <1>5 DEF Taking!TurnFollowUp

LEMMA TurnNextStep ==
  ASSUME OneTab, TakingInv, NEW p \in Requests, Taking!TurnNext(p) PROVE TakingInv'
<1> DEFINE asked == sessions[request[p].session].asked
           left == (1 .. LastQuestion) \ {asked[i] : i \in DOMAIN asked}
           done == [request[p] EXCEPT !.pc = "done"]
<1> USE DEF TakingInv
<1>1. request[p].pc = "advancing" /\ Taking!Step /\ request[p] \in RequestType
        /\ Carries(request[p])
  BY DEF Taking!TurnNext, TakingTypes, OneTurn
<1>2. request[p].pc \in Flushed /\ request[p].pc \in PastLoad /\ request[p].kind # "onboarding"
      /\ request[p].next = 0 /\ "done" \in PastLoad /\ "chosen" \in PastLoad
  BY <1>1 DEF PastLoad, Flushed, Carries
<1>3. CASE Taking!Proceed(p, done)
  <2>1. done \in RequestType /\ Carries(done)
    BY <1>1, <1>2 DEF RequestType, PastLoad, Flushed, Carries
  <2>2. QED
    BY <1>1, <1>2, <1>3, <2>1, GoesOn DEF RequestType
<1>4. ASSUME NEW q \in left, Taking!Proceed(p, [request[p] EXCEPT !.pc = "chosen", !.next = q])
      PROVE  TakingInv'
  <2> DEFINE f == [request[p] EXCEPT !.pc = "chosen", !.next = q]
  <2>1. q \in Nat /\ \A i \in DOMAIN asked : asked[i] # q
    BY TakingAssumption
  <2>2. f \in RequestType /\ f.kind = request[p].kind /\ f.session = request[p].session
        /\ f.next = q /\ f.pc = "chosen" /\ f.stage = request[p].stage /\ f.shown = request[p].shown
    BY <1>1, <2>1 DEF RequestType, PastLoad, Flushed
  <2>3. request[p].kind \in {"answer", "followup"}
    BY <1>1, <1>2 DEF Carries, RequestType
  <2>4. Carries(f)
    BY <2>1, <2>2, <2>3 DEF Carries
  <2>5. QED
    BY <1>1, <1>2, <1>4, <2>2, <2>4, GoesOn DEF RequestType
<1>5. QED
  BY <1>3, <1>4 DEF Taking!TurnNext

LEMMA TurnNumberStep ==
  ASSUME OneTab, TakingInv, NEW p \in Requests, Taking!TurnNumber(p) PROVE TakingInv'
<1> USE DEF TakingInv
<1> DEFINE asked == sessions[request[p].session].asked
           number == Len(asked) + 1
           f == [request[p] EXCEPT !.pc = "numbered", !.number = number]
<1>1. request[p].pc = "chosen" /\ Taking!Step /\ request[p] \in RequestType /\ Carries(request[p])
      /\ Taking!Proceed(p, f) /\ sessions[request[p].session] \in RowType
  BY DEF Taking!TurnNumber, TakingTypes, OneTurn, KeysKnown
<1>2. number \in Nat
  BY <1>1 DEF RowType
<1> HIDE DEF number
<1>3. request[p].pc \in Flushed /\ request[p].pc \in PastLoad /\ "numbered" \in PastLoad
  BY <1>1 DEF PastLoad, Flushed
<1>4. f \in RequestType
  BY <1>1, <1>2, <1>3 DEF RequestType
<1>5. /\ f.pc = "numbered" /\ f.kind = request[p].kind /\ f.session = request[p].session
      /\ f.next = request[p].next /\ f.stage = request[p].stage /\ f.shown = request[p].shown
  BY <1>1 DEF RequestType
<1>6. Carries(f)
  BY <1>1, <1>5 DEF Carries
<1>7. QED
  BY <1>1, <1>3, <1>4, <1>6, GoesOn DEF RequestType

LEMMA TurnAttachStep ==
  ASSUME OneTab, TakingInv, NEW p \in Requests, Taking!TurnAttach(p) PROVE TakingInv'
<1> USE DEF TakingInv
<1> DEFINE f == [request[p] EXCEPT !.pc = "done"]
<1>1. request[p].pc = "numbered" /\ Taking!Step /\ request[p] \in RequestType /\ Carries(request[p])
  BY DEF Taking!TurnAttach, TakingTypes, OneTurn
<1>2. request[p].pc \in Flushed /\ request[p].pc \in PastLoad /\ "done" \in PastLoad
  BY <1>1 DEF PastLoad, Flushed
<1>3. f \in RequestType /\ Carries(f)
  BY <1>1, <1>2 DEF RequestType, Carries
<1>4. CASE Taking!Abort(p)
  BY <1>1, <1>4, Aborts DEF Taking!Step
<1>5. CASE Taking!Proceed(p, f)
  BY <1>1, <1>2, <1>3, <1>5, GoesOn DEF RequestType
<1>6. QED
  BY <1>4, <1>5 DEF Taking!TurnAttach

LEMMA AskedNext ==
  ASSUME NEW q \in Seq(Nat), NEW x \in Nat, NEW A,
         \A i \in 1 .. Len(q) - 1 : i \in A, Len(q) \in A,
         \A i, j \in DOMAIN q : q[i] = q[j] => i = j,
         \A i \in DOMAIN q : q[i] # x
  PROVE  /\ Append(q, x) \in Seq(Nat)
         /\ \A i \in 1 .. Len(Append(q, x)) - 1 : i \in A
         /\ \A i, j \in DOMAIN Append(q, x) : Append(q, x)[i] = Append(q, x)[j] => i = j
<1>1. /\ Append(q, x) \in Seq(Nat) /\ Len(q) \in Nat
      /\ Len(Append(q, x)) = Len(q) + 1 /\ DOMAIN Append(q, x) = 1 .. Len(q) + 1
      /\ \A i \in 1 .. Len(q) : Append(q, x)[i] = q[i]
      /\ Append(q, x)[Len(q) + 1] = x /\ DOMAIN q = 1 .. Len(q)
  OBVIOUS
<1>2. QED
  BY <1>1

LEMMA FollowedUp ==
  ASSUME NEW f \in [1 .. LastQuestion -> Nat], NEW x, NEW v \in {f[x], f[x] + 1}
  PROVE  [f EXCEPT ![x] = v] \in [1 .. LastQuestion -> Nat]
<1> DEFINE Q == 1 .. LastQuestion
           g == [f EXCEPT ![x] = v]
<1>1. f \in [Q -> Nat]
  OBVIOUS
<1> HIDE DEF Q
<1>2. ASSUME x \in Q PROVE v \in Nat
  <2>1. f[x] \in Nat
    BY <1>1, <1>2
  <2>2. f[x] + 1 \in Nat
    BY <2>1
  <2>3. QED
    BY <2>1, <2>2
<1>3. g = [y \in Q |-> IF y = x THEN v ELSE f[y]]
  BY <1>1
<1> HIDE DEF g
<1>4. \A y \in Q : g[y] \in Nat
  BY <1>1, <1>2, <1>3
<1>5. g \in [Q -> Nat]
  BY <1>3, <1>4
<1>6. QED
  BY <1>5 DEF g, Q

\* The question a turn adds is none of those asked, and the one before it is the one the
\* turn answers.
LEMMA Appended ==
  ASSUME NEW a \in Seq(Nat), NEW x \in Nat
  PROVE  Append(a, x) \in Seq(Nat)
  OBVIOUS

LEMMA TurnCommitStep ==
  ASSUME OneTab, TakingInv, NEW p \in Requests, Taking!TurnCommit(p) PROVE TakingInv'
<1> DEFINE r == request[p]
           s == sessions[r.session]
           w == Taking!AfterTurn(r, s)
<1> USE DEF TakingInv
<1>1. /\ r.pc = "done" /\ r.kind # "onboarding" /\ Taking!Committed(p, w)
      /\ r \in RequestType /\ s \in RowType /\ r.session \in Taking!SessionIds
      /\ OnItsWay(r) /\ Carries(r) /\ sessions \in [Taking!SessionIds -> RowType]
  BY DEF Taking!TurnCommit, TakingTypes, OneTurn, KeysKnown
<1>2. r.pc \in Flushed /\ r.pc \in PastLoad
  BY <1>1 DEF PastLoad, Flushed
<1>3. /\ w.status = s.status /\ w.key = s.key /\ w.said = s.said \cup {r.key}
      /\ w.stage = s.stage /\ w.announced = s.announced
      /\ w.lastKey \in {s.lastKey, r.key}
      /\ w.version = IF r.saved THEN r.version + 1 ELSE s.version
      /\ w.answered = IF r.kind = "control" THEN s.answered ELSE s.answered \cup {r.shown}
      /\ w.asked = IF r.next = 0 THEN s.asked ELSE Append(s.asked, r.next)
      /\ w.followups = [s.followups EXCEPT ![s.asked[r.shown]] =
                          IF r.kind = "followup" THEN @ + 1 ELSE @]
      /\ DOMAIN w = DOMAIN s
  BY <1>1 DEF Taking!AfterTurn, RowType
<1> HIDE DEF w
<1>4. w \in RowType
  <2>1. w.followups \in [1 .. LastQuestion -> Nat]
    <3>1. s.followups \in [1 .. LastQuestion -> Nat]
      BY <1>1 DEF RowType
    <3> DEFINE f == s.followups
               x == s.asked[r.shown]
               v == IF r.kind = "followup" THEN f[x] + 1 ELSE f[x]
    <3>2. w.followups = [f EXCEPT ![x] = v]
      BY <1>3
    <3>3. v \in {f[x], f[x] + 1}
      OBVIOUS
    <3> HIDE DEF f, x, v
    <3>4. f \in [1 .. LastQuestion -> Nat]
      BY <3>1 DEF f
    <3>5. [f EXCEPT ![x] = v] \in [1 .. LastQuestion -> Nat]
      BY <3>3, <3>4, FollowedUp, Zenon
    <3>6. QED
      BY <3>2, <3>5
  <2>2. w.asked \in Seq(Nat)
    <3>1. s.asked \in Seq(Nat) /\ r.next \in Nat
      BY <1>1 DEF RowType, RequestType
    <3>2. w.asked = s.asked \/ w.asked = Append(s.asked, r.next)
      BY <1>3
    <3>3. Append(s.asked, r.next) \in Seq(Nat)
      BY <3>1, Appended
    <3> HIDE DEF r, s
    <3>4. QED
      BY <3>1, <3>2, <3>3
  <2>3. w.version \in Nat /\ w.lastKey \in Nat /\ w.said \subseteq Nat /\ w.answered \subseteq Nat
    <3>1. /\ r.version \in Nat /\ r.key \in Nat /\ r.shown \in Nat
          /\ s.version \in Nat /\ s.lastKey \in Nat /\ s.said \subseteq Nat
          /\ s.answered \subseteq Nat
      BY <1>1 DEF RowType, RequestType
    <3>2. /\ w.said = s.said \cup {r.key} /\ w.lastKey \in {s.lastKey, r.key}
          /\ w.version \in {r.version + 1, s.version}
          /\ w.answered \subseteq s.answered \cup {r.shown}
      BY <1>3
    <3>3. QED
      BY <3>1, <3>2
  <2>4. QED
    BY <1>1, <1>3, <2>1, <2>2, <2>3 DEF RowType, Taking!AfterTurn, w
<1>5. sessions'[r.session] = w
        /\ \A n \in Taking!SessionIds \ {r.session} : sessions'[n] = sessions[n]
  BY <1>1 DEF Taking!Committed
<1>6. r.next # 0 => r.shown = Len(s.asked) /\ r.kind # "control"
  BY <1>1, <1>2 DEF OnItsWay, Carries, Place
<1>7. /\ \A i \in 1 .. Len(w.asked) - 1 : i \in w.answered
      /\ \A i, j \in DOMAIN w.asked : w.asked[i] = w.asked[j] => i = j
  <2>1. /\ \A i \in 1 .. Len(s.asked) - 1 : i \in s.answered
        /\ \A i, j \in DOMAIN s.asked : s.asked[i] = s.asked[j] => i = j
    BY <1>1 DEF Taking!NoQuestionSkipped
  <2>2. s.asked \in Seq(Nat) /\ r.next \in Nat
    BY <1>1 DEF RowType, RequestType
  <2>3. CASE r.next = 0
    BY <1>3, <2>1, <2>3
  <2>4. CASE r.next # 0
    <3>1. \A i \in DOMAIN s.asked : s.asked[i] # r.next
      BY <1>1, <2>4 DEF Carries
    <3>2. /\ w.answered = s.answered \cup {r.shown} /\ r.shown = Len(s.asked)
          /\ w.asked = Append(s.asked, r.next)
      BY <1>3, <1>6, <2>4
    <3>3. Len(s.asked) \in w.answered /\ \A i \in 1 .. Len(s.asked) - 1 : i \in w.answered
      BY <2>1, <3>2
    <3>4. QED
      BY <2>1, <2>2, <3>1, <3>2, <3>3, AskedNext
  <2>5. QED
    BY <2>3, <2>4
<1>8. Taking!NoQuestionSkipped'
  BY <1>5, <1>7 DEF Taking!NoQuestionSkipped
<1>9. QED
  BY <1>1, <1>2, <1>3, <1>4, <1>8, Commits
-----------------------------------------------------------------------------
(* The steps of a reply to the onboarding *)

LEMMA OnboardLoadStep ==
  ASSUME OneTab, TakingInv, NEW p \in Requests, Taking!OnboardLoad(p) PROVE TakingInv'
<1> DEFINE n == request[p].session
           f == [request[p] EXCEPT !.pc = "heard"]
<1> USE DEF TakingInv
<1>1. request[p].pc = "sent" /\ request[p].kind = "onboarding" /\ Taking!Step
      /\ request[p] \in RequestType
  BY DEF Taking!OnboardLoad, TakingTypes
<1>2. CASE Taking!Live(n) /\ ~Taking!Said(p) /\ sessions[n].stage = request[p].shown
  <2>1. Taking!Proceed(p, f)
    BY <1>2 DEF Taking!OnboardLoad
  <2>2. f \in RequestType /\ f.pc = "heard"
    BY <1>1 DEF RequestType, PastLoad
  <2>3. OnItsWay(request[p]) /\ Carries(request[p])
    BY <1>1 DEF OneTurn
  <2>4. OnItsWay(f) /\ Carries(f)
    BY <1>1, <1>2, <2>2, <2>3 DEF OnItsWay, Carries, Posted, Place, Flushed, RequestType
  <2>5. f.pc \in PastLoad /\ f.pc \notin Flushed
    BY <2>2 DEF PastLoad, Flushed
  <2>6. f.key = request[p].key /\ f.tab = request[p].tab /\ f.session = request[p].session
    BY <1>1 DEF RequestType
  <2> HIDE DEF f
  <2>7. QED
    BY <1>1, <1>2, <2>1, <2>2, <2>4, <2>5, <2>6, Proceeds
<1>3. CASE ~(Taking!Live(n) /\ ~Taking!Said(p) /\ sessions[n].stage = request[p].shown)
  <2>1. Taking!Answer(p, Taking!Page(n)) /\ UNCHANGED <<sessions, start, keys>>
    BY <1>3 DEF Taking!OnboardLoad, Taking!Step
  <2>2. Posted(request[p]) \/ ~Taking!Live(n)
    BY <1>1, <1>3, Current DEF Place, Taking!Said, Posted
  <2>3. QED
    BY <1>1, <2>1, <2>2, LeavesUnchanged
<1>4. QED
  BY <1>2, <1>3

LEMMA OnboardRecordStep ==
  ASSUME OneTab, TakingInv, NEW p \in Requests, Taking!OnboardRecord(p) PROVE TakingInv'
<1> USE DEF TakingInv
<1> DEFINE shown == request[p].shown
           targets == {shown, shown + 1} \cup IF shown < LastStage - 1 THEN {LastStage - 1} ELSE {}
           n == request[p].session
<1>1. request[p].pc = "heard" /\ Taking!Step /\ Taking!Unsaid(p) /\ request[p] \in RequestType
      /\ Carries(request[p]) /\ OnItsWay(request[p]) /\ request[p].pc \in PastLoad
      /\ request[p].kind = "onboarding"
  BY DEF Taking!OnboardRecord, TakingTypes, OneTurn, PastLoad, Carries
<1>2. CASE Taking!Said(p)
  BY <1>1, <1>2, LeavesUnchanged DEF Taking!OnboardRecord, Taking!Step, Taking!Said, Posted
<1>3. CASE ~Taking!Said(p)
  <2>1. PICK stage \in targets :
          Taking!Proceed(p, [request[p] EXCEPT !.pc = IF stage = shown THEN "done" ELSE "decided",
                                        !.stage = stage])
    BY <1>3 DEF Taking!OnboardRecord
  <2> DEFINE f == [request[p] EXCEPT !.pc = IF stage = shown THEN "done" ELSE "decided",
                                     !.stage = stage]
  <2>2. ~Posted(request[p]) /\ \A o \in Taking!Rivals(p) : request[o].pc \notin Flushed
    BY <1>1, <1>3, FlushesAlone DEF Posted, Taking!Said
  <2>3. stage \in 0 .. LastStage /\ stage >= shown /\ shown \in Nat
    BY <1>1, TakingAssumption DEF Carries, RequestType
  <2>4. f \in RequestType /\ f.pc \in PastLoad
    BY <1>1, <2>3 DEF RequestType, PastLoad, Flushed
  <2>5. Carries(f)
    BY <1>1, <2>3 DEF Carries, RequestType
  <2>6. QED
    BY <1>1, <2>1, <2>2, <2>4, <2>5, GoesOn DEF RequestType
<1>4. QED
  BY <1>2, <1>3

LEMMA OnboardLookStep ==
  ASSUME OneTab, TakingInv, NEW p \in Requests, Taking!OnboardLook(p) PROVE TakingInv'
<1> USE DEF TakingInv
<1> DEFINE unannounced == request[p].stage \notin sessions[request[p].session].announced
           f == [request[p] EXCEPT !.pc = "looked", !.announce = unannounced]
<1>1. request[p].pc = "decided" /\ Taking!Step /\ request[p] \in RequestType /\ Carries(request[p])
      /\ Taking!Proceed(p, f)
  BY DEF Taking!OnboardLook, TakingTypes, OneTurn
<1>2. request[p].pc \in Flushed /\ request[p].pc \in PastLoad /\ "looked" \in PastLoad
  BY <1>1 DEF PastLoad, Flushed
<1>3. unannounced \in BOOLEAN
  OBVIOUS
<1> HIDE DEF unannounced
<1>4. f \in RequestType /\ Carries(f)
  BY <1>1, <1>2, <1>3 DEF RequestType, Carries
<1>5. QED
  BY <1>1, <1>2, <1>4, GoesOn DEF RequestType

LEMMA OnboardWriteStep ==
  ASSUME OneTab, TakingInv, NEW p \in Requests, Taking!OnboardWrite(p) PROVE TakingInv'
<1> USE DEF TakingInv
<1> DEFINE f == [request[p] EXCEPT !.pc = "written"]
<1>1. request[p].pc = "looked" /\ Taking!Step /\ request[p] \in RequestType /\ Carries(request[p])
  BY DEF Taking!OnboardWrite, TakingTypes, OneTurn
<1>2. request[p].pc \in Flushed /\ request[p].pc \in PastLoad /\ "written" \in PastLoad
  BY <1>1 DEF PastLoad, Flushed
<1>3. f \in RequestType /\ Carries(f)
  BY <1>1, <1>2 DEF RequestType, Carries
<1>4. CASE Taking!Abort(p)
  BY <1>1, <1>4, Aborts DEF Taking!Step
<1>5. CASE Taking!Proceed(p, f)
  BY <1>1, <1>2, <1>3, <1>5, GoesOn DEF RequestType
<1>6. QED
  BY <1>4, <1>5 DEF Taking!OnboardWrite

\* The stage written is not before the one the session is at.
LEMMA OnboardCommitStep ==
  ASSUME OneTab, TakingInv, NEW p \in Requests, Taking!OnboardCommit(p)
  PROVE  TakingInv' /\ \A n \in Taking!SessionIds : sessions'[n].stage >= sessions[n].stage
<1> DEFINE r == request[p]
           s == sessions[r.session]
           w == Taking!AfterOnboarding(r, s)
<1> USE DEF TakingInv
<1>1. /\ r.pc \in {"done", "written"} /\ r.kind = "onboarding" /\ Taking!Committed(p, w)
      /\ r \in RequestType /\ s \in RowType /\ r.session \in Taking!SessionIds
      /\ OnItsWay(r) /\ Carries(r) /\ sessions \in [Taking!SessionIds -> RowType]
  BY DEF Taking!OnboardCommit, TakingTypes, OneTurn, KeysKnown
<1>2. r.pc \in Flushed /\ r.pc \in PastLoad
  BY <1>1 DEF PastLoad, Flushed
<1>3. /\ w.status = s.status /\ w.key = s.key /\ w.said = s.said \cup {r.key}
      /\ w.lastKey = s.lastKey /\ w.asked = s.asked /\ w.answered = s.answered
      /\ w.stage = IF r.pc = "written" THEN r.stage ELSE s.stage
  BY <1>1 DEF Taking!AfterOnboarding, RowType
<1>4. w \in RowType
  BY <1>1 DEF Taking!AfterOnboarding, RowType, RequestType
<1> HIDE DEF w
<1>5. sessions'[r.session] = w
        /\ \A n \in Taking!SessionIds \ {r.session} : sessions'[n] = sessions[n]
  BY <1>1 DEF Taking!Committed
<1>6. Taking!NoQuestionSkipped'
  BY <1>3, <1>5 DEF Taking!NoQuestionSkipped
<1>7. TakingInv'
  BY <1>1, <1>2, <1>3, <1>4, <1>6, Commits
<1>8. w.stage >= s.stage
  BY <1>1, <1>2, <1>3 DEF OnItsWay, Carries, Place, RowType
<1>9. \A n \in Taking!SessionIds : sessions[n].stage >= sessions[n].stage
  BY <1>1 DEF RowType
<1>10. QED
  BY <1>5, <1>7, <1>8, <1>9

LEMMA RequestFailsStep ==
  ASSUME OneTab, TakingInv, NEW p \in Requests, Taking!RequestFails(p) PROVE TakingInv'
  BY Aborts DEF Taking!RequestFails
-----------------------------------------------------------------------------
(* The steps of a start *)

\* What is begun, and what it makes, changes nothing for the turns of other sessions.
LEMMA TurnsKept ==
  ASSUME TakingInv, UNCHANGED request, keys' = keys \/ keys' = keys + 1,
         \A n \in Taking!SessionIds : sessions'[n] = sessions[n] \/ sessions[n].status = "absent",
         \A t \in Tabs :
            \/ /\ tab'[t].key = tab[t].key /\ tab'[t].session = tab[t].session
               /\ tab'[t].stage = tab[t].stage /\ tab'[t].place = tab[t].place
            \/ /\ tab[t].key = 0 /\ tab'[t].key = 0
               /\ tab'[t].place = Len(sessions'[tab'[t].session].asked)
               /\ tab'[t].stage = sessions'[tab'[t].session].stage
  PROVE  OneTurn'
<1> USE DEF TakingInv
<1>1. \A p \in Requests : request[p].pc # "idle" =>
         /\ sessions'[request[p].session] = sessions[request[p].session]
         /\ request[p].tab \in Tabs /\ request[p].key # 0
         /\ OnItsWay(request[p]) /\ Carries(request[p])
  BY DEF KeysKnown, OneTurn
<1>2. \A p \in Requests : request[p].pc # "idle" => OnItsWay(request[p])'
  <2> SUFFICES ASSUME NEW p \in Requests, request[p].pc # "idle" PROVE OnItsWay(request[p])'
    OBVIOUS
  <2> DEFINE u == request[p].tab
  <2>1. \/ /\ tab'[u].key = tab[u].key /\ tab'[u].session = tab[u].session
           /\ tab'[u].stage = tab[u].stage /\ tab'[u].place = tab[u].place
        \/ request[p].key # tab[u].key /\ request[p].key # tab'[u].key
    BY <1>1
  <2>2. QED
    BY <1>1, <2>1 DEF OnItsWay, Posted, Place, Taking!Ended
<1>3. \A p \in Requests : request[p].pc # "idle" => Carries(request[p])'
  BY <1>1 DEF Carries
<1>4. \A p \in Requests : request[p].pc \in PastLoad => (Posted(request[p])' <=> Posted(request[p]))
  BY <1>1 DEF Posted, PastLoad, Flushed
<1>5. ASSUME NEW t \in Tabs, tab'[t].session # 0, Taking!Live(tab[t].session)',
             tab'[t].key \notin sessions'[tab'[t].session].said
      PROVE  /\ tab'[t].place = Len(sessions'[tab'[t].session].asked)
             /\ tab'[t].stage = sessions'[tab'[t].session].stage
  <2>1. CASE /\ tab'[t].key = tab[t].key /\ tab'[t].session = tab[t].session
             /\ tab'[t].stage = tab[t].stage /\ tab'[t].place = tab[t].place
    <3>1. sessions'[tab[t].session] = sessions[tab[t].session]
      BY <1>5, <2>1 DEF KeysKnown
    <3>2. QED
      BY <1>5, <2>1, <3>1 DEF OneTurn, Taking!Live
  <2>2. QED
    BY <2>1
<1>6. QED
  BY <1>2, <1>3, <1>4, <1>5 DEF OneTurn

\* A start that goes on, or ends with nothing.
LEMMA StartGoesOn ==
  ASSUME TakingInv, NEW s \in Starts, NEW f \in StartType, start' = [start EXCEPT ![s] = f],
         UNCHANGED <<sessions, request, tab, keys>>,
         f.pc = "idle" \/ (f.key \in 1 .. keys /\ f.tab \in Tabs /\ Startable(f)),
         f.pc = "inserted" => \A o \in Starts \ {s} : start[o].pc = "inserted" =>
                                start[o].key # f.key /\ start[o].number # f.number
  PROVE  TakingInv'
<1> USE DEF TakingInv
<1>1. /\ start' \in [Starts -> StartType] /\ start'[s] = f
      /\ \A o \in Starts \ {s} : start'[o] = start[o]
  BY DEF TakingTypes
<1>2. TakingTypes' /\ SessionOnce' /\ Taking!NoQuestionSkipped'
  BY <1>1 DEF TakingTypes, SessionOnce, Taking!NoQuestionSkipped
<1>3. KeysKnown'
  BY <1>1 DEF KeysKnown
<1>4. OneTurn'
  BY TurnsKept
<1>5. \A o \in Starts : start'[o].pc # "idle" => Startable(start'[o])
  BY <1>1 DEF OneStarts
<1>6. \A o \in Starts : start'[o].pc # "idle" => Startable(start[o])'
  BY <1>5 DEF Startable, Made, Barred, Taking!Ended
<1>7. \A o, q \in Starts :
         start'[o].pc = "inserted" /\ start'[q].pc = "inserted" /\ o # q
         => start'[o].key # start'[q].key /\ start'[o].number # start'[q].number
  BY <1>1 DEF OneStarts
<1>8. OneStarts'
  BY <1>6, <1>7 DEF OneStarts, Taking!Live, Barred, Taking!Ended
<1>9. QED
  BY <1>2, <1>3, <1>4, <1>8

LEMMA StartEndsWithNothing ==
  ASSUME TakingInv, NEW s \in Starts, start' = [start EXCEPT ![s] = Taking!NoStart],
         UNCHANGED <<sessions, request, tab, keys>>
  PROVE  TakingInv'
<1>1. Taking!NoStart \in StartType /\ Taking!NoStart.pc = "idle"
  BY DEF Taking!NoStart, StartType
<1> HIDE DEF Taking!NoStart
<1>2. QED
  BY <1>1, StartGoesOn

\* With one tab, a session in progress is the one its start made or the one it shows.
LEMMA LiveIsTabs ==
  ASSUME OneTab, TakingInv, NEW n \in Taking!SessionIds, Taking!Live(n), NEW t \in Tabs
  PROVE  /\ ~Barred
         /\ tab[t].start # 0 => sessions[n].key = tab[t].start
         /\ tab[t].start = 0 => tab[t].session = n
<1>1. /\ ~Barred
      /\ \E u \in Tabs : \/ sessions[n].key = tab[u].start
                         \/ tab[u].start = 0 /\ tab[u].session = n
  BY DEF TakingInv, OneStarts
<1>2. \/ sessions[n].key = tab[t].start
      \/ tab[t].start = 0 /\ tab[t].session = n
  BY <1>1 DEF OneTab
<1>3. sessions[n].key # 0
  BY DEF TakingInv, SessionOnce, Taking!Live
<1>4. QED
  BY <1>1, <1>2, <1>3

\* A start that ends with a session that is live, or that its key made.
LEMMA Enters ==
  ASSUME OneTab, TakingInv, NEW s \in Starts, start[s].pc # "idle", NEW n \in Taking!SessionIds,
         Taking!Entered(s, n), Taking!Live(n) \/ sessions[n].key = start[s].key
  PROVE  TakingInv'
<1> USE DEF TakingInv
<1> DEFINE t == start[s].tab
           k == start[s].key
<1>1. /\ t \in Tabs /\ k \in 1 .. keys /\ k # 0 /\ keys \in Nat /\ n # 0 /\ n \in Nat
      /\ start' = [start EXCEPT ![s] = Taking!NoStart] /\ UNCHANGED <<sessions, request, keys>>
  BY TakingAssumption DEF KeysKnown, TakingTypes, Taking!Entered, Taking!SessionIds
<1>2. CASE tab' = tab
  BY <1>1, <1>2, StartEndsWithNothing
<1>3. CASE tab[t].start = k /\ tab' = [tab EXCEPT ![t] = Taking!Page(n)]
  <2>1. sessions[n].key = k
    BY <1>1, <1>3, LiveIsTabs
  <2>2. sessions[n].status # "absent" /\ tab[t].key = 0
    BY <1>1, <1>3, <2>1 DEF SessionOnce, Taking!NoSession, KeysKnown
  <2>3. /\ Taking!NoStart \in StartType /\ Taking!NoStart.pc = "idle"
        /\ start' \in [Starts -> StartType] /\ start'[s] = Taking!NoStart
        /\ \A o \in Starts \ {s} : start'[o] = start[o]
    BY <1>1 DEF TakingTypes, Taking!NoStart, StartType
  <2>4. /\ Taking!Page(n) \in PageType /\ Taking!Page(n).start = 0 /\ Taking!Page(n).key = 0
        /\ Taking!Page(n).session = n
        /\ Taking!Page(n).stage = sessions[n].stage /\ Taking!Page(n).place = Len(sessions[n].asked)
    <3>1. sessions[n] \in RowType /\ Taking!Page(n) = Taking!PageAfter(n, sessions[n])
      BY DEF TakingTypes, Taking!Page, Taking!PageAfter
    <3>2. Taking!Page(n) \in PageType
      BY <1>1, <3>1, PageTyped
    <3>3. QED
      BY <3>2 DEF Taking!Page, Taking!NoPage
  <2>5. /\ tab' \in [Tabs -> PageType] /\ tab'[t] = Taking!Page(n)
        /\ \A u \in Tabs : u = t
    BY <1>1, <1>3, <2>4 DEF TakingTypes, OneTab
  <2> HIDE DEF t, k
  <2>6. TakingTypes' /\ SessionOnce' /\ Taking!NoQuestionSkipped'
    BY <1>1, <2>3, <2>5 DEF TakingTypes, SessionOnce, Taking!NoQuestionSkipped
  <2>7. KeysKnown'
    BY <1>1, <2>2, <2>3, <2>4, <2>5 DEF KeysKnown
  <2>8. OneTurn'
    BY <1>1, <2>2, <2>4, <2>5, TurnsKept
  <2>9. Made(k) /\ \A x : (Made(x)' <=> Made(x)) /\ (Barred' <=> Barred)
    BY <1>1, <2>1 DEF Made, Barred, Taking!Ended
  <2>10. \A o \in Starts : start'[o].pc # "idle" => Startable(start[o])'
    <3> SUFFICES ASSUME NEW o \in Starts, start'[o].pc # "idle" PROVE Startable(start[o])'
      OBVIOUS
    <3>1. o # s /\ start'[o] = start[o] /\ start[o].tab = t /\ Startable(start[o])
      BY <2>3, <2>5 DEF KeysKnown, OneStarts
    <3>2. tab[t].start = k /\ tab'[t].start = 0
      BY <1>3, <2>4, <2>5 DEF t, k
    <3>3. Made(start[o].key)' <=> Made(start[o].key)
      BY <1>1, <3>1 DEF Made
    <3>4. start[o].key = k => Made(start[o].key)
      BY <2>9
    <3>5. Made(start[o].key) \/ (start[o].key # k /\ start[o].key # 0)
      BY <3>1, <3>4, <2>3 DEF KeysKnown, TakingTypes
    <3>6. QED
      BY <1>1, <2>9, <3>1, <3>2, <3>3, <3>5 DEF Startable
  <2>11. \A m \in Taking!SessionIds : Taking!Live(m) => ~Barred /\ m = n
    BY <1>1, <1>3, <2>1, LiveIsTabs DEF SessionOnce, t, k
  <2>12. OneStarts'
    BY <1>1, <2>3, <2>4, <2>5, <2>9, <2>10, <2>11 DEF OneStarts, Taking!Live
  <2>13. QED
    BY <2>6, <2>7, <2>8, <2>12
<1>4. QED
  BY <1>1, <1>2, <1>3 DEF Taking!Entered

LEMMA EntersNone ==
  ASSUME TakingInv, NEW s \in Starts, Taking!Entered(s, 0) PROVE TakingInv'
  BY StartEndsWithNothing DEF Taking!Entered

LEMMA StartKeyedStep ==
  ASSUME OneTab, TakingInv, NEW s \in Starts, Taking!StartKeyed(s) PROVE TakingInv'
<1> DEFINE made == {n \in Taking!SessionIds : sessions[n].key = start[s].key}
           f == [start[s] EXCEPT !.pc = "unknown"]
<1> USE DEF TakingInv
<1>1. start[s].pc = "sent" /\ start[s] \in StartType /\ Startable(start[s])
      /\ start[s].key \in 1 .. keys /\ start[s].tab \in Tabs
  BY DEF Taking!StartKeyed, TakingTypes, OneStarts, KeysKnown
<1>2. ASSUME NEW n \in made, Taking!Entered(s, n) PROVE TakingInv'
  BY <1>1, <1>2, Enters
<1>3. CASE Taking!Advances(s, f)
  <2>1. f \in StartType /\ f.pc = "unknown" /\ f.key = start[s].key /\ f.tab = start[s].tab
    BY <1>1 DEF StartType
  <2>2. Startable(f)
    BY <1>1, <2>1 DEF Startable
  <2> HIDE DEF f
  <2>3. QED
    BY <1>1, <1>3, <2>1, <2>2, StartGoesOn DEF Taking!Advances
<1>4. QED
  BY <1>2, <1>3 DEF Taking!StartKeyed

LEMMA StartActiveStep ==
  ASSUME OneTab, TakingInv, NEW s \in Starts, Taking!StartActive(s) PROVE TakingInv'
<1> DEFINE f == [start[s] EXCEPT !.pc = "inactive"]
<1> USE DEF TakingInv
<1>1. start[s].pc = "unknown" /\ start[s] \in StartType /\ Startable(start[s])
      /\ start[s].key \in 1 .. keys /\ start[s].tab \in Tabs
  BY DEF Taking!StartActive, TakingTypes, OneStarts, KeysKnown
<1>2. ASSUME NEW n \in Taking!SessionIds, Taking!Live(n), Taking!Entered(s, n) PROVE TakingInv'
  BY <1>1, <1>2, Enters
<1>3. CASE Taking!Advances(s, f)
  <2>1. f \in StartType /\ f.pc = "inactive" /\ f.key = start[s].key /\ f.tab = start[s].tab
    BY <1>1 DEF StartType
  <2>2. Startable(f)
    BY <1>1, <2>1 DEF Startable
  <2> HIDE DEF f
  <2>3. QED
    BY <1>1, <1>3, <2>1, <2>2, StartGoesOn DEF Taking!Advances
<1>4. QED
  BY <1>2, <1>3 DEF Taking!StartActive

LEMMA ExhaustedIs == Cardinality({n \in Taking!SessionIds : Taking!Ended(n)}) \in Nat
<1>1. IsFiniteSet(Taking!SessionIds)
  BY FS_Interval, TakingAssumption DEF Taking!SessionIds
<1>2. IsFiniteSet({n \in Taking!SessionIds : Taking!Ended(n)})
  BY <1>1, FS_Subset
<1>3. QED
  BY <1>2, FS_CardinalityType

LEMMA StartGateStep ==
  ASSUME OneTab, TakingInv, NEW s \in Starts, Taking!StartGate(s) PROVE TakingInv'
<1> DEFINE f == [start[s] EXCEPT !.pc = "allowed"]
           t == start[s].tab
           k == start[s].key
<1> USE DEF TakingInv
<1>1. start[s].pc = "inactive" /\ start[s] \in StartType /\ Startable(start[s])
      /\ k \in 1 .. keys /\ t \in Tabs /\ k # 0 /\ keys \in Nat
  BY DEF Taking!StartGate, TakingTypes, OneStarts, KeysKnown
<1>2. CASE ~Barred
  <2>1. Taking!Advances(s, f)
    BY <1>2, SameCardinality DEF Taking!StartGate, Barred
  <2>2. f \in StartType /\ f.pc = "allowed" /\ f.key = start[s].key /\ f.tab = start[s].tab
    BY <1>1 DEF StartType
  <2>3. Startable(f)
    BY <1>1, <1>2, <2>2 DEF Startable
  <2> HIDE DEF f
  <2>4. QED
    BY <1>1, <2>1, <2>2, <2>3, StartGoesOn DEF Taking!Advances
<1>3. CASE Barred /\ tab[t].start = k
  <2>1. /\ start' = [start EXCEPT ![s] = Taking!NoStart] /\ UNCHANGED <<sessions, request, keys>>
        /\ tab' = [tab EXCEPT ![t].start = 0]
    BY <1>3, SameCardinality DEF Taking!StartGate, Barred
  <2>2. /\ Taking!NoStart \in StartType /\ Taking!NoStart.pc = "idle"
        /\ start' \in [Starts -> StartType] /\ start'[s] = Taking!NoStart
        /\ \A o \in Starts \ {s} : start'[o] = start[o]
    BY <2>1 DEF TakingTypes, Taking!NoStart, StartType
  <2>3. /\ tab' \in [Tabs -> PageType] /\ tab'[t] = [tab[t] EXCEPT !.start = 0]
        /\ \A u \in Tabs : u = t
    BY <1>1, <2>1 DEF TakingTypes, OneTab, PageType
  <2>4. /\ tab'[t].start = 0 /\ tab'[t].key = tab[t].key /\ tab'[t].session = tab[t].session
        /\ tab'[t].place = tab[t].place /\ tab'[t].stage = tab[t].stage
    BY <1>1, <2>3 DEF TakingTypes, PageType
  <2> HIDE DEF t, k
  <2>5. TakingTypes' /\ SessionOnce' /\ Taking!NoQuestionSkipped'
    BY <2>1, <2>2, <2>3 DEF TakingTypes, SessionOnce, Taking!NoQuestionSkipped
  <2>6. KeysKnown'
    BY <1>1, <2>1, <2>2, <2>3, <2>4 DEF KeysKnown
  <2>7. OneTurn'
    BY <2>1, <2>3, <2>4, TurnsKept
  <2>8. Barred'
    BY <1>3, <2>1 DEF Barred, Taking!Ended
  <2>9. \A o \in Starts : start'[o].pc # "idle" => Startable(start[o])'
    <3> SUFFICES ASSUME NEW o \in Starts, start'[o].pc # "idle" PROVE Startable(start[o])'
      OBVIOUS
    <3>1. o # s /\ start'[o] = start[o] /\ start[o].tab = t /\ Startable(start[o])
      BY <2>2, <2>3 DEF KeysKnown, OneStarts
    <3>2. Made(start[o].key)' <=> Made(start[o].key)
      BY <2>1, <3>1 DEF Made
    <3>3. QED
      BY <1>3, <2>1, <2>8, <3>1, <3>2 DEF Startable
  <2>10. \A m \in Taking!SessionIds : ~Taking!Live(m)
    BY <1>1, <1>3, LiveIsTabs
  <2>11. OneStarts'
    BY <2>1, <2>2, <2>9, <2>10 DEF OneStarts, Taking!Live
  <2>12. QED
    BY <2>5, <2>6, <2>7, <2>11
<1>4. CASE Barred /\ tab[t].start # k
  <2>1. tab' = tab
    BY <1>1, <1>4, SameCardinality DEF Taking!StartGate, Barred, TakingTypes, PageType
  <2>2. start' = [start EXCEPT ![s] = Taking!NoStart] /\ UNCHANGED <<sessions, request, keys>>
    BY <1>4, SameCardinality DEF Taking!StartGate, Barred
  <2>3. QED
    BY <2>1, <2>2, StartEndsWithNothing
<1>5. QED
  BY <1>2, <1>3, <1>4

LEMMA StartNumberStep ==
  ASSUME OneTab, TakingInv, NEW s \in Starts, Taking!StartNumber(s) PROVE TakingInv'
<1> DEFINE used == {n \in Taking!SessionIds : sessions[n].status # "absent"}
           number == Cardinality(used) + 1
           f == [start[s] EXCEPT !.pc = "numbered", !.number = number]
<1> USE DEF TakingInv
<1>1. start[s].pc = "allowed" /\ start[s] \in StartType /\ Startable(start[s])
      /\ start[s].key \in 1 .. keys /\ start[s].tab \in Tabs
      /\ Cardinality(used) < MaxSessions /\ Taking!Advances(s, f)
  BY SameCardinality DEF Taking!StartNumber, TakingTypes, OneStarts, KeysKnown
<1>2. Cardinality(used) \in Nat
  <2>1. IsFiniteSet(Taking!SessionIds)
    BY FS_Interval, TakingAssumption DEF Taking!SessionIds
  <2>2. IsFiniteSet(used)
    BY <2>1, FS_Subset
  <2>3. QED
    BY <2>2, FS_CardinalityType
<1> HIDE DEF used
<1>3. number \in Taking!SessionIds /\ number \in Nat
  BY <1>1, <1>2, TakingAssumption DEF Taking!SessionIds
<1> HIDE DEF number
<1>4. f \in StartType /\ f.pc = "numbered" /\ f.key = start[s].key /\ f.tab = start[s].tab
      /\ f.number = number
  BY <1>1, <1>3 DEF StartType
<1>5. Startable(f)
  BY <1>1, <1>3, <1>4 DEF Startable
<1> HIDE DEF f
<1>6. QED
  BY <1>1, <1>4, <1>5, StartGoesOn DEF Taking!Advances

LEMMA StartInsertStep ==
  ASSUME OneTab, TakingInv, NEW s \in Starts, Taking!StartInsert(s) PROVE TakingInv'
<1> DEFINE f == [start[s] EXCEPT !.pc = "inserted"]
<1> USE DEF TakingInv
<1>1. start[s].pc = "numbered" /\ start[s] \in StartType /\ Startable(start[s])
      /\ start[s].key \in 1 .. keys /\ start[s].tab \in Tabs /\ Taking!StartFree(s)
  BY DEF Taking!StartInsert, TakingTypes, OneStarts, KeysKnown
<1>2. ASSUME NEW n \in Taking!SessionIds, Taking!Live(n), Taking!Entered(s, n) PROVE TakingInv'
  BY <1>1, <1>2, Enters
<1>3. CASE Taking!Entered(s, 0)
  BY <1>3, EntersNone
<1>4. CASE /\ sessions[start[s].number].status = "absent"
           /\ ~\E n \in Taking!SessionIds : sessions[n].key = start[s].key
           /\ Taking!Advances(s, f)
  <2>1. f \in StartType /\ f.pc = "inserted" /\ f.key = start[s].key /\ f.tab = start[s].tab
        /\ f.number = start[s].number
    BY <1>1 DEF StartType
  <2>2. Startable(f)
    BY <1>1, <1>4, <2>1 DEF Startable, Made
  <2> HIDE DEF f
  <2>3. \A o \in Starts \ {s} : start[o].pc = "inserted" =>
           start[o].key # f.key /\ start[o].number # f.number
    BY <1>1, <2>1 DEF Taking!StartFree
  <2>4. QED
    BY <1>1, <1>4, <2>1, <2>2, <2>3, StartGoesOn DEF Taking!Advances
<1>5. QED
  BY <1>2, <1>3, <1>4 DEF Taking!StartInsert

LEMMA StartFailsStep ==
  ASSUME TakingInv, NEW s \in Starts, Taking!StartFails(s) PROVE TakingInv'
  BY StartEndsWithNothing DEF Taking!StartFails

\* Only the start of the key the tab waits for gets here, and only while nothing is live.
LEMMA StartCommitStep ==
  ASSUME OneTab, TakingInv, NEW s \in Starts, Taking!StartCommit(s)
  PROVE  TakingInv' /\ \A n \in Taking!SessionIds : sessions'[n].stage >= sessions[n].stage
<1> USE DEF TakingInv
<1> DEFINE n == start[s].number
           t == start[s].tab
           k == start[s].key
           w == [Taking!NoSession EXCEPT !.status = "in_progress", !.key = k, !.asked = <<1>>]
           page == [Taking!NoPage EXCEPT !.session = n, !.place = 1]
<1>1. /\ start[s].pc = "inserted" /\ Startable(start[s]) /\ t \in Tabs
      /\ k \in 1 .. keys /\ k # 0 /\ keys \in Nat /\ k \in Nat
      /\ \A u \in Tabs : u = t
      /\ UNCHANGED <<request, keys>>
  BY DEF Taking!StartCommit, TakingTypes, OneStarts, KeysKnown, OneTab
<1>2. /\ n \in Taking!SessionIds /\ sessions[n].status = "absent" /\ ~Made(k)
      /\ k = tab[t].start /\ ~Barred /\ n \in Nat /\ n # 0
  BY <1>1, TakingAssumption DEF Startable, Taking!SessionIds
<1>5. /\ sessions' = [sessions EXCEPT ![n] = w] /\ start' = [start EXCEPT ![s] = Taking!NoStart]
      /\ tab' = tab \/ tab' = [tab EXCEPT ![t] = page]
  BY DEF Taking!StartCommit
<1> HIDE DEF n, t, k
<1>3. /\ w \in RowType /\ w.status = "in_progress" /\ w.key = k /\ w.stage = 0
      /\ w.said = {} /\ w.lastKey = 0 /\ Len(w.asked) = 1 /\ DOMAIN w.asked = {1}
  <2>1. <<1>> \in Seq(Nat) /\ Len(<<1>>) = 1 /\ DOMAIN <<1>> = {1}
    OBVIOUS
  <2>2. 0 \in 0 .. LastStage /\ {0} \subseteq 0 .. LastStage
        /\ [q \in 1 .. LastQuestion |-> 0] \in [1 .. LastQuestion -> Nat]
    BY TakingAssumption
  <2>3. /\ w.status = "in_progress" /\ w.key = k /\ w.stage = 0 /\ w.asked = <<1>>
        /\ w.said = {} /\ w.lastKey = 0
    BY DEF Taking!NoSession
  <2>4. w \in RowType
    BY <1>1, <2>1, <2>2 DEF Taking!NoSession, RowType
  <2> HIDE DEF w
  <2>5. QED
    BY <2>1, <2>3, <2>4
<1>4. page \in PageType /\ page.start = 0 /\ page.key = 0 /\ page.session = n
      /\ page.place = 1 /\ page.stage = 0
  <2>1. 0 \in 0 .. LastStage
    BY TakingAssumption
  <2>2. QED
    BY <1>2, <2>1 DEF Taking!NoPage, PageType
<1> HIDE DEF w, page
<1>6. /\ sessions' \in [Taking!SessionIds -> RowType] /\ sessions'[n] = w
      /\ \A m \in Taking!SessionIds \ {n} : sessions'[m] = sessions[m]
  BY <1>2, <1>3, <1>5 DEF TakingTypes
<1>7. /\ Taking!NoStart \in StartType /\ Taking!NoStart.pc = "idle"
      /\ start' \in [Starts -> StartType] /\ start'[s] = Taking!NoStart
      /\ \A o \in Starts \ {s} : start'[o] = start[o]
  BY <1>5 DEF TakingTypes, Taking!NoStart, StartType
<1>8. tab' \in [Tabs -> PageType] /\ (tab' = tab \/ tab'[t] = page)
  BY <1>1, <1>4, <1>5 DEF TakingTypes
<1>9. TakingTypes'
  BY <1>1, <1>6, <1>7, <1>8 DEF TakingTypes
<1>10. sessions[n].key = 0 /\ sessions[n].stage = 0
  BY <1>2 DEF SessionOnce, Taking!NoSession
<1>11. SessionOnce'
  <2>1. \A m \in Taking!SessionIds \ {n} : sessions[m].key # k
    BY <1>2 DEF Made
  <2>2. QED
    BY <1>1, <1>3, <1>6, <2>1 DEF SessionOnce
<1>12. tab[t].key = 0
  BY <1>1, <1>2 DEF KeysKnown
<1>13. KeysKnown'
  <2>1. \A m \in Taking!SessionIds : sessions[m].status # "absent" => sessions'[m].status # "absent"
    BY <1>2, <1>6
  <2>2. sessions'[n].status # "absent"
    BY <1>3, <1>6
  <2>3. \A p \in Requests :
          request'[p].pc # "idle" => /\ request'[p].key \in 1 .. keys' /\ request'[p].tab \in Tabs
                                     /\ request'[p].session \in Taking!SessionIds
                                     /\ sessions'[request'[p].session].status # "absent"
    BY <1>1, <2>1 DEF KeysKnown
  <2>4. \A o \in Starts :
          start'[o].pc # "idle" => start'[o].key \in 1 .. keys' /\ start'[o].tab \in Tabs
    BY <1>1, <1>7 DEF KeysKnown
  <2>5. /\ tab'[t].start <= keys' /\ tab'[t].key <= keys'
        /\ tab'[t].start # 0 => tab'[t].key = 0
        /\ tab'[t].session # 0 =>
              tab'[t].session \in Taking!SessionIds /\ sessions'[tab'[t].session].status # "absent"
        /\ tab'[t].session = 0 => tab'[t].key = 0
    <3>1. CASE tab' = tab
      BY <1>1, <2>1, <3>1 DEF KeysKnown
    <3>2. CASE tab'[t] = page
      BY <1>1, <1>2, <1>4, <2>2, <3>2
    <3>3. QED
      BY <1>8, <3>1, <3>2
  <2>6. QED
    BY <1>1, <2>3, <2>4, <2>5 DEF KeysKnown
<1>14. OneTurn'
  <2>1. \A m \in Taking!SessionIds : sessions'[m] = sessions[m] \/ sessions[m].status = "absent"
    BY <1>2, <1>6
  <2>2. \A u \in Tabs :
           \/ /\ tab'[u].key = tab[u].key /\ tab'[u].session = tab[u].session
              /\ tab'[u].stage = tab[u].stage /\ tab'[u].place = tab[u].place
           \/ /\ tab[u].key = 0 /\ tab'[u].key = 0
              /\ tab'[u].place = Len(sessions'[tab'[u].session].asked)
              /\ tab'[u].stage = sessions'[tab'[u].session].stage
    <3>1. CASE tab' = tab
      BY <3>1
    <3>2. ASSUME tab'[t] = page, NEW u \in Tabs
          PROVE  /\ tab[u].key = 0 /\ tab'[u].key = 0
                 /\ tab'[u].place = Len(sessions'[tab'[u].session].asked)
                 /\ tab'[u].stage = sessions'[tab'[u].session].stage
      <4>1. u = t /\ tab'[u] = page
        BY <1>1, <3>2
      <4>2. sessions'[n].stage = 0 /\ Len(sessions'[n].asked) = 1
        BY <1>3, <1>6
      <4>3. QED
        BY <1>4, <1>12, <4>1, <4>2
    <3>3. QED
      BY <1>8, <3>1, <3>2
  <2>3. UNCHANGED request /\ keys' = keys
    BY <1>1
  <2>4. QED
    BY <2>1, <2>2, <2>3, TurnsKept, Zenon
<1>15. Taking!NoQuestionSkipped'
  <2> SUFFICES ASSUME NEW m \in Taking!SessionIds
               PROVE  /\ \A i \in 1 .. Len(sessions'[m].asked) - 1 : i \in sessions'[m].answered
                      /\ \A i, j \in DOMAIN sessions'[m].asked :
                           sessions'[m].asked[i] = sessions'[m].asked[j] => i = j
    BY DEF Taking!NoQuestionSkipped
  <2>1. CASE m = n
    <3> DEFINE q == sessions'[m].asked
    <3>1. Len(q) = 1 /\ DOMAIN q = {1}
      BY <1>3, <1>6, <2>1
    <3> HIDE DEF q
    <3>2. 1 .. Len(q) - 1 = {} /\ \A i, j \in DOMAIN q : i = j
      BY <3>1
    <3>3. QED
      BY <3>2 DEF q
  <2>2. CASE m # n
    <3>1. sessions'[m] = sessions[m]
      BY <1>6, <2>2
    <3>2. QED
      BY <3>1 DEF Taking!NoQuestionSkipped
  <2>3. QED
    BY <2>1, <2>2
<1>16. Barred' <=> Barred
  <2>1. {m \in Taking!SessionIds : Taking!Ended(m)}' = {m \in Taking!SessionIds : Taking!Ended(m)}
    BY <1>2, <1>3, <1>6 DEF Taking!Ended
  <2>2. QED
    BY <2>1 DEF Barred
<1>17. \A o \in Starts : start'[o].pc # "idle" => Startable(start[o])'
  <2> SUFFICES ASSUME NEW o \in Starts, start'[o].pc # "idle" PROVE Startable(start[o])'
    OBVIOUS
  <2>1. /\ o # s /\ start'[o] = start[o] /\ start[o].tab = t /\ Startable(start[o])
        /\ start[o].key # 0 /\ start[o].key \in Nat
    BY <1>1, <1>7 DEF KeysKnown, OneStarts, TakingTypes
  <2>2. Made(start[o].key)' <=> Made(start[o].key) \/ start[o].key = k
    BY <1>2, <1>3, <1>6, <1>10, <2>1 DEF Made
  <2>3. start[o].pc = "inserted" => start[o].number # n /\ start[o].key # k
    BY <1>1, <2>1 DEF OneStarts, n, k
  <2>4. tab'[t].start = k \/ tab'[t].start = 0
    BY <1>2, <1>4, <1>8
  <2>5. start[o].number \in Taking!SessionIds \ {n}
          => sessions'[start[o].number] = sessions[start[o].number]
    BY <1>6
  <2>6. QED
    BY <1>2, <1>16, <2>1, <2>2, <2>3, <2>4, <2>5 DEF Startable
<1>18. \A m \in Taking!SessionIds : sessions'[m].status = "in_progress" => m = n
  <2>1. \A m \in Taking!SessionIds : ~Taking!Live(m)
    BY <1>1, <1>2, LiveIsTabs DEF Made
  <2>2. QED
    BY <1>6, <2>1 DEF Taking!Live
<1>19. OneStarts'
  <2>1. \A m \in Taking!SessionIds : Taking!Live(m)' => /\ ~Barred'
                                                        /\ \/ sessions'[m].key = tab'[t].start
                                                           \/ tab'[t].start = 0
                                                                /\ tab'[t].session = m
    BY <1>2, <1>3, <1>4, <1>6, <1>8, <1>16, <1>18 DEF Taking!Live
  <2>2. \A o, q \in Starts :
           start'[o].pc = "inserted" /\ start'[q].pc = "inserted" /\ o # q
           => start'[o].key # start'[q].key /\ start'[o].number # start'[q].number
    BY <1>7 DEF OneStarts
  <2>3. QED
    BY <1>1, <1>17, <2>1, <2>2 DEF OneStarts
<1>20. \A m \in Taking!SessionIds : sessions'[m].stage >= sessions[m].stage
  <2>1. \A m \in Taking!SessionIds : sessions[m].stage >= sessions[m].stage
    BY TakingAssumption DEF TakingTypes, RowType
  <2>2. 0 >= 0
    OBVIOUS
  <2> HIDE DEF TakingInv
  <2>3. QED
    BY <2>1, <2>2, <1>3, <1>6, <1>10
<1>21. QED
  BY <1>9, <1>11, <1>13, <1>14, <1>15, <1>19, <1>20
-----------------------------------------------------------------------------
(* The steps of a tab, and the end of a session *)

LEMMA NewStartStep ==
  ASSUME OneTab, TakingInv, NEW t \in Tabs, Taking!NewStart(t) PROVE TakingInv'
<1> USE DEF TakingInv
<1>1. /\ tab[t].start = 0 /\ tab[t].key = 0 /\ keys' = keys + 1 /\ keys \in Nat
      /\ tab[t].session # 0 => Taking!Ended(tab[t].session)
      /\ tab' = [tab EXCEPT ![t].start = keys + 1]
      /\ UNCHANGED <<sessions, start, request>>
  BY DEF Taking!NewStart, TakingTypes
<1>2. /\ tab' \in [Tabs -> PageType] /\ \A u \in Tabs : u = t
      /\ tab'[t].start = keys + 1 /\ tab'[t].key = 0 /\ tab'[t].session = tab[t].session
      /\ tab'[t].place = tab[t].place /\ tab'[t].stage = tab[t].stage
  BY <1>1 DEF TakingTypes, PageType, OneTab
<1>3. TakingTypes' /\ Taking!NoQuestionSkipped'
  BY <1>1, <1>2 DEF TakingTypes, Taking!NoQuestionSkipped
<1>4. SessionOnce' /\ KeysKnown'
  BY <1>1, <1>2 DEF SessionOnce, KeysKnown
<1>5. OneTurn'
  BY <1>1, <1>2, TurnsKept
<1>6. \A m \in Taking!SessionIds : ~Taking!Live(m)
  <2> SUFFICES ASSUME NEW m \in Taking!SessionIds, Taking!Live(m) PROVE FALSE
    OBVIOUS
  <2>1. tab[t].session = m /\ m # 0
    BY <1>1, LiveIsTabs, TakingAssumption DEF Taking!SessionIds
  <2>2. QED
    BY <1>1, <2>1 DEF Taking!Live, Taking!Ended
<1>7. Barred' <=> Barred
  BY <1>1 DEF Barred, Taking!Ended
<1>8. \A o \in Starts : start'[o].pc # "idle" => Startable(start[o])'
  <2> SUFFICES ASSUME NEW o \in Starts, start'[o].pc # "idle" PROVE Startable(start[o])'
    OBVIOUS
  <2>1. start'[o] = start[o] /\ start[o].tab = t /\ Startable(start[o])
        /\ start[o].key \in 1 .. keys /\ start[o].key # 0
    BY <1>1, <1>2 DEF KeysKnown, OneStarts
  <2>2. Made(start[o].key)' <=> Made(start[o].key)
    BY <1>1 DEF Made
  <2>3. QED
    BY <1>1, <1>7, <2>1, <2>2 DEF Startable
<1>9. OneStarts'
  BY <1>1, <1>6, <1>8 DEF OneStarts, Taking!Live
<1>10. QED
  BY <1>3, <1>4, <1>5, <1>9

LEMMA SendStartStep ==
  ASSUME OneTab, TakingInv, NEW t \in Tabs, NEW s \in Starts, Taking!SendStart(t, s)
  PROVE  TakingInv'
<1> USE DEF TakingInv
<1> DEFINE f == [Taking!NoStart EXCEPT !.pc = "sent", !.tab = t, !.key = tab[t].start]
<1>1. tab[t].start \in 1 .. keys /\ tab[t].start \in Nat
  BY DEF Taking!SendStart, KeysKnown, TakingTypes, PageType
<1>2. f \in StartType /\ f.pc = "sent" /\ f.tab = t /\ f.key = tab[t].start
  BY <1>1 DEF Taking!NoStart, StartType
<1>3. start' = [start EXCEPT ![s] = f] /\ UNCHANGED <<sessions, request, tab, keys>>
  BY DEF Taking!SendStart
<1> HIDE DEF f
<1>4. Startable(f)
  BY <1>2 DEF Startable
<1>5. QED
  BY <1>1, <1>2, <1>3, <1>4, StartGoesOn

LEMMA SendStep ==
  ASSUME OneTab, TakingInv, NEW t \in Tabs, NEW p \in Requests, Taking!Send(t, p) PROVE TakingInv'
<1> USE DEF TakingInv
<1> DEFINE again == tab[t].key # 0
           k == IF again THEN tab[t].key ELSE keys + 1
           setup == tab[t].stage # LastStage
           f == [Taking!NoRequest EXCEPT !.pc = "sent", !.tab = t,
                                         !.session = tab[t].session, !.key = k,
                                  !.kind = IF setup THEN "onboarding" ELSE "answer",
                                  !.shown = IF setup THEN tab[t].stage ELSE tab[t].place]
<1>1. /\ tab[t].session # 0 /\ tab[t].start = 0 /\ request[p].pc = "idle"
      /\ keys' = IF again THEN keys ELSE keys + 1
      /\ tab' = [tab EXCEPT ![t].key = k]
      /\ request' = [request EXCEPT ![p] = f]
      /\ UNCHANGED <<sessions, start>>
  BY DEF Taking!Send
<1>2. /\ tab[t] \in PageType /\ keys \in Nat /\ tab[t].session \in Taking!SessionIds
      /\ sessions[tab[t].session].status # "absent" /\ tab[t].key <= keys
      /\ \A u \in Tabs : u = t /\ keys' \in Nat /\ keys <= keys'
  BY <1>1 DEF TakingTypes, KeysKnown, OneTab
<1>3. k \in 1 .. keys' /\ k \in Nat /\ k # 0 /\ (k = keys + 1 \/ k = tab[t].key)
      /\ (k # tab[t].key => tab[t].key = 0 /\ k = keys + 1)
  BY <1>1, <1>2 DEF PageType
<1>4. /\ f.pc = "sent" /\ f.tab = t /\ f.session = tab[t].session /\ f.key = k
      /\ f.kind = (IF setup THEN "onboarding" ELSE "answer") /\ f.next = 0
      /\ f.shown = IF setup THEN tab[t].stage ELSE tab[t].place
  BY DEF Taking!NoRequest
<1> HIDE DEF k
<1>5. f \in RequestType
  <2>1. 0 \in 0 .. LastStage /\ \A i \in 0 .. LastStage : i \in Nat
    BY TakingAssumption
  <2>2. QED
    BY <1>2, <1>3, <2>1, ZenonT(30) DEF Taking!NoRequest, RequestType, PageType
<1> HIDE DEF f
<1>6. /\ request' \in [Requests -> RequestType] /\ request'[p] = f
      /\ \A o \in Requests \ {p} : request'[o] = request[o]
  BY <1>1, <1>5 DEF TakingTypes
<1>7. /\ tab' \in [Tabs -> PageType] /\ tab'[t].key = k
      /\ tab'[t].start = tab[t].start /\ tab'[t].session = tab[t].session
      /\ tab'[t].stage = tab[t].stage /\ tab'[t].place = tab[t].place
  BY <1>1, <1>2, <1>3 DEF TakingTypes, PageType
<1>8. TakingTypes' /\ Taking!NoQuestionSkipped'
  BY <1>1, <1>2, <1>6, <1>7 DEF TakingTypes, Taking!NoQuestionSkipped
<1>9. SessionOnce'
  BY <1>1, <1>2 DEF SessionOnce
<1>10. KeysKnown'
  <2>1. \A o \in Starts : start'[o].pc # "idle"
          => start'[o].key \in 1 .. keys' /\ start'[o].tab \in Tabs
    BY <1>1, <1>2 DEF KeysKnown
  <2>2. \A o \in Requests :
          request'[o].pc # "idle" => /\ request'[o].key \in 1 .. keys' /\ request'[o].tab \in Tabs
                                     /\ request'[o].session \in Taking!SessionIds
                                     /\ sessions'[request'[o].session].status # "absent"
    BY <1>1, <1>2, <1>3, <1>4, <1>6 DEF KeysKnown
  <2>3. QED
    BY <1>1, <1>2, <1>3, <1>7, <2>1, <2>2 DEF KeysKnown
<1>11. OneStarts'
  BY <1>1, <1>2, <1>7, StartsKept DEF KeysKnown, OneStarts, Startable
<1>12. \A n \in Taking!SessionIds : keys + 1 \notin sessions[n].said /\ 0 \notin sessions[n].said
  BY <1>2 DEF SessionOnce
<1>13. \A o \in Requests \ {p} : request[o].pc # "idle" =>
          OnItsWay(request[o])' /\ Carries(request[o])'
  <2> SUFFICES ASSUME NEW o \in Requests \ {p}, request[o].pc # "idle"
               PROVE  OnItsWay(request[o])' /\ Carries(request[o])'
    OBVIOUS
  <2>1. /\ request'[o] = request[o] /\ request[o].tab = t /\ OnItsWay(request[o])
        /\ Carries(request[o]) /\ request[o].key \in 1 .. keys
    BY <1>2, <1>6 DEF KeysKnown, OneTurn
  <2>2. request[o].key # keys + 1 /\ request[o].key # 0
    BY <1>2, <2>1
  <2>3. Carries(request[o])'
    BY <1>1, <2>1 DEF Carries
  <2>4. request[o].key = k => request[o].key = tab[t].key
    BY <1>3, <2>2
  <2>5. request[o].key # k => request[o].key # tab[t].key
    BY <1>3, <2>2
  <2>6. OnItsWay(request[o])'
    BY <1>1, <1>7, <2>1, <2>4, <2>5 DEF OnItsWay, Posted, Place, Taking!Ended
  <2>7. QED
    BY <2>3, <2>6
<1>14. OnItsWay(request[p])' /\ Carries(request[p])'
  <2>1. f.pc \notin PastLoad /\ f.pc \notin Flushed
    BY <1>4 DEF PastLoad, Flushed
  <2>2. setup => tab[t].stage < LastStage
    BY <1>2, TakingAssumption DEF PageType
  <2>3. QED
    BY <1>4, <1>6, <1>7, <2>1, <2>2 DEF OnItsWay, Carries
<1>15. ASSUME NEW u \in Tabs, tab'[u].session # 0, Taking!Live(tab[u].session)',
              tab'[u].key \notin sessions'[tab'[u].session].said
       PROVE  /\ tab'[u].place = Len(sessions'[tab'[u].session].asked)
              /\ tab'[u].stage = sessions'[tab'[u].session].stage
  <2>1. tab[t].key \notin sessions[tab[t].session].said
    BY <1>1, <1>2, <1>3, <1>7, <1>12, <1>15
  <2>2. Taking!Live(tab[t].session)
    BY <1>1, <1>2, <1>7, <1>15 DEF Taking!Live
  <2>3. QED
    BY <1>1, <1>2, <1>7, <2>1, <2>2 DEF OneTurn
<1>16. f.pc \notin PastLoad /\ f.pc \notin Flushed
  BY <1>4 DEF PastLoad, Flushed
<1>17. \A o, q \in Requests :
         /\ request'[o].pc \in PastLoad /\ request'[q].pc \in PastLoad
         /\ request'[o].session = request'[q].session
         /\ ~Posted(request[o])' /\ ~Posted(request[q])'
         => request'[o].key = request'[q].key
  BY <1>1, <1>6, <1>16 DEF OneTurn, Posted
<1>18. \A o, q \in Requests :
         /\ request'[o].pc \in Flushed /\ request'[q].pc \in Flushed
         /\ request'[o].session = request'[q].session
         => o = q
  BY <1>6, <1>16 DEF OneTurn
<1>19. OneTurn'
  BY <1>13, <1>14, <1>15, <1>6, <1>17, <1>18 DEF OneTurn
<1>20. QED
  BY <1>8, <1>9, <1>10, <1>11, <1>19

LEMMA TakingFinish ==
  ASSUME OneTab, TakingInv, NEW n \in Taking!SessionIds, Taking!Finish(n)
  PROVE  TakingInv' /\ \A m \in Taking!SessionIds : sessions'[m].stage >= sessions[m].stage
<1> USE DEF TakingInv
<1>1. /\ Taking!Live(n) /\ sessions' = [sessions EXCEPT ![n].status = "ended"]
      /\ UNCHANGED <<start, request, tab, keys>>
  BY DEF Taking!Finish
<1>2. /\ sessions' \in [Taking!SessionIds -> RowType]
      /\ \A m \in Taking!SessionIds \ {n} : sessions'[m] = sessions[m]
      /\ sessions'[n].status = "ended"
      /\ \A m \in Taking!SessionIds :
           /\ sessions'[m].key = sessions[m].key /\ sessions'[m].stage = sessions[m].stage
           /\ sessions'[m].asked = sessions[m].asked /\ sessions'[m].answered = sessions[m].answered
           /\ sessions'[m].said = sessions[m].said /\ sessions'[m].lastKey = sessions[m].lastKey
           /\ sessions[m].status = "ended" => sessions'[m].status = "ended"
           /\ sessions'[m].status = "in_progress" => sessions[m].status = "in_progress"
           /\ sessions'[m].status = "absent" <=> sessions[m].status = "absent"
  BY <1>1, ZenonT(30) DEF TakingTypes, RowType, Taking!Live
<1>3. TakingTypes' /\ Taking!NoQuestionSkipped'
  BY <1>1, <1>2 DEF TakingTypes, Taking!NoQuestionSkipped
<1>4. SessionOnce' /\ KeysKnown'
  BY <1>1, <1>2 DEF SessionOnce, KeysKnown
<1>5. \A p \in Requests : request[p].pc # "idle" => OnItsWay(request[p])' /\ Carries(request[p])'
  BY <1>1, <1>2 DEF OneTurn, KeysKnown, OnItsWay, Carries, Posted, Place, Taking!Ended
<1>6. OneTurn'
  BY <1>1, <1>2, <1>5 DEF OneTurn, KeysKnown, PastLoad, Flushed, Posted, Taking!Live
<1>7. \A m \in Taking!SessionIds : ~Taking!Live(m)'
  <2> SUFFICES ASSUME NEW m \in Taking!SessionIds, Taking!Live(m), m # n PROVE FALSE
    BY <1>2 DEF Taking!Live
  <2>1. PICK t \in Tabs : TRUE
    BY <1>1 DEF OneStarts
  <2>2. \/ sessions[n].key = sessions[m].key /\ sessions[n].key # 0
        \/ tab[t].session = n /\ tab[t].session = m
    BY <1>1, LiveIsTabs DEF Taking!Live, SessionOnce
  <2>3. QED
    BY <2>2 DEF SessionOnce
<1>8. Barred => Barred'
  <2> DEFINE before == {m \in Taking!SessionIds : Taking!Ended(m)}
             after == {m \in Taking!SessionIds : sessions'[m].status = "ended"}
  <2>1. before \subseteq after
    BY <1>2 DEF Taking!Ended
  <2>2. IsFiniteSet(after)
    <3>1. IsFiniteSet(Taking!SessionIds)
      BY FS_Interval, TakingAssumption DEF Taking!SessionIds
    <3>2. QED
      BY <3>1, FS_Subset
  <2>3. Cardinality(before) <= Cardinality(after)
    BY <2>1, <2>2, FS_Subset
  <2>4. Cardinality(before) \in Nat /\ Cardinality(after) \in Nat
    BY <2>1, <2>2, FS_Subset, FS_CardinalityType
  <2>5. Barred <=> Cardinality(before) >= MaxAttempts
    BY DEF Barred
  <2>6. Barred' <=> Cardinality(after) >= MaxAttempts
    BY DEF Barred, Taking!Ended
  <2> HIDE DEF before, after
  <2>7. QED
    BY <2>3, <2>4, <2>5, <2>6, TakingAssumption
<1>9. \A o \in Starts : start'[o].pc # "idle" => Startable(start[o])'
  <2> SUFFICES ASSUME NEW o \in Starts, start'[o].pc # "idle" PROVE Startable(start[o])'
    OBVIOUS
  <2>1. start'[o] = start[o] /\ start[o].tab \in Tabs /\ Startable(start[o]) /\ start[o].key # 0
    BY <1>1 DEF KeysKnown, OneStarts
  <2>2. Made(start[o].key)' <=> Made(start[o].key)
    BY <1>1, <1>2 DEF Made
  <2>3. start[o].key = tab[start[o].tab].start => Made(start[o].key)
    BY <1>1, <2>1, LiveIsTabs DEF Made
  <2>4. QED
    BY <1>1, <1>2, <1>8, <2>1, <2>2, <2>3 DEF Startable
<1>10. OneStarts'
  BY <1>1, <1>7, <1>9 DEF OneStarts
<1>11. \A m \in Taking!SessionIds : sessions'[m].stage >= sessions[m].stage
  BY <1>2, TakingAssumption DEF TakingTypes, RowType
<1>12. QED
  BY <1>3, <1>4, <1>6, <1>10, <1>11
-----------------------------------------------------------------------------
(* The theorems *)

LEMMA TakingStep ==
  ASSUME OneTab, TakingInv, [Taking!Next]_Taking!vars
  PROVE  TakingInv' /\ \A n \in Taking!SessionIds : sessions'[n].stage >= sessions[n].stage
<1>1. (\A n \in Taking!SessionIds : sessions'[n] = sessions[n]) =>
         \A n \in Taking!SessionIds : sessions'[n].stage >= sessions[n].stage
  BY TakingAssumption DEF TakingInv, TakingTypes, RowType
<1>2. ASSUME NEW t \in Tabs, Taking!NewStart(t) PROVE TakingInv' /\ UNCHANGED sessions
  BY <1>2, NewStartStep DEF Taking!NewStart
<1>3. ASSUME NEW t \in Tabs, NEW s \in Starts, Taking!SendStart(t, s)
      PROVE  TakingInv' /\ UNCHANGED sessions
  BY <1>3, SendStartStep DEF Taking!SendStart
<1>4. ASSUME NEW t \in Tabs, NEW p \in Requests, Taking!Send(t, p)
      PROVE  TakingInv' /\ UNCHANGED sessions
  BY <1>4, SendStep DEF Taking!Send
<1>5. ASSUME NEW s \in Starts,
             \/ Taking!StartKeyed(s) \/ Taking!StartActive(s) \/ Taking!StartGate(s)
             \/ Taking!StartNumber(s)
             \/ Taking!StartInsert(s) \/ Taking!StartFails(s)
      PROVE  TakingInv' /\ UNCHANGED sessions
  <2>1. TakingInv'
    BY <1>5, StartKeyedStep, StartActiveStep, StartGateStep, StartNumberStep,
       StartInsertStep,
       StartFailsStep
  <2>2. UNCHANGED sessions
    BY <1>5 DEF Taking!StartKeyed, Taking!StartActive, Taking!StartGate, Taking!StartNumber,
       Taking!StartInsert, Taking!StartFails,
                Taking!Entered, Taking!Advances
  <2>3. QED
    BY <2>1, <2>2
<1>6. ASSUME NEW p \in Requests,
             \/ Taking!TurnLoad(p) \/ Taking!TurnState(p) \/ Taking!TurnCreate(p)
             \/ Taking!TurnSave(p) \/ Taking!TurnRecord(p)
             \/ Taking!TurnFollowUp(p) \/ Taking!TurnNext(p) \/ Taking!TurnNumber(p)
             \/ Taking!TurnAttach(p)
             \/ Taking!OnboardLoad(p) \/ Taking!OnboardRecord(p) \/ Taking!OnboardLook(p)
             \/ Taking!OnboardWrite(p)
             \/ Taking!RequestFails(p)
      PROVE  TakingInv' /\ UNCHANGED sessions
  <2>1. TakingInv'
    BY <1>6, TurnLoadStep, TurnStateStep, TurnCreateStep, TurnSaveStep, TurnRecordStep,
       TurnFollowUpStep, TurnNextStep, TurnNumberStep, TurnAttachStep, OnboardLoadStep,
       OnboardRecordStep, OnboardLookStep, OnboardWriteStep, RequestFailsStep
  <2>2. UNCHANGED sessions
    BY <1>6 DEF Taking!TurnLoad, Taking!TurnState, Taking!TurnCreate, Taking!TurnSave,
       Taking!TurnRecord, Taking!TurnFollowUp, Taking!TurnNext,
                Taking!TurnNumber, Taking!TurnAttach, Taking!OnboardLoad,
                Taking!OnboardRecord, Taking!OnboardLook, Taking!OnboardWrite,
                Taking!RequestFails, Taking!Step
  <2>3. QED
    BY <2>1, <2>2
<1>7. ASSUME NEW p \in Requests, Taking!TurnCommit(p)
      PROVE  TakingInv' /\ \A n \in Taking!SessionIds : sessions'[n].stage >= sessions[n].stage
  <2>1. \A n \in Taking!SessionIds : sessions'[n].stage = sessions[n].stage
    <3>1. request[p].session \in Taking!SessionIds /\ sessions \in [Taking!SessionIds -> RowType]
      BY <1>7 DEF TakingInv, TakingTypes, KeysKnown, Taking!TurnCommit
    <3>2. sessions' = [sessions EXCEPT ![request[p].session] =
                                Taking!AfterTurn(request[p], sessions[request[p].session])]
      BY <1>7 DEF Taking!TurnCommit, Taking!Committed
    <3>3. Taking!AfterTurn(request[p],
            sessions[request[p].session]).stage = sessions[request[p].session].stage
      BY <3>1 DEF Taking!AfterTurn, RowType
    <3>4. QED
      BY <3>1, <3>2, <3>3
  <2>2. \A n \in Taking!SessionIds : sessions[n].stage >= sessions[n].stage
    BY TakingAssumption DEF TakingInv, TakingTypes, RowType
  <2>3. QED
    BY <1>7, <2>1, <2>2, TurnCommitStep
<1>8. CASE UNCHANGED Taking!vars
  <2> USE <1>8 DEF Taking!vars, TakingInv
  <2>1. TakingTypes' /\ SessionOnce' /\ KeysKnown' /\ Taking!NoQuestionSkipped'
    BY DEF TakingTypes, SessionOnce, KeysKnown, Taking!NoQuestionSkipped
  <2>2. OneStarts'
    BY DEF OneStarts, Startable, Made, Barred, Taking!Ended, Taking!Live
  <2>3. OneTurn'
    BY TurnsKept
  <2>4. QED
    BY <1>1, <2>1, <2>2, <2>3
<1>9. QED
  BY <1>1, <1>2, <1>3, <1>4, <1>5, <1>6, <1>7, <1>8, StartCommitStep, OnboardCommitStep,
     TakingFinish
     DEF Taking!Next

\* A student has at most one session in progress, whatever starts are sent again.
LEMMA OneLiveInv == ASSUME OneTab, TakingInv PROVE Taking!OneLive
<1> DEFINE L == {n \in Taking!SessionIds : Taking!Live(n)}
<1>1. ASSUME NEW n \in L, NEW m \in L PROVE n = m
  <2>1. PICK t \in Tabs : TRUE
    BY DEF TakingInv, OneStarts
  <2>2. \/ sessions[n].key = sessions[m].key /\ sessions[n].key # 0
        \/ tab[t].session = n /\ tab[t].session = m
    BY LiveIsTabs DEF Taking!Live, TakingInv, SessionOnce
  <2>3. QED
    BY <2>2 DEF TakingInv, SessionOnce
<1> HIDE DEF L
<1>2. CASE L = {}
  BY <1>2, FS_EmptySet, SameCardinality DEF Taking!OneLive, L
<1>3. CASE L # {}
  <2>1. PICK n \in L : L = {n}
    BY <1>1, <1>3
  <2>2. Cardinality(L) = 1
    BY <2>1, FS_Singleton
  <2>3. QED
    BY <2>2, SameCardinality DEF Taking!OneLive, L
<1>4. QED
  BY <1>2, <1>3

-----------------------------------------------------------------------------
(* The sessions, in the whole *)

LEMMA TakingPart ==
  /\ WorkInit => Taking!Init
  /\ [WorkNext]_allVars => [Taking!Next]_Taking!vars
  BY DEF WorkInit, WorkNext, allVars, takingVars, Taking!vars

\* What the sessions, the starts, the turns and the tab agree on, as long as the
\* student's requests come from one tab.
THEOREM TakingInvariant ==
  ASSUME OneTab
  PROVE  WorkSpec => []TakingInv
<1>1. WorkInit => TakingInv
  BY TakingPart, TakingInit
<1>2. TakingInv /\ [WorkNext]_allVars => TakingInv'
  BY TakingPart, TakingStep
<1>3. QED
  BY <1>1, <1>2, PTL DEF WorkSpec

\* Whatever starts a tab sends again, and whenever they are carried out, the student has
\* at most one session in progress (uq_interview_sessions_start_key, the retake gate of
\* start_session).
THEOREM OneLiveInvariant ==
  ASSUME OneTab
  PROVE  WorkSpec => []OneLive
<1>1. TakingInv => OneLive
  BY OneLiveInv DEF OneLive
<1>2. QED
  BY <1>1, TakingInvariant, PTL

\* Whatever turns a tab sends again, and whenever their copies run, the session stands on
\* no question before the ones it asked are answered (take_session_step,
\* uq_interview_msg_turn_key).
THEOREM NoQuestionSkippedInvariant ==
  ASSUME OneTab
  PROVE  WorkSpec => []NoQuestionSkipped
<1>1. TakingInv => NoQuestionSkipped
  BY DEF TakingInv, NoQuestionSkipped
<1>2. QED
  BY <1>1, TakingInvariant, PTL

\* No copy of an onboarding reply takes a session back to an earlier stage
\* (onboarding.respond).
THEOREM OnboardingForwardAlways ==
  ASSUME OneTab
  PROVE  WorkSpec => OnboardingForward
<1>1. TakingInv /\ [WorkNext]_allVars =>
        [\A n \in Taking!SessionIds : sessions'[n].stage >= sessions[n].stage]_Taking!vars
  BY TakingPart, TakingStep
<1>2. QED
  BY <1>1, TakingInvariant, PTL DEF WorkSpec, OnboardingForward, Taking!OnboardingForward

-----------------------------------------------------------------------------
(* The marking of quizzes *)

QP == INSTANCE QuizAttemptProofs WITH Sweepers <- Crons

\* The marking of LearnerWork is the one QuizAttemptProofs is about.
LEMMA SameMarking ==
  /\ Marking!Init <=> QP!Init
  /\ Marking!Next <=> QP!Next
  /\ Marking!ScoredOnceMarked <=> QP!ScoredOnceMarked
  /\ Marking!ScoreMatchesAnswers <=> QP!ScoreMatchesAnswers
  BY Zenon DEF
     Marking!vars, Marking!Attempts, Marking!Processes, Marking!Null, Marking!AttemptStatus,
     Marking!NoAttempt, Marking!Unanswered, Marking!NoGrade, Marking!Idle, Marking!Init,
     Marking!Updated, Marking!Used, Marking!Active, Marking!QuizLocked,
     Marking!AttemptLocked, Marking!Marking, Marking!AnswerLocked, Marking!Points,
     Marking!NeedsManualGrade, Marking!Total, Marking!Pending, Marking!FinalGrade,
     Marking!Counted, Marking!Step, Marking!At, Marking!StartGate, Marking!StartInsert,
     Marking!StartRefused, Marking!AnswerLoad, Marking!AnswerRead, Marking!AnswerSave,
     Marking!DeadlinePasses, Marking!CloseLoad, Marking!SubmitLoad, Marking!SweepLoad,
     Marking!CloseRead, Marking!Flushed, Marking!FlushedAnswer, Marking!Records,
     Marking!CloseUngraded, Marking!CloseFlush, Marking!Record, Marking!InQueue,
     Marking!MarkLoad, Marking!MarkFlush, Marking!Begin, Marking!Continue, Marking!Next,
     Marking!MapThenSumSet, Marking!MapThenFoldSet, Marking!Min, Marking!Max,
     Marking!Cardinality, Marking!Quiet, Marking!AllMarked, Marking!Closed,
     Marking!ScoredOnceMarked, Marking!ScoreMatchesAnswers, QP!vars, QP!Attempts,
     QP!Processes, QP!Null, QP!AttemptStatus, QP!NoAttempt, QP!Unanswered, QP!NoGrade,
     QP!Idle, QP!Init, QP!Updated, QP!Used, QP!Active, QP!QuizLocked, QP!AttemptLocked,
     QP!Marking, QP!AnswerLocked, QP!Points, QP!NeedsManualGrade, QP!Total, QP!Pending,
     QP!FinalGrade, QP!Counted, QP!Step, QP!At, QP!StartGate, QP!StartInsert,
     QP!StartRefused, QP!AnswerLoad, QP!AnswerRead, QP!AnswerSave, QP!DeadlinePasses,
     QP!CloseLoad, QP!SubmitLoad, QP!SweepLoad, QP!CloseRead, QP!Flushed, QP!FlushedAnswer,
     QP!Records, QP!CloseUngraded, QP!CloseFlush, QP!Record, QP!InQueue, QP!MarkLoad,
     QP!MarkFlush, QP!Begin, QP!Continue, QP!Next, QP!MapThenSumSet, QP!MapThenFoldSet,
     QP!Min, QP!Max, QP!Cardinality, QP!Quiet, QP!AllMarked, QP!Closed, QP!ScoredOnceMarked,
     QP!ScoreMatchesAnswers

\* What that module assumes of its constants.
LEMMA MarkingConstants == QP!ConstantsAssumption
  BY MarkingAssumption DEF QP!ConstantsAssumption, QP!IsFiniteSet, IsFiniteSet

\* A behaviour of the learner's work is one of the marking, in which the steps of the
\* others change nothing.
LEMMA MarkingPart == WorkSpec => QP!Spec
<1>1. WorkInit => QP!Init
  BY SameMarking DEF WorkInit
<1>2. [WorkNext]_allVars => [QP!Next]_QP!vars
  BY SameMarking DEF WorkNext, allVars, markingVars, QP!vars
<1>3. QED
  BY <1>1, <1>2, PTL DEF WorkSpec, QP!Spec

\* One request of the student and one of a teacher at a time, and a sweep that abandons
\* if there is one.
OneAtATime ==
    /\ \A p, q \in Sessions : p = q
    /\ \A p, q \in Graders : p = q
    /\ Crons = {} \/ Autoabandon

\* The score of a closed attempt is the sum of what its answers are worth, after every
\* mark (manual_grading, _recompute_attempt_score).
THEOREM ScoreMatchesAnswersInvariant ==
  ASSUME OneAtATime
  PROVE  WorkSpec => []ScoreMatchesAnswers
<1>1. QP!OneAtATime
  BY DEF OneAtATime, QP!OneAtATime
<1>2. QP!Spec => []QP!ScoreMatchesAnswers
  BY <1>1, MarkingConstants, QP!ScoreMatchesAnswersInvariant
<1>3. QP!ScoreMatchesAnswers => ScoreMatchesAnswers
  BY SameMarking DEF ScoreMatchesAnswers
<1>4. QED
  BY <1>2, <1>3, MarkingPart, PTL

\* An attempt whose answers are all marked has been scored, whichever mark came last
\* (manual_grading).
THEOREM ScoredOnceMarkedInvariant ==
  ASSUME OneAtATime
  PROVE  WorkSpec => []ScoredOnceMarked
<1>1. QP!OneAtATime
  BY DEF OneAtATime, QP!OneAtATime
<1>2. QP!Spec => []QP!ScoredOnceMarked
  BY <1>1, MarkingConstants, QP!ScoredOnceMarkedInvariant
<1>3. QP!ScoredOnceMarked => ScoredOnceMarked
  BY SameMarking DEF ScoredOnceMarked
<1>4. QED
  BY <1>2, <1>3, MarkingPart, PTL
=============================================================================
