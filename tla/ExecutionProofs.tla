---------------------------- MODULE ExecutionProofs ----------------------------
(***************************************************************************)
(* Theorems about who may run a workflow and what running it does: about   *)
(* WorkflowExecutor, for every workflow of any finite number of steps;     *)
(* about Access, for any number of accounts, requests and tokens; and      *)
(* about the types of Cache.                                               *)
(***************************************************************************)
EXTENDS MCExecution, FiniteSetTheorems, TLAPS

-----------------------------------------------------------------------------
(* The executor.  VerdictIsTrue speaks of executions that are over.  What  *)
(* makes it inductive is what holds while they go on: no step has failed   *)
(* yet, and the result so far is a success unless the context was found    *)
(* done.                                                                   *)

NoFailure == \A i \in DOMAIN steps : steps[i].status # "failed"

GoesOn == point # "done"

\* The inductive invariant.
IInv ==
    /\ TypeOK
    /\ GoesOn => NoFailure /\ (success <=> ~late)
    /\ point = "try" => counted < MaxSteps
    /\ GoesOn /\ steps = <<>> => at = First
    /\ VerdictIsTrue
    /\ RecordIsPath

StepRecord == [step : Steps, status : {"skipped", "completed", "failed"}, retries : Nat]

\* The bound on the number of steps is a natural number.
LEMMA MaxStepsNat == MaxSteps \in Nat
BY ExecutorAssumption, FS_CardinalityType DEF MaxSteps

\* What the workflow says about a step has the type it should have.
LEMMA WorkflowTyped ==
    ASSUME TypeOK, NEW s \in Steps
    PROVE  /\ workflow.next[s] \in Steps \cup {End, Missing}
           /\ Successors(s) \subseteq Steps \cup {End, Missing}
           /\ MaxRetries(s) \in Int
BY ExecutorAssumption DEF TypeOK, WorkflowShape, Successors, MaxRetries, Kind

\* A call of an executor keeps the types of what it changes.
LEMMA CallTyped ==
    ASSUME TypeOK, NEW s \in Steps, CallExecutor(s)
    PROVE  /\ runs' \in [Steps -> Nat]
           /\ rewritten' \in SUBSET Steps
<1>1. runs' \in [Steps -> Nat]
  BY DEF TypeOK, CallExecutor
<1>2. rewritten' \in SUBSET Steps
  BY DEF TypeOK, CallExecutor
<1> QED BY <1>1, <1>2

\* A record appended to a record that is a path, of the step the path leads to, is
\* a path again.
LEMMA PathGrows ==
    ASSUME TypeOK, RecordIsPath, NoFailure, steps = <<>> => at = First,
           at \in Steps, NEW r \in StepRecord, r.step = at,
           steps' = Append(steps, r), workflow' = workflow,
           r.status # "failed" => Follows(r, at')
    PROVE  RecordIsPath'
<1> DEFINE n == Len(steps)
<1>1. steps \in Seq(StepRecord)
  BY DEF TypeOK, StepRecord
<1>2. /\ n \in Nat /\ steps' \in Seq(StepRecord) /\ Len(steps') = n + 1
      /\ \A i \in 1..n : steps'[i] = steps[i]
      /\ steps'[n + 1] = r
      /\ DOMAIN steps = 1..n
  BY <1>1
<1>3. ASSUME NEW q, NEW s PROVE Follows(q, s)' <=> Follows(q, s)
  BY DEF Follows, Successors, Kind
<1>4. steps'[1].step = First
  <2>1. CASE n = 0
    BY <1>1, <1>2, <2>1
  <2>2. CASE n > 0
    BY <1>1, <1>2, <2>2 DEF RecordIsPath
  <2> QED BY <1>2, <2>1, <2>2
<1>5. ASSUME NEW i \in 1..n PROVE Follows(steps'[i], steps'[i + 1].step)
  <2>1. CASE i < n
    <3>1. i \in 1..(n - 1) /\ i + 1 \in 1..n
      BY <1>2, <2>1
    <3> QED BY <1>2, <3>1 DEF RecordIsPath
  <2>2. CASE i = n
    <3>1. steps # <<>> /\ Last(steps) = steps[n] /\ steps[n].status # "failed"
      BY <1>1, <1>2, <2>2 DEF Last, NoFailure
    <3> QED BY <1>2, <2>2, <3>1 DEF RecordIsPath
  <2>3. n \in Nat
    BY <1>1
  <2>4. i < n \/ i = n
    BY <2>3
  <2> QED BY <2>1, <2>2, <2>4
<1>6. steps' # <<>> /\ Last(steps') = r
  BY <1>2 DEF Last
<1>7. (\A i \in 1..(Len(steps) - 1) : Follows(steps[i], steps[i + 1].step))'
  BY <1>2, <1>3, <1>5
<1>8. (Last(steps).status # "failed" => Follows(Last(steps), at))'
  BY <1>3, <1>6
<1> QED BY <1>4, <1>7, <1>8 DEF RecordIsPath

-----------------------------------------------------------------------------
(* The invariant holds initially, and every action preserves it.           *)

LEMMA InitIInv == Init => IInv
<1> SUFFICES ASSUME Init PROVE IInv
  OBVIOUS
<1>1. TypeOK
  <2>1. steps \in Seq(StepRecord)
    BY DEF Init
  <2>2. runs \in [Steps -> Nat] /\ rewritten \in SUBSET Steps
    BY DEF Init
  <2>3. at \in Steps /\ counted \in 0..MaxSteps
    BY ExecutorAssumption, MaxStepsNat DEF Init
  <2>4. /\ workflow \in Workflows /\ point = "head"
        /\ attempt \in Nat /\ limit \in Int
    BY DEF Init
  <2>5. timedOut \in BOOLEAN /\ late \in BOOLEAN /\ success \in BOOLEAN
    BY Zenon DEF Init
  <2> QED BY <2>1, <2>2, <2>3, <2>4, <2>5 DEF TypeOK, StepRecord
<1>2. RecordIsPath
  BY DEF Init, RecordIsPath
<1> QED BY <1>1, <1>2 DEF Init, IInv, GoesOn, NoFailure, VerdictIsTrue

\* The actions that leave the record and the current step alone.
LEMMA SamePath ==
    ASSUME RecordIsPath, UNCHANGED <<workflow, steps, at>>
    PROVE  RecordIsPath'
BY DEF RecordIsPath, Follows, Successors, Kind, Last

LEMMA StepsUntouched ==
    ASSUME IInv, TimeOut \/ StepNotFound \/ BeginStep \/ Conclude \/ AttemptPanics
    PROVE  IInv'
<1>1. UNCHANGED <<workflow, steps, at>>
  BY DEF TimeOut, StepNotFound, BeginStep, Conclude, AttemptPanics, inputs
<1>2. RecordIsPath'
  BY <1>1, SamePath DEF IInv
<1>3. NoFailure' <=> NoFailure
  BY <1>1 DEF NoFailure
<1>4. CASE TimeOut
  BY <1>2, <1>4, MaxStepsNat
  DEF IInv, TypeOK, TimeOut, effects, GoesOn, NoFailure, VerdictIsTrue, MaxSteps
<1>5. CASE StepNotFound
  <2>1. TypeOK'
    BY <1>5 DEF IInv, TypeOK, StepNotFound, inputs, effects, MaxSteps
  <2>2. VerdictIsTrue'
    BY <1>5, ExecutorAssumption DEF VerdictIsTrue, StepNotFound
  <2> QED BY <1>2, <1>5, <2>1, <2>2 DEF IInv, StepNotFound, GoesOn
<1>6. CASE BeginStep
  <2>1. TypeOK'
    BY <1>6, WorkflowTyped
    DEF IInv, TypeOK, BeginStep, SeeTimeout, inputs, effects, MaxSteps
  <2> QED BY <1>1, <1>2, <1>3, <1>6, <2>1
          DEF IInv, TypeOK, BeginStep, SeeTimeout, GoesOn, VerdictIsTrue, Continues,
              MaxSteps
<1>7. CASE Conclude
  <2>1. TypeOK'
    BY <1>7 DEF IInv, TypeOK, Conclude, inputs, effects, MaxSteps
  <2>2. VerdictIsTrue'
    BY <1>1, <1>7, MaxStepsNat
    DEF IInv, TypeOK, VerdictIsTrue, Conclude, Continues, GoesOn, NoFailure, MaxSteps
  <2> QED BY <1>2, <1>7, <2>1, <2>2 DEF IInv, Conclude, GoesOn
<1>8. CASE AttemptPanics
  <2>1. TypeOK'
    <3>1. at \in Steps
      BY <1>8 DEF IInv, TypeOK, AttemptPanics
    <3>2. /\ runs' \in [Steps -> Nat]
          /\ rewritten' \in SUBSET Steps
      BY <1>8, <3>1, CallTyped DEF IInv, AttemptPanics
    <3> QED BY <1>8, <3>1, <3>2 DEF IInv, TypeOK, AttemptPanics, inputs, MaxSteps
  <2> QED BY <1>1, <1>2, <1>3, <1>8, <2>1
          DEF IInv, AttemptPanics, GoesOn, VerdictIsTrue
<1> QED BY <1>4, <1>5, <1>6, <1>7, <1>8

LEMMA SkipDisabledIInv == ASSUME IInv, SkipDisabled PROVE IInv'
<1> DEFINE r == Record(at, "skipped", 0)
<1>1. /\ at \in Steps /\ r \in StepRecord /\ r.step = at /\ r.status = "skipped"
      /\ steps \in Seq(StepRecord)
  BY DEF SkipDisabled, Record, StepRecord, IInv, TypeOK
<1>2. steps' = Append(steps, r) /\ workflow' = workflow /\ at' = workflow.next[at]
  BY DEF SkipDisabled, inputs
<1>3. RecordIsPath'
  <2>1. Follows(r, at')
    BY <1>1, <1>2 DEF Follows
  <2>2. TypeOK /\ RecordIsPath /\ NoFailure /\ (steps = <<>> => at = First)
    BY DEF IInv, SkipDisabled, GoesOn
  <2> HIDE DEF r
  <2> QED BY <1>1, <1>2, <2>1, <2>2, PathGrows
<1>4. NoFailure' /\ steps' # <<>>
  BY <1>1, <1>2 DEF IInv, SkipDisabled, GoesOn, NoFailure
<1>5. TypeOK'
  <2>1. steps' \in Seq(StepRecord)
    BY <1>1, <1>2
  <2>2. counted' \in 0..MaxSteps
    BY MaxStepsNat DEF IInv, TypeOK, SkipDisabled, Continues
  <2>3. at' \in Steps \cup {End, Missing}
    BY <1>1, <1>2, WorkflowTyped DEF IInv
  <2> QED BY <2>1, <2>2, <2>3
          DEF IInv, TypeOK, SkipDisabled, SeeTimeout, StepRecord, inputs, effects, MaxSteps
<1> QED BY <1>3, <1>4, <1>5
        DEF IInv, TypeOK, SkipDisabled, SeeTimeout, GoesOn, VerdictIsTrue

LEMMA AttemptSucceedsIInv == ASSUME IInv, AttemptSucceeds PROVE IInv'
<1> DEFINE r == Record(at, "completed", attempt)
<1>1. /\ at \in Steps /\ r \in StepRecord /\ r.step = at /\ r.status = "completed"
      /\ steps \in Seq(StepRecord)
  BY DEF AttemptSucceeds, Record, StepRecord, IInv, TypeOK
<1>2. steps' = Append(steps, r) /\ workflow' = workflow /\ at' \in Successors(at)
  BY DEF AttemptSucceeds, inputs
<1>3. RecordIsPath'
  <2>1. Follows(r, at')
    BY <1>1, <1>2 DEF Follows
  <2>2. TypeOK /\ RecordIsPath /\ NoFailure /\ (steps = <<>> => at = First)
    BY DEF IInv, AttemptSucceeds, GoesOn
  <2> HIDE DEF r
  <2> QED BY <1>1, <1>2, <2>1, <2>2, PathGrows
<1>4. NoFailure' /\ steps' # <<>>
  BY <1>1, <1>2 DEF IInv, AttemptSucceeds, GoesOn, NoFailure
<1>5. TypeOK'
  <2>1. steps' \in Seq(StepRecord)
    BY <1>1, <1>2
  <2>2. counted' \in 0..MaxSteps
    BY MaxStepsNat DEF IInv, TypeOK, AttemptSucceeds
  <2>3. at' \in Steps \cup {End, Missing}
    BY <1>1, <1>2, WorkflowTyped DEF IInv
  <2>4. /\ runs' \in [Steps -> Nat]
        /\ rewritten' \in SUBSET Steps
    BY <1>1, CallTyped DEF IInv, AttemptSucceeds
  <2> QED BY <2>1, <2>2, <2>3, <2>4
          DEF IInv, TypeOK, AttemptSucceeds, StepRecord, inputs, MaxSteps
<1> QED BY <1>3, <1>4, <1>5
        DEF IInv, TypeOK, AttemptSucceeds, GoesOn, VerdictIsTrue

LEMMA AttemptFailsIInv == ASSUME IInv, AttemptFails PROVE IInv'
<1> DEFINE r == Record(at, "failed", attempt)
<1>1. /\ at \in Steps /\ r \in StepRecord /\ r.step = at /\ r.status = "failed"
      /\ steps \in Seq(StepRecord)
  BY DEF AttemptFails, Record, StepRecord, IInv, TypeOK
<1>2. /\ runs' \in [Steps -> Nat]
      /\ rewritten' \in SUBSET Steps
  BY <1>1, CallTyped DEF IInv, AttemptFails
<1>3. workflow' = workflow /\ at' = at
  BY DEF AttemptFails, inputs
<1>4. CASE attempt < limit
  <2>1. TypeOK'
    BY <1>2, <1>4 DEF IInv, TypeOK, AttemptFails, inputs, MaxSteps
  <2>2. RecordIsPath'
    BY <1>3, <1>4, SamePath DEF IInv, AttemptFails
  <2>3. NoFailure' <=> NoFailure
    BY <1>4 DEF NoFailure, AttemptFails
  <2> QED BY <1>3, <1>4, <2>1, <2>2, <2>3
          DEF IInv, AttemptFails, GoesOn, VerdictIsTrue, MaxSteps
<1>5. CASE ~(attempt < limit)
  <2>1. steps' = Append(steps, r)
    BY <1>5 DEF AttemptFails
  <2>2. RecordIsPath'
    <3>1. TypeOK /\ RecordIsPath /\ NoFailure /\ (steps = <<>> => at = First)
      BY DEF IInv, AttemptFails, GoesOn
    <3> HIDE DEF r
    <3> QED BY <1>1, <1>3, <2>1, <3>1, PathGrows
  <2>3. TypeOK'
    <3>1. steps' \in Seq(StepRecord)
      BY <1>1, <2>1
    <3> QED BY <1>2, <1>5, <3>1
            DEF IInv, TypeOK, AttemptFails, StepRecord, inputs, MaxSteps
  <2>4. \E i \in DOMAIN steps' : steps'[i].status = "failed"
    <3>1. Len(steps) + 1 \in DOMAIN steps' /\ steps'[Len(steps) + 1] = r
      BY <1>1, <2>1
    <3> QED BY <1>1, <3>1
  <2>5. point' = "done" /\ success' = FALSE
    BY <1>5 DEF AttemptFails
  <2> QED BY <2>2, <2>3, <2>4, <2>5 DEF IInv, GoesOn, VerdictIsTrue
<1> QED BY <1>4, <1>5

-----------------------------------------------------------------------------
(* The theorems.                                                           *)

LEMMA NextIInv == IInv /\ [Next]_vars => IInv'
<1> SUFFICES ASSUME IInv, [Next]_vars PROVE IInv'
  OBVIOUS
<1>1. CASE UNCHANGED vars
  BY <1>1, SamePath
  DEF IInv, TypeOK, GoesOn, NoFailure, VerdictIsTrue, MaxSteps, vars, inputs, effects
<1> QED BY <1>1, StepsUntouched, SkipDisabledIInv, AttemptSucceedsIInv, AttemptFailsIInv
        DEF Next, Execute

LEMMA Inductive == Spec => []IInv
BY InitIInv, NextIInv, PTL DEF Spec

\* Every variable of Execute keeps its type; in particular the executions of an
\* arbitrary workflow run no more than twice as many steps as it has.
THEOREM ExecutorTypeCorrect == Spec => []TypeOK
<1>1. IInv => TypeOK
  BY DEF IInv
<1> QED BY <1>1, Inductive, PTL

\* What Execute reports to the worker is what has happened, for every workflow:
\* success means that the end was reached with no step failed and in time.
THEOREM VerdictTrue == Spec => []VerdictIsTrue
<1>1. IInv => VerdictIsTrue
  BY DEF IInv
<1> QED BY <1>1, Inductive, PTL

\* The steps that are recorded are always a way through the workflow, from its
\* first step on, and nothing is recorded after a failure.
THEOREM RecordPath == Spec => []RecordIsPath
<1>1. IInv => RecordIsPath
  BY DEF IInv
<1> QED BY <1>1, Inductive, PTL

-----------------------------------------------------------------------------
(* Accounts and tokens.                                                    *)

\* What a request has exchanged while Redis answered is on the list for the rest of its
\* life: the twin of the exchange may have expired the token in between, but its slot is
\* not used again while a request holds it.
ListedUntilIssued ==
    \A r \in Requests :
        (call[r] # None /\ call[r].stage = "issue" /\ call[r].token # None /\ ~call[r].blind)
            => (call[r].token \in live => call[r].token \in revoked)

\* The inductive invariant.  (The tokens of the history are alive, so that none of them is
\* in a slot that is used again.)
Listed ==
    /\ call = [r \in Requests |-> call[r]]
    /\ live \subseteq Sessions!Token /\ spent \subseteq live \cap revoked
    /\ ListedUntilIssued

-----------------------------------------------------------------------------
\* A request that moves on leaves the others as they are.
LEMMA GoEffect ==
  ASSUME Listed, NEW r \in Requests, NEW stage, NEW t, NEW a, NEW e, NEW blind,
         Sessions!Go(r, stage, t, a, e, blind)
  PROVE  /\ call' = [q \in Requests |-> call'[q]]
         /\ call'[r].stage = stage /\ call'[r].token = t /\ call'[r].blind = blind
         /\ \A q \in Requests \ {r} : call'[q] = call[q]
BY DEF Listed, Sessions!Go

LEMMA ReturnEffect ==
  ASSUME Listed, NEW r \in Requests, Sessions!Return(r)
  PROVE  /\ call' = [q \in Requests |-> call'[q]] /\ call'[r] = None
         /\ \A q \in Requests \ {r} : call'[q] = call[q]
BY DEF Listed, Sessions!Return

\* A revocation that was answered is on the list if the token still lives.
LEMMA RevokeEffect ==
  ASSUME NEW t, NEW redis \in BOOLEAN, Sessions!RevokeToken(t, redis)
  PROVE  /\ revoked \subseteq revoked'
         /\ Sessions!Revoked(t, redis) /\ t \in live => t \in revoked'
BY DEF Sessions!RevokeToken, Sessions!Revoked

\* Steps that neither issue nor exchange: the list grows, nothing comes to life.
LEMMA QuietKeeps ==
  ASSUME Listed, NEW r \in Requests, live' = live, revoked \subseteq revoked',
         spent' \subseteq live' \cap revoked',
         \/ Sessions!Return(r)
         \/ \E stage, t, a, e, blind :
               /\ Sessions!Go(r, stage, t, a, e, blind)
               /\ stage = "issue" /\ t # None /\ ~blind => (t \in live => t \in revoked')
  PROVE  Listed'
<1>1. CASE Sessions!Return(r)
  BY <1>1, ReturnEffect DEF Listed, ListedUntilIssued
<1>2. CASE ~Sessions!Return(r)
  BY <1>2, GoEffect DEF Listed, ListedUntilIssued
<1> QED  BY <1>1, <1>2

LEMMA IssueKeeps ==
  ASSUME Listed, NEW r \in Requests, Sessions!IssueTokens(r), Sessions!AccessAssumption
  PROVE  Listed'
<1>1. PICK s \in Slots : Sessions!Free(s) /\ live' = live \cup {<<s, k>> : k \in Sessions!Kinds}
  BY DEF Sessions!IssueTokens, Sessions!GenerateTokens
<1>2. revoked' = revoked /\ spent' = spent \cup {t \in live : t = call[r].token /\ ~call[r].blind}
      /\ Sessions!Return(r) /\ Sessions!At(r, "issue")
  BY DEF Sessions!IssueTokens
<1>3. live' \subseteq Sessions!Token
  BY <1>1 DEF Listed, Sessions!Token
<1>4. spent' \subseteq live' \cap revoked'
  <2>1. None \notin live
    BY DEF Listed, Sessions!AccessAssumption
  <2>2. \A t \in live : t = call[r].token /\ ~call[r].blind => t \in revoked
    BY <1>2, <2>1 DEF Listed, ListedUntilIssued, Sessions!At
  <2> QED  BY <1>1, <1>2, <2>2 DEF Listed
<1>5. ListedUntilIssued'
  <2> SUFFICES ASSUME NEW q \in Requests, call'[q] # None, call'[q].stage = "issue",
                      call'[q].token # None, ~call'[q].blind, call'[q].token \in live'
               PROVE  call'[q].token \in revoked'
    BY DEF ListedUntilIssued
  <2>1. q # r /\ call'[q] = call[q]
    BY <1>2, ReturnEffect
  <2>2. \A k \in Sessions!Kinds : call[q].token # <<s, k>>
    BY <1>1, <2>1 DEF Sessions!Free
  <2> QED  BY <1>1, <1>2, <2>1, <2>2 DEF Listed, ListedUntilIssued
<1> QED  BY <1>2, <1>3, <1>4, <1>5, ReturnEffect DEF Listed

LEMMA StepKeeps ==
  ASSUME Listed, NEW r \in Requests, Sessions!Step(r), Sessions!AccessAssumption
  PROVE  Listed'
<1>1. CASE Sessions!CreateUser(r)
  BY <1>1, QuietKeeps DEF Sessions!CreateUser, Sessions!tokens, Listed
<1>2. CASE Sessions!RefreshUser(r)
  <2>1. Sessions!Return(r) \/ \E t, a : Sessions!Go(r, "exchange", t, a, None, FALSE)
    BY <1>2 DEF Sessions!RefreshUser
  <2>2. "exchange" # "issue"
    OBVIOUS
  <2> QED  BY <1>2, <2>1, <2>2, QuietKeeps DEF Sessions!RefreshUser, Sessions!tokens, Listed
<1>3. CASE Sessions!Exchange(r)
  <2> DEFINE t == call[r].token
  <2>1. PICK redis \in BOOLEAN :
           /\ Sessions!RevokeToken(t, redis)
           /\ Sessions!Go(r, "issue", t, call[r].user, None, ~Sessions!Revoked(t, redis))
    BY <1>3 DEF Sessions!Exchange
  <2>2. revoked \subseteq revoked' /\ (Sessions!Revoked(t, redis) /\ t \in live => t \in revoked')
    BY <2>1, RevokeEffect
  <2>3. live' = live /\ spent' = spent
    BY <1>3 DEF Sessions!Exchange
  <2> QED  BY <2>1, <2>2, <2>3, QuietKeeps DEF Listed
<1>4. CASE Sessions!Logout(r)
  <2> DEFINE t == call[r].token
  <2>1. PICK redis \in BOOLEAN :
           /\ Sessions!RevokeToken(t, redis)
           /\ IF Sessions!Revoked(t, redis)
              THEN /\ spent' = spent \cup ({t} \cap live)
                   /\ \/ \E u \in live : Sessions!Go(r, "logout", u, None, None, FALSE)
                      \/ Sessions!Return(r)
              ELSE UNCHANGED spent /\ Sessions!Return(r)
    BY <1>4 DEF Sessions!Logout
  <2>2. /\ live' = live /\ revoked \subseteq revoked'
        /\ Sessions!Revoked(t, redis) /\ t \in live => t \in revoked'
    BY <1>4, <2>1, RevokeEffect DEF Sessions!Logout
  <2>3. spent' \subseteq live' \cap revoked'
    BY <2>1, <2>2 DEF Listed
  <2>4. "logout" # "issue" /\ (Sessions!Return(r) \/ \E u : Sessions!Go(r, "logout", u, None, None, FALSE))
    BY <2>1
  <2> QED  BY <2>2, <2>3, <2>4, QuietKeeps
<1>5. CASE Sessions!LogoutRefresh(r)
  <2> DEFINE t == call[r].token
  <2>1. PICK redis \in BOOLEAN :
           /\ Sessions!RevokeToken(t, redis)
           /\ spent' = IF Sessions!Revoked(t, redis) THEN spent \cup ({t} \cap live) ELSE spent
    BY <1>5 DEF Sessions!LogoutRefresh
  <2>2. /\ live' = live /\ Sessions!Return(r) /\ revoked \subseteq revoked'
        /\ Sessions!Revoked(t, redis) /\ t \in live => t \in revoked'
    BY <1>5, <2>1, RevokeEffect DEF Sessions!LogoutRefresh
  <2> QED  BY <2>1, <2>2, QuietKeeps DEF Listed
<1>6. CASE Sessions!ChangePassword(r)
  BY <1>6, RevokeEffect, QuietKeeps DEF Sessions!ChangePassword, Listed
<1>7. CASE Sessions!UpdateProfile(r)
  BY <1>7, QuietKeeps DEF Sessions!UpdateProfile, Sessions!tokens, Listed
<1> QED  BY <1>1, <1>2, <1>3, <1>4, <1>5, <1>6, <1>7, IssueKeeps DEF Sessions!Step

\* What a request begins with.
LEMMA BeginKeeps ==
  ASSUME Listed, NEW r \in Requests, Sessions!AccessAssumption,
         \/ \E e \in Emails : Sessions!Register(r, e) \/ Sessions!Login(r, e)
         \/ \E t \in Sessions!Token : Sessions!RefreshToken(r, t) \/ Sessions!RequireAuth(r, t)
  PROVE  Listed'
<1>1. UNCHANGED <<account, Sessions!tokens, spent>>
  BY DEF Sessions!Register, Sessions!Login, Sessions!RefreshToken, Sessions!RequireAuth
<1>2. ASSUME NEW stage, NEW t, NEW a, NEW e, NEW blind, Sessions!Go(r, stage, t, a, e, blind),
             stage = "issue" => t = None
      PROVE  Listed'
  BY <1>1, <1>2, QuietKeeps DEF Sessions!tokens, Listed
<1>3. ASSUME NEW e \in Emails, Sessions!Register(r, e) \/ Sessions!Login(r, e) PROVE Listed'
  BY <1>2, <1>3 DEF Sessions!Register, Sessions!Login
<1>4. ASSUME NEW t \in Sessions!Token, Sessions!RefreshToken(r, t) \/ Sessions!RequireAuth(r, t)
      PROVE  Listed'
  BY <1>2, <1>4 DEF Sessions!RefreshToken, Sessions!RequireAuth
<1> QED  BY <1>3, <1>4

LEMMA NextListed == Sessions!AccessAssumption /\ Listed /\ [Sessions!Next]_(Sessions!vars) => Listed'
<1> SUFFICES ASSUME Sessions!AccessAssumption, Listed, [Sessions!Next]_(Sessions!vars) PROVE Listed'
  OBVIOUS
<1>1. ASSUME NEW t \in Sessions!Token, Sessions!Expire(t) PROVE Listed'
  BY <1>1 DEF Sessions!Expire, Listed, ListedUntilIssued
<1>2. ASSUME NEW a \in Accounts, Sessions!Administer(a) PROVE Listed'
  BY <1>2 DEF Sessions!Administer, Sessions!tokens, Listed, ListedUntilIssued
<1>3. CASE UNCHANGED Sessions!vars
  BY <1>3 DEF Sessions!vars, Sessions!tokens, Listed, ListedUntilIssued
<1> QED  BY <1>1, <1>2, <1>3, StepKeeps, BeginKeeps DEF Sessions!Next

\* Each part moves by its own steps, or stays as it is.
LEMMA ExecutorOfAll == AllSpec => Spec
<1>1. AllInit => Init
  BY DEF AllInit
<1>2. [AllNext]_allVars => [Next]_vars
  BY DEF AllNext, ExecutorStep, SessionsStep, CacheStep, allVars
<1> QED  BY <1>1, <1>2, PTL DEF AllSpec, Spec

LEMMA SessionsOfAll == AllSpec => Sessions!Spec
<1>1. AllInit => Sessions!Init
  BY DEF AllInit
<1>2. [AllNext]_allVars => [Sessions!Next]_(Sessions!vars)
  BY DEF AllNext, ExecutorStep, SessionsStep, CacheStep, allVars, sessionVars, Sessions!vars,
         Sessions!tokens
<1> QED  BY <1>1, <1>2, PTL DEF AllSpec, Sessions!Spec

LEMMA CacheOfAll == AllSpec => Cached!Spec
<1>1. AllInit => Cached!Init
  BY DEF AllInit
<1>2. [AllNext]_allVars => [Cached!Next]_(Cached!vars)
  BY DEF AllNext, ExecutorStep, SessionsStep, CacheStep, allVars, cacheVars, Cached!vars,
         Cached!workflow, Cached!manager
<1> QED  BY <1>1, <1>2, PTL DEF AllSpec, Cached!Spec

\* However many requests present, exchange, revoke and renew tokens at once: one that was
\* exchanged or logged out of while Redis answered opens no request that Redis answers.
THEOREM SpentForGood == AllSpec => SpentStaysSpent
<1>0. Sessions!AccessAssumption
  BY Parameters
<1>1. Sessions!Init => Listed
  BY DEF Sessions!Init, Listed, ListedUntilIssued
<1>2. ASSUME Listed, [Sessions!Next]_(Sessions!vars)
      PROVE  [\A r \in Requests, t \in Sessions!Token :
               call[r] = None /\ call'[r] # None /\ call'[r].token = t /\ ~call'[r].blind
                 => t \notin spent]_(Sessions!vars)
  <2> SUFFICES ASSUME Sessions!Next, NEW r \in Requests, NEW t \in Sessions!Token, call[r] = None, call'[r] # None,
                      call'[r].token = t, ~call'[r].blind
               PROVE  t \notin spent
    BY <1>2
  <2>0. t # None /\ spent \subseteq revoked
    BY <1>0, <1>2 DEF Sessions!AccessAssumption, Listed
  <2>1. ASSUME NEW q \in Requests, Sessions!Step(q) PROVE FALSE
    <3>1. q # r
      BY <2>1 DEF Sessions!Step, Sessions!CreateUser, Sessions!IssueTokens, Sessions!RefreshUser, Sessions!Exchange, Sessions!Logout, Sessions!LogoutRefresh,
                  Sessions!ChangePassword, Sessions!UpdateProfile, Sessions!At
    <3>2. Sessions!Return(q) \/ \E stage, u, a, e, blind : Sessions!Go(q, stage, u, a, e, blind)
      BY <2>1 DEF Sessions!Step, Sessions!CreateUser, Sessions!IssueTokens, Sessions!RefreshUser, Sessions!Exchange, Sessions!Logout, Sessions!LogoutRefresh,
                  Sessions!ChangePassword, Sessions!UpdateProfile
    <3>3. call'[r] = call[r]
      BY <1>2, <3>1, <3>2, GoEffect, ReturnEffect
    <3> QED  BY <3>3
  <2>2. ASSUME NEW q \in Requests, NEW e \in Emails, Sessions!Register(q, e) \/ Sessions!Login(q, e) PROVE FALSE
    <3>1. \E stage, a, m, blind : Sessions!Go(q, stage, None, a, m, blind)
      BY <2>2 DEF Sessions!Register, Sessions!Login
    <3> QED  BY <1>2, <2>0, <3>1, GoEffect
  <2>3. ASSUME NEW q \in Requests, NEW u \in Sessions!Token, Sessions!RefreshToken(q, u) \/ Sessions!RequireAuth(q, u)
        PROVE  t \notin spent
    <3>1. PICK redis \in BOOLEAN, kind \in Sessions!Kinds :
             /\ Sessions!ValidateToken(u, kind, redis)
             /\ \E stage, a : Sessions!Go(q, stage, u, a, None, ~redis)
      BY <2>3 DEF Sessions!RefreshToken, Sessions!RequireAuth, Sessions!Kinds
    <3>2. q = r /\ t = u /\ redis
      BY <1>2, <3>1, GoEffect
    <3> QED  BY <2>0, <3>1, <3>2 DEF Sessions!ValidateToken
  <2>4. ASSUME \/ \E u \in Sessions!Token : Sessions!Expire(u)
               \/ \E a \in Accounts : Sessions!Administer(a)
        PROVE  FALSE
    BY <2>4 DEF Sessions!Expire, Sessions!Administer
  <2> QED  BY <2>1, <2>2, <2>3, <2>4 DEF Sessions!Next
<1> QED  BY <1>0, <1>1, <1>2, NextListed, SessionsOfAll, PTL
         DEF Sessions!Spec, SpentStaysSpent, Sessions!SpentStaysSpent

-----------------------------------------------------------------------------
(* The types of accounts and tokens.                                       *)

\* Who is served by a token, or signed in, has a document: documents of accounts are never
\* deleted, and a request that creates one carries its address.
Served ==
    \A r \in Requests : call[r] # None =>
        /\ call[r].stage = "create" => call[r].email \in Emails
        /\ call[r].stage \in {"issue", "user", "exchange", "handler"} =>
               call[r].user \in Accounts /\ account[call[r].user] \in Sessions!User

OwnersHaveDocuments ==
    \A s \in Slots : owner[s] # None => owner[s] \in Accounts /\ account[owner[s]] \in Sessions!User

SessionsTyped == Sessions!TypeOK /\ Served /\ OwnersHaveDocuments

\* A request moves to a stage with what the stage needs.
LEMMA GoTyped ==
  ASSUME SessionsTyped, NEW r \in Requests,
         NEW stage \in Sessions!Stages, NEW t \in Sessions!Token \cup {None},
         NEW a \in Accounts \cup {None}, NEW e \in Emails \cup {None}, NEW blind \in BOOLEAN,
         Sessions!Go(r, stage, t, a, e, blind),
         \A b \in Accounts : account[b] \in Sessions!User => account'[b] \in Sessions!User,
         stage = "create" => e \in Emails,
         stage \in {"issue", "user", "exchange", "handler"} =>
             a \in Accounts /\ account'[a] \in Sessions!User
  PROVE  call' \in [Requests -> Sessions!Call \cup {None}] /\ Served'
<1> DEFINE c == [stage |-> stage, token |-> t, user |-> a, email |-> e, blind |-> blind]
<1>1. c \in Sessions!Call
  BY DEF Sessions!Call
<1>2. c.stage = stage /\ c.email = e /\ c.user = a
  OBVIOUS
<1>3. call' = [call EXCEPT ![r] = c] /\ call \in [Requests -> Sessions!Call \cup {None}]
  BY DEF Sessions!Go, SessionsTyped, Sessions!TypeOK
<1> HIDE DEF c
<1>4. /\ call' \in [Requests -> Sessions!Call \cup {None}] /\ call'[r] = c
      /\ \A q \in Requests \ {r} : call'[q] = call[q]
  BY <1>1, <1>3
<1>5. Served'
  <2> SUFFICES ASSUME NEW q \in Requests, call'[q] # None
               PROVE  /\ call'[q].stage = "create" => call'[q].email \in Emails
                      /\ call'[q].stage \in {"issue", "user", "exchange", "handler"} =>
                           call'[q].user \in Accounts /\ account'[call'[q].user] \in Sessions!User
    BY DEF Served
  <2>1. CASE q = r
    BY <1>2, <1>4, <2>1
  <2>2. CASE q # r
    BY <1>4, <2>2 DEF SessionsTyped, Served
  <2> QED  BY <2>1, <2>2
<1> QED  BY <1>4, <1>5

LEMMA ReturnTyped ==
  ASSUME SessionsTyped, NEW r \in Requests, Sessions!Return(r),
         \A b \in Accounts : account[b] \in Sessions!User => account'[b] \in Sessions!User
  PROVE  call' \in [Requests -> Sessions!Call \cup {None}] /\ Served'
<1>1. call' = [call EXCEPT ![r] = None] /\ call \in [Requests -> Sessions!Call \cup {None}]
  BY DEF Sessions!Return, SessionsTyped, Sessions!TypeOK
<1>2. /\ call' \in [Requests -> Sessions!Call \cup {None}] /\ call'[r] = None
      /\ \A q \in Requests \ {r} : call'[q] = call[q]
  BY <1>1
<1>3. Served'
  BY <1>2 DEF SessionsTyped, Served
<1> QED  BY <1>2, <1>3

\* What a step finds of its request.
LEMMA AtTyped ==
  ASSUME SessionsTyped, NEW r \in Requests, NEW stage, Sessions!At(r, stage)
  PROVE  /\ call[r] \in Sessions!Call /\ call[r].stage = stage
         /\ stage = "create" => call[r].email \in Emails
         /\ stage \in {"issue", "user", "exchange", "handler"} =>
               call[r].user \in Accounts /\ account[call[r].user] \in Sessions!User
BY DEF SessionsTyped, Sessions!TypeOK, Sessions!At, Served

\* The documents of accounts that a step leaves or writes.
LEMMA AccountsTyped ==
  ASSUME SessionsTyped, NEW a \in Accounts,
         \/ \E e \in Emails : Sessions!InsertUser(a, e)
         \/ account[a] \in Sessions!User /\ \E active \in BOOLEAN : Sessions!UpdateUser(a, active)
         \/ account' = account
  PROVE  /\ account' \in [Accounts -> Sessions!User \cup {None}]
         /\ \A b \in Accounts : account[b] \in Sessions!User => account'[b] \in Sessions!User
<1>0. account \in [Accounts -> Sessions!User \cup {None}]
  BY DEF SessionsTyped, Sessions!TypeOK
<1>1. ASSUME NEW e \in Emails, Sessions!InsertUser(a, e)
      PROVE  account'[a] \in Sessions!User /\ account' \in [Accounts -> Sessions!User \cup {None}]
             /\ \A b \in Accounts \ {a} : account'[b] = account[b]
  <2>1. [email |-> e, active |-> TRUE] \in Sessions!User
    BY DEF Sessions!User
  <2>2. account' = [account EXCEPT ![a] = [email |-> e, active |-> TRUE]]
    BY <1>1 DEF Sessions!InsertUser
  <2> QED  BY <1>0, <2>1, <2>2
<1>2. ASSUME account[a] \in Sessions!User, NEW active \in BOOLEAN, Sessions!UpdateUser(a, active)
      PROVE  account'[a] \in Sessions!User /\ account' \in [Accounts -> Sessions!User \cup {None}]
             /\ \A b \in Accounts \ {a} : account'[b] = account[b]
  <2> DEFINE new == [account[a] EXCEPT !.active = active]
  <2>1. new \in Sessions!User
    BY <1>2 DEF Sessions!User
  <2>2. account' = [account EXCEPT ![a] = new]
    BY <1>2 DEF Sessions!UpdateUser
  <2> HIDE DEF new
  <2> QED  BY <1>0, <2>1, <2>2
<1> QED  BY <1>0, <1>1, <1>2

\* Nothing is issued, and a list that is written holds tokens that are alive.
LEMMA QuietTyped ==
  ASSUME SessionsTyped, account' \in [Accounts -> Sessions!User \cup {None}],
         \A b \in Accounts : account[b] \in Sessions!User => account'[b] \in Sessions!User,
         owner' = owner, live' \subseteq live, revoked' \subseteq live', spent' \subseteq live',
         call' \in [Requests -> Sessions!Call \cup {None}] /\ Served'
  PROVE  SessionsTyped'
<1>1. Sessions!TypeOK'
  BY DEF SessionsTyped, Sessions!TypeOK, Sessions!Issued, Sessions!Claims
<1>2. OwnersHaveDocuments'
  BY DEF SessionsTyped, OwnersHaveDocuments
<1> QED  BY <1>1, <1>2 DEF SessionsTyped

LEMMA RevokeTyped ==
  ASSUME SessionsTyped, NEW t, NEW redis, Sessions!RevokeToken(t, redis)
  PROVE  revoked' \subseteq live
BY DEF SessionsTyped, Sessions!TypeOK, Sessions!RevokeToken

\* Whose token is alive has a document.
LEMMA ClaimsTyped ==
  ASSUME SessionsTyped, NEW t \in live
  PROVE  /\ t \in Sessions!Token /\ Sessions!Claims(t) \in Accounts
         /\ account[Sessions!Claims(t)] \in Sessions!User
<1>1. t \in Sessions!Token /\ Sessions!Claims(t) # None
  BY DEF SessionsTyped, Sessions!TypeOK, Sessions!Issued
<1>2. t[1] \in Slots
  BY <1>1 DEF Sessions!Token
<1> QED  BY <1>1, <1>2 DEF SessionsTyped, OwnersHaveDocuments, Sessions!Claims

LEMMA IssueTyped ==
  ASSUME SessionsTyped, Sessions!AccessAssumption, NEW r \in Requests, Sessions!IssueTokens(r)
  PROVE  SessionsTyped'
<1> DEFINE a == call[r].user
<1>1. a \in Accounts /\ account[a] \in Sessions!User /\ a # None
  BY AtTyped DEF Sessions!IssueTokens, Sessions!AccessAssumption
<1>2. PICK s \in Slots : /\ owner' = [owner EXCEPT ![s] = a]
                         /\ live' = live \cup {<<s, k>> : k \in Sessions!Kinds}
  BY DEF Sessions!IssueTokens, Sessions!GenerateTokens
<1>3. /\ spent' \subseteq spent \cup live /\ Sessions!Return(r) /\ account' = account
      /\ revoked' = revoked
  BY DEF Sessions!IssueTokens
<1> HIDE DEF a
<1>4. owner \in [Slots -> Accounts \cup {None}] /\ live \subseteq Sessions!Issued
      /\ revoked \subseteq live /\ spent \subseteq live
  BY DEF SessionsTyped, Sessions!TypeOK
<1>5. owner' \in [Slots -> Accounts \cup {None}] /\ owner'[s] = a
      /\ \A q \in Slots \ {s} : owner'[q] = owner[q]
  BY <1>1, <1>2, <1>4
<1>6. live' \subseteq Sessions!Issued'
  <2> SUFFICES ASSUME NEW t \in live' PROVE t \in Sessions!Issued'
    OBVIOUS
  <2>1. CASE t \in live
    <3>1. t \in Sessions!Token /\ t[1] \in Slots /\ owner[t[1]] # None
      BY <1>4, <2>1 DEF Sessions!Issued, Sessions!Claims, Sessions!Token
    <3>2. owner'[t[1]] # None
      BY <1>1, <1>5, <3>1
    <3> QED  BY <3>1, <3>2 DEF Sessions!Issued, Sessions!Claims
  <2>2. CASE t \notin live
    <3>1. PICK k \in Sessions!Kinds : t = <<s, k>>
      BY <1>2, <2>2
    <3>2. t \in Sessions!Token /\ t[1] = s
      BY <3>1 DEF Sessions!Token
    <3> QED  BY <1>1, <1>5, <3>2 DEF Sessions!Issued, Sessions!Claims
  <2> QED  BY <2>1, <2>2
<1>7. call' \in [Requests -> Sessions!Call \cup {None}] /\ Served'
  BY <1>3, ReturnTyped
<1>8. Sessions!TypeOK'
  BY <1>2, <1>3, <1>4, <1>5, <1>6, <1>7 DEF SessionsTyped, Sessions!TypeOK
<1>9. OwnersHaveDocuments'
  BY <1>1, <1>3, <1>5 DEF SessionsTyped, OwnersHaveDocuments
<1> QED  BY <1>7, <1>8, <1>9 DEF SessionsTyped

LEMMA SessionStepTyped ==
  ASSUME SessionsTyped, Sessions!AccessAssumption, NEW r \in Requests, Sessions!Step(r)
  PROVE  SessionsTyped'
<1>0. /\ \A b \in Accounts : account[b] \in Sessions!User => account[b] \in Sessions!User
      /\ account \in [Accounts -> Sessions!User \cup {None}]
      /\ revoked \subseteq live /\ spent \subseteq live
  BY DEF SessionsTyped, Sessions!TypeOK
<1>1. CASE Sessions!CreateUser(r)
  <2>1. call[r].email \in Emails /\ live' = live /\ owner' = owner /\ revoked' = revoked
        /\ spent' = spent
    BY <1>1, AtTyped DEF Sessions!CreateUser, Sessions!tokens
  <2>2. ASSUME NEW a \in Accounts, Sessions!InsertUser(a, call[r].email),
               Sessions!Go(r, "issue", None, a, None, FALSE) \/ Sessions!Return(r)
        PROVE  SessionsTyped'
    <3>1. /\ account' \in [Accounts -> Sessions!User \cup {None}]
          /\ \A b \in Accounts : account[b] \in Sessions!User => account'[b] \in Sessions!User
      BY <2>1, <2>2, AccountsTyped
    <3>2. account'[a] \in Sessions!User
      <4>1. account' = [account EXCEPT ![a] = [email |-> call[r].email, active |-> TRUE]]
        BY <2>2 DEF Sessions!InsertUser
      <4>2. [email |-> call[r].email, active |-> TRUE] \in Sessions!User
        BY <2>1 DEF Sessions!User
      <4> QED  BY <1>0, <4>1, <4>2
    <3>3. CASE Sessions!Go(r, "issue", None, a, None, FALSE)
      <4>1. "issue" \in Sessions!Stages /\ "issue" # "create"
        BY DEF Sessions!Stages
      <4>2. call' \in [Requests -> Sessions!Call \cup {None}] /\ Served'
        BY <3>1, <3>2, <3>3, <4>1, GoTyped
      <4> QED  BY <1>0, <2>1, <3>1, <4>2, QuietTyped
    <3>4. CASE Sessions!Return(r)
      <4>1. call' \in [Requests -> Sessions!Call \cup {None}] /\ Served'
        BY <3>1, <3>4, ReturnTyped
      <4> QED  BY <1>0, <2>1, <3>1, <4>1, QuietTyped
    <3> QED  BY <2>2, <3>3, <3>4
  <2>3. ASSUME Sessions!Return(r), account' = account PROVE SessionsTyped'
    <3>1. call' \in [Requests -> Sessions!Call \cup {None}] /\ Served'
      BY <2>3, ReturnTyped
    <3> QED  BY <1>0, <2>1, <2>3, <3>1, QuietTyped
  <2> QED  BY <1>1, <2>2, <2>3 DEF Sessions!CreateUser
<1>2. CASE Sessions!IssueTokens(r)
  BY <1>2, IssueTyped
<1>3. CASE Sessions!RefreshUser(r)
  <2>1. /\ account' = account /\ owner' = owner /\ live' = live /\ revoked' = revoked
        /\ spent' = spent
        /\ call[r].user \in Accounts /\ account[call[r].user] \in Sessions!User
        /\ call[r] \in Sessions!Call
        /\ Sessions!Return(r) \/ Sessions!Go(r, "exchange", call[r].token, call[r].user, None, FALSE)
    BY <1>3, AtTyped DEF Sessions!RefreshUser, Sessions!tokens
  <2>2. call[r].token \in Sessions!Token \cup {None} /\ "exchange" \in Sessions!Stages
        /\ "exchange" # "create"
    BY <2>1 DEF Sessions!Call, Sessions!Stages
  <2>3. call' \in [Requests -> Sessions!Call \cup {None}] /\ Served'
    BY <2>1, <2>2, GoTyped, ReturnTyped
  <2> QED  BY <1>0, <2>1, <2>3, QuietTyped
<1>4. CASE Sessions!Exchange(r)
  <2>1. /\ call[r].user \in Accounts /\ account[call[r].user] \in Sessions!User
        /\ call[r] \in Sessions!Call
    BY <1>4, AtTyped DEF Sessions!Exchange
  <2>2. PICK redis \in BOOLEAN :
            /\ Sessions!RevokeToken(call[r].token, redis)
            /\ Sessions!Go(r, "issue", call[r].token, call[r].user, None,
                           ~Sessions!Revoked(call[r].token, redis))
    BY <1>4 DEF Sessions!Exchange
  <2>3. /\ account' = account /\ owner' = owner /\ live' = live /\ spent' = spent
        /\ revoked' \subseteq live
    BY <1>4, <2>2, RevokeTyped DEF Sessions!Exchange
  <2>4. call[r].token \in Sessions!Token \cup {None} /\ "issue" \in Sessions!Stages
        /\ "issue" # "create" /\ (~Sessions!Revoked(call[r].token, redis)) \in BOOLEAN
    BY <2>1, Zenon DEF Sessions!Call, Sessions!Stages
  <2>5. call' \in [Requests -> Sessions!Call \cup {None}] /\ Served'
    BY <2>1, <2>2, <2>3, <2>4, GoTyped
  <2> QED  BY <1>0, <2>3, <2>5, QuietTyped
<1>5. CASE Sessions!Logout(r)
  <2>1. PICK redis \in BOOLEAN :
            /\ Sessions!RevokeToken(call[r].token, redis)
            /\ IF Sessions!Revoked(call[r].token, redis)
               THEN /\ spent' = spent \cup ({call[r].token} \cap live)
                    /\ \/ \E u \in live : Sessions!Go(r, "logout", u, None, None, FALSE)
                       \/ Sessions!Return(r)
               ELSE UNCHANGED spent /\ Sessions!Return(r)
    BY <1>5 DEF Sessions!Logout
  <2>2. /\ account' = account /\ owner' = owner /\ live' = live
        /\ revoked' \subseteq live /\ spent' \subseteq live
    BY <1>0, <1>5, <2>1, RevokeTyped DEF Sessions!Logout
  <2>3. "logout" \in Sessions!Stages /\ "logout" \notin {"create", "issue", "user", "exchange", "handler"}
    BY DEF Sessions!Stages
  <2>4. ASSUME NEW u \in live, Sessions!Go(r, "logout", u, None, None, FALSE)
        PROVE  call' \in [Requests -> Sessions!Call \cup {None}] /\ Served'
    <3>1. u \in Sessions!Token
      BY ClaimsTyped
    <3> QED  BY <2>2, <2>3, <2>4, <3>1, GoTyped
  <2>5. call' \in [Requests -> Sessions!Call \cup {None}] /\ Served'
    BY <2>1, <2>2, <2>4, ReturnTyped
  <2> QED  BY <1>0, <2>2, <2>5, QuietTyped
<1>6. CASE Sessions!LogoutRefresh(r)
  <2>1. /\ account' = account /\ owner' = owner /\ live' = live /\ Sessions!Return(r)
        /\ revoked' \subseteq live /\ spent' \subseteq live
    BY <1>0, <1>6, RevokeTyped DEF Sessions!LogoutRefresh
  <2>2. call' \in [Requests -> Sessions!Call \cup {None}] /\ Served'
    BY <2>1, ReturnTyped
  <2> QED  BY <1>0, <2>1, <2>2, QuietTyped
<1>7. CASE Sessions!ChangePassword(r)
  <2>1. /\ account' = account /\ owner' = owner /\ live' = live /\ Sessions!Return(r)
        /\ revoked' \subseteq live /\ spent' \subseteq live
    BY <1>0, <1>7, RevokeTyped DEF Sessions!ChangePassword
  <2>2. call' \in [Requests -> Sessions!Call \cup {None}] /\ Served'
    BY <2>1, ReturnTyped
  <2> QED  BY <1>0, <2>1, <2>2, QuietTyped
<1>8. CASE Sessions!UpdateProfile(r)
  <2>1. /\ owner' = owner /\ live' = live /\ revoked' = revoked /\ spent' = spent
        /\ Sessions!Return(r)
        /\ call[r].user \in Accounts /\ account[call[r].user] \in Sessions!User
    BY <1>8, AtTyped DEF Sessions!UpdateProfile, Sessions!tokens
  <2>2. account[call[r].user].active \in BOOLEAN
    BY <2>1 DEF Sessions!User
  <2>3. /\ account' \in [Accounts -> Sessions!User \cup {None}]
        /\ \A b \in Accounts : account[b] \in Sessions!User => account'[b] \in Sessions!User
    BY <1>8, <2>1, <2>2, AccountsTyped DEF Sessions!UpdateProfile
  <2>4. call' \in [Requests -> Sessions!Call \cup {None}] /\ Served'
    BY <2>1, <2>3, ReturnTyped
  <2> QED  BY <1>0, <2>1, <2>3, <2>4, QuietTyped
<1> QED  BY <1>1, <1>2, <1>3, <1>4, <1>5, <1>6, <1>7, <1>8 DEF Sessions!Step

LEMMA SessionNextTyped ==
  ASSUME SessionsTyped, Sessions!AccessAssumption, [Sessions!Next]_(Sessions!vars)
  PROVE  SessionsTyped'
<1>0. /\ account \in [Accounts -> Sessions!User \cup {None}]
      /\ revoked \subseteq live /\ spent \subseteq live
      /\ call \in [Requests -> Sessions!Call \cup {None}] /\ Served
  BY DEF SessionsTyped, Sessions!TypeOK
<1>1. ASSUME NEW r \in Requests, NEW e \in Emails, Sessions!Register(r, e) PROVE SessionsTyped'
  <2>1. /\ account' = account /\ owner' = owner /\ live' = live /\ revoked' = revoked
        /\ spent' = spent /\ Sessions!Go(r, "create", None, None, e, FALSE)
    BY <1>1 DEF Sessions!Register, Sessions!tokens
  <2>2. "create" \in Sessions!Stages /\ "create" \notin {"issue", "user", "exchange", "handler"}
    BY DEF Sessions!Stages
  <2>3. call' \in [Requests -> Sessions!Call \cup {None}] /\ Served'
    BY <2>1, <2>2, GoTyped
  <2> QED  BY <1>0, <2>1, <2>3, QuietTyped
<1>2. ASSUME NEW r \in Requests, NEW e \in Emails, Sessions!Login(r, e) PROVE SessionsTyped'
  <2>1. /\ account' = account /\ owner' = owner /\ live' = live /\ revoked' = revoked
        /\ spent' = spent
    BY <1>2 DEF Sessions!Login, Sessions!tokens
  <2>2. PICK a \in Accounts : /\ account[a] # None
                              /\ Sessions!Go(r, "issue", None, a, None, FALSE)
    BY <1>2 DEF Sessions!Login, Sessions!HasEmail
  <2>3. "issue" \in Sessions!Stages /\ "issue" # "create" /\ account[a] \in Sessions!User
    BY <1>0, <2>2 DEF Sessions!Stages
  <2>4. call' \in [Requests -> Sessions!Call \cup {None}] /\ Served'
    BY <2>1, <2>2, <2>3, GoTyped
  <2> QED  BY <1>0, <2>1, <2>4, QuietTyped
<1>3. ASSUME NEW r \in Requests, NEW t \in Sessions!Token,
             Sessions!RefreshToken(r, t) \/ Sessions!RequireAuth(r, t)
      PROVE  SessionsTyped'
  <2>1. /\ account' = account /\ owner' = owner /\ live' = live /\ revoked' = revoked
        /\ spent' = spent
    BY <1>3 DEF Sessions!RefreshToken, Sessions!RequireAuth, Sessions!tokens
  <2>2. PICK redis \in BOOLEAN, stage \in {"user", "handler"} :
            t \in live /\ Sessions!Go(r, stage, t, Sessions!Claims(t), None, ~redis)
    BY <1>3 DEF Sessions!RefreshToken, Sessions!RequireAuth, Sessions!ValidateToken
  <2>3. /\ stage \in Sessions!Stages /\ stage # "create" /\ (~redis) \in BOOLEAN
        /\ Sessions!Claims(t) \in Accounts /\ account[Sessions!Claims(t)] \in Sessions!User
    BY <2>2, ClaimsTyped DEF Sessions!Stages
  <2>4. call' \in [Requests -> Sessions!Call \cup {None}] /\ Served'
    BY <2>1, <2>2, <2>3, GoTyped
  <2> QED  BY <1>0, <2>1, <2>4, QuietTyped
<1>4. ASSUME NEW t \in Sessions!Token, Sessions!Expire(t) PROVE SessionsTyped'
  <2>1. /\ account' = account /\ owner' = owner /\ call' = call
        /\ live' \subseteq live /\ revoked' \subseteq live' /\ spent' \subseteq live'
    BY <1>0, <1>4 DEF Sessions!Expire
  <2>2. Served'
    BY <1>0, <2>1 DEF Served
  <2> QED  BY <1>0, <2>1, <2>2, QuietTyped
<1>5. ASSUME NEW a \in Accounts, Sessions!Administer(a) PROVE SessionsTyped'
  <2>1. /\ owner' = owner /\ live' = live /\ revoked' = revoked /\ spent' = spent /\ call' = call
        /\ account[a] \in Sessions!User
    BY <1>0, <1>5 DEF Sessions!Administer, Sessions!tokens
  <2>2. /\ account' \in [Accounts -> Sessions!User \cup {None}]
        /\ \A b \in Accounts : account[b] \in Sessions!User => account'[b] \in Sessions!User
    BY <1>5, <2>1, AccountsTyped DEF Sessions!Administer
  <2>3. Served'
    BY <1>0, <2>1, <2>2 DEF Served
  <2> QED  BY <1>0, <2>1, <2>2, <2>3, QuietTyped
<1>6. CASE UNCHANGED Sessions!vars
  <2>1. /\ account' = account /\ owner' = owner /\ live' = live /\ revoked' = revoked
        /\ spent' = spent /\ call' = call
    BY <1>6 DEF Sessions!vars, Sessions!tokens
  <2>2. Served'
    BY <1>0, <2>1 DEF Served
  <2> QED  BY <1>0, <2>1, <2>2, QuietTyped
<1> QED  BY <1>1, <1>2, <1>3, <1>4, <1>5, <1>6, SessionStepTyped DEF Sessions!Next

LEMMA SessionsKeepTypes == AllSpec => []Sessions!TypeOK
<1>0. Sessions!AccessAssumption
  BY Parameters
<1>1. Sessions!Init => SessionsTyped
  BY DEF Sessions!Init, SessionsTyped, Sessions!TypeOK, Served, OwnersHaveDocuments
<1>2. SessionsTyped => Sessions!TypeOK
  BY DEF SessionsTyped
<1> QED  BY <1>0, <1>1, <1>2, SessionNextTyped, SessionsOfAll, PTL DEF Sessions!Spec

-----------------------------------------------------------------------------
(* What the executor records of its runs.                                  *)

\* While a step is tried its attempts are not recorded yet.
Unrecorded(s) == IF point = "try" /\ s = at THEN attempt ELSE 0

RunsTold ==
    /\ point \in {"head", "try", "done"} => \A s \in Steps : runs[s] = Runs(s) + Unrecorded(s)
    /\ PanicHasCause

LEMMA Span ==
  ASSUME NEW k \in Nat
  PROVE  IsFiniteSet(0..k) /\ Cardinality(0..k) = k + 1
<1>1. 0 \in Int /\ k \in Int /\ ~(0 > k) /\ k - 0 + 1 = k + 1
  OBVIOUS
<1> QED  BY <1>1, FS_Interval

LEMMA RunsTyped ==
  ASSUME TypeOK, NEW s \in Steps
  PROVE  /\ Runs(s) \in Nat
         /\ IsFiniteSet(UNION {Tries(i) : i \in
                {i \in DOMAIN steps : steps[i].step = s /\ steps[i].status # "skipped"}})
<1> DEFINE n == Len(steps)
           I == {i \in DOMAIN steps : steps[i].step = s /\ steps[i].status # "skipped"}
           U == UNION {Tries(i) : i \in I}
<1>1. n \in Nat /\ DOMAIN steps = 1..n /\ \A i \in 1..n : steps[i] \in StepRecord
  <2>1. steps \in Seq(StepRecord)
    BY DEF TypeOK, StepRecord
  <2> QED  BY <2>1
<1>2. IsFiniteSet(I) /\ \A i \in I : IsFiniteSet(Tries(i))
  <2>1. IsFiniteSet(I)
    <3>1. IsFiniteSet(1..n)
      BY <1>1, FS_Interval
    <3> QED  BY <1>1, <3>1, FS_Subset
  <2>2. ASSUME NEW i \in I PROVE IsFiniteSet(Tries(i))
    <3>1. steps[i].retries \in Nat
      BY <1>1 DEF StepRecord
    <3>2. IsFiniteSet({i}) /\ IsFiniteSet(0..steps[i].retries)
      BY <3>1, Span, FS_Singleton
    <3> QED  BY <3>2, FS_Product DEF Tries
  <2> QED  BY <2>1, <2>2
<1>3. IsFiniteSet(U)
  <2>1. IsFiniteSet({Tries(i) : i \in I})
    <3> DEFINE f == [i \in I |-> Tries(i)]
    <3>1. f \in Surjection(I, {Tries(i) : i \in I})
      BY DEF Surjection
    <3> HIDE DEF f
    <3> QED  BY <1>2, <3>1, FS_Surjection
  <2> QED  BY <1>2, <2>1, FS_UNION
<1> QED  BY <1>3, FS_CardinalityType DEF Runs

\* The calls that a record stands for are counted apart from those of the others.
LEMMA RunsOfAppend ==
  ASSUME TypeOK, NEW r \in StepRecord, steps' = Append(steps, r), NEW s \in Steps
  PROVE  /\ Runs(s) \in Nat
         /\ Runs(s)' = Runs(s) + (IF r.step = s /\ r.status # "skipped" THEN r.retries + 1 ELSE 0)
<1> DEFINE n == Len(steps)
           I == {i \in DOMAIN steps : steps[i].step = s /\ steps[i].status # "skipped"}
           U == UNION {Tries(i) : i \in I}
           new == {n + 1} \X (0..r.retries)
<1>1. /\ steps \in Seq(StepRecord) /\ n \in Nat /\ DOMAIN steps = 1..n
      /\ DOMAIN steps' = 1..(n + 1) /\ steps'[n + 1] = r
      /\ \A i \in 1..n : steps'[i] = steps[i] /\ steps[i] \in StepRecord
  <2>1. steps \in Seq(StepRecord) /\ r \in StepRecord
    BY DEF TypeOK, StepRecord
  <2> QED  BY <2>1
<1>3. IsFiniteSet(U)
  BY RunsTyped
<1>4. \A i \in I : Tries(i)' = Tries(i)
  BY <1>1 DEF Tries
<1>5. Runs(s) = Cardinality(U) /\ Cardinality(U) \in Nat
  BY <1>3, FS_CardinalityType DEF Runs
<1>6. r.retries \in Nat /\ r.step \in Steps
  BY DEF StepRecord
<1>7. U \cap new = {}
  <2>1. ASSUME NEW p \in U, p \in new PROVE FALSE
    <3>1. PICK i \in I : p \in Tries(i)
      OBVIOUS
    <3>2. p[1] = i /\ p[1] = n + 1 /\ i \in 1..n
      BY <1>1, <2>1, <3>1 DEF Tries
    <3> QED  BY <1>1, <3>2
  <2> QED  BY <2>1
<1>8. IsFiniteSet(new) /\ Cardinality(new) = r.retries + 1
  <2>1. IsFiniteSet({n + 1}) /\ Cardinality({n + 1}) = 1
    BY FS_Singleton
  <2>2. IsFiniteSet(0..r.retries) /\ Cardinality(0..r.retries) = r.retries + 1
    BY <1>6, Span
  <2>3. IsFiniteSet(new) /\ Cardinality(new) = Cardinality({n + 1}) * Cardinality(0..r.retries)
    BY <2>1, <2>2, FS_Product
  <2> QED  BY <1>6, <2>1, <2>2, <2>3
<1>9. CASE r.step = s /\ r.status # "skipped"
  <2>1. {i \in DOMAIN steps' : steps'[i].step = s /\ steps'[i].status # "skipped"} = I \cup {n + 1}
    BY <1>1, <1>9
  <2>2. \A i \in 1..(n + 1) : Tries(i)' = IF i = n + 1 THEN new ELSE Tries(i)
    BY <1>1 DEF Tries
  <2>3. UNION {Tries(i)' : i \in I \cup {n + 1}} = U \cup new
    <3>1. I \subseteq 1..n /\ n + 1 \notin I /\ n + 1 \in 1..(n + 1)
      BY <1>1
    <3>2. /\ \A i \in I : Tries(i)' = Tries(i)
          /\ \A i \in {n + 1} : Tries(i)' = new
      BY <1>1, <2>2, <3>1
    <3> HIDE DEF I, new
    <3> QED  BY <3>2
  <2>4. Runs(s)' = Cardinality(U \cup new)
    BY <2>1, <2>3 DEF Runs
  <2>5. Cardinality(U \cup new) = Cardinality(U) + Cardinality(new) - Cardinality(U \cap new)
        /\ Cardinality(U \cap new) = 0
    BY <1>3, <1>7, <1>8, FS_Union, FS_EmptySet
  <2> QED  BY <1>5, <1>6, <1>8, <1>9, <2>4, <2>5
<1>10. CASE ~(r.step = s /\ r.status # "skipped")
  <2>1. {i \in DOMAIN steps' : steps'[i].step = s /\ steps'[i].status # "skipped"} = I
    BY <1>1, <1>10
  <2>2. UNION {Tries(i)' : i \in I} = U
    BY <1>4
  <2>3. Runs(s)' = Cardinality(U)
    BY <2>1, <2>2 DEF Runs
  <2> QED  BY <1>5, <1>10, <2>3
<1> QED  BY <1>5, <1>9, <1>10

\* The steps that leave the record as it is.
LEMMA RunsOfSame ==
  ASSUME steps' = steps, NEW s
  PROVE  Runs(s)' = Runs(s)
<1>1. ASSUME NEW i PROVE Tries(i)' = Tries(i)
  BY DEF Tries
<1> QED  BY <1>1 DEF Runs

LEMMA OutcomesPanic ==
  ASSUME TypeOK, point = "try", "panic" \in Outcomes(at)
  PROVE  Kind(at) \in {"invalid transform", "invalid delay"}
<1>1. at \in Steps /\ Kind(at) \in Kinds
  BY ExecutorAssumption DEF TypeOK, WorkflowShape, Kind
<1>2. CASE Kind(at) = "condition"
  BY <1>2 DEF Outcomes, ConditionOutcomes
<1>3. CASE Kind(at) = "simulated"
  BY <1>3 DEF Outcomes, SimulatedOutcomes
<1>4. CASE Kind(at) = "delay"
  BY <1>4 DEF Outcomes, DelayOutcomes
<1>5. CASE Kind(at) = "email"
  BY <1>5 DEF Outcomes, EmailOutcomes
<1>6. CASE Kind(at) = "remote"
  BY <1>6 DEF Outcomes, HTTPOutcomes, SlackOutcomes, DatabaseOutcomes
<1>7. CASE Kind(at) = "webhook"
  BY <1>7 DEF Outcomes, HTTPOutcomes
<1>8. CASE Kind(at) = "transform"
  BY <1>8 DEF Outcomes, TransformOutcomes
<1> QED  BY <1>1, <1>2, <1>3, <1>4, <1>5, <1>6, <1>7, <1>8 DEF Kinds

\* A step that has been rewritten has a limit of retries that is no negative number.
LEMMA NegativeLimit ==
  ASSUME TypeOK, NEW s \in Steps, MaxRetries(s) < 0
  PROVE  workflow.maxRetries[s] < 0
BY ExecutorAssumption DEF TypeOK, WorkflowShape, MaxRetries

LEMMA InitRuns == Init => RunsTold
<1> SUFFICES ASSUME Init PROVE RunsTold
  OBVIOUS
<1>1. ASSUME NEW s \in Steps PROVE Runs(s) = 0
  <2>1. {i \in DOMAIN steps : steps[i].step = s /\ steps[i].status # "skipped"} = {}
    BY DEF Init
  <2>2. UNION {Tries(i) : i \in {}} = {}
    OBVIOUS
  <2> QED  BY <2>1, <2>2, FS_EmptySet DEF Runs
<1> QED  BY <1>1 DEF Init, RunsTold, Unrecorded, PanicHasCause

LEMMA NextRuns ==
  ASSUME TypeOK, RunsTold, [Next]_vars
  PROVE  RunsTold'
<1>1. CASE UNCHANGED vars
  BY <1>1, RunsOfSame DEF vars, inputs, effects, RunsTold, Unrecorded, PanicHasCause, Kind
<1>2. CASE TimeOut
  BY <1>2, RunsOfSame DEF TimeOut, effects, RunsTold, Unrecorded, PanicHasCause, Kind
<1>3. CASE StepNotFound
  BY <1>3, RunsOfSame DEF StepNotFound, inputs, effects, RunsTold, Unrecorded, PanicHasCause
<1>4. CASE Conclude
  BY <1>4, RunsOfSame DEF Conclude, inputs, effects, RunsTold, Unrecorded, PanicHasCause
<1>5. CASE SkipDisabled
  <2> DEFINE r == Record(at, "skipped", 0)
  <2>1. /\ r \in StepRecord /\ r.status = "skipped" /\ steps' = Append(steps, r)
        /\ point = "head" /\ point' = "head" /\ runs' = runs
    BY <1>5 DEF SkipDisabled, Record, StepRecord, effects
  <2> HIDE DEF r
  <2>2. \A s \in Steps : Runs(s)' = Runs(s) + 0
    BY <2>1, RunsOfAppend
  <2>3. ASSUME NEW s \in Steps PROVE runs[s] = Runs(s) /\ runs[s] \in Nat
    <3>1. Runs(s) \in Nat
      BY RunsTyped
    <3>2. runs[s] = Runs(s) + Unrecorded(s) /\ Unrecorded(s) = 0
      BY <2>1 DEF RunsTold, Unrecorded
    <3> QED  BY <3>1, <3>2
  <2> QED  BY <2>1, <2>2, <2>3 DEF RunsTold, Unrecorded, PanicHasCause
<1>6. CASE BeginStep
  <2>1. /\ steps' = steps /\ runs' = runs /\ at' = at /\ attempt' = 0 /\ point = "head"
        /\ at \in Steps /\ workflow' = workflow /\ limit' = MaxRetries(at)
        /\ point' = IF limit' < 0 THEN "panicked" ELSE "try"
    BY <1>6 DEF BeginStep, inputs, effects
  <2>2. PanicHasCause'
    BY <2>1, NegativeLimit DEF PanicHasCause
  <2>3. ASSUME NEW s \in Steps PROVE runs[s] = Runs(s) /\ runs[s] \in Nat
    <3>1. Runs(s) \in Nat
      BY RunsTyped
    <3>2. runs[s] = Runs(s) + Unrecorded(s) /\ Unrecorded(s) = 0
      BY <2>1 DEF RunsTold, Unrecorded
    <3> QED  BY <3>1, <3>2
  <2>4. \A s \in Steps : runs'[s] = Runs(s)' + Unrecorded(s)'
    BY <2>1, <2>3, RunsOfSame DEF Unrecorded
  <2> QED  BY <2>2, <2>4 DEF RunsTold
<1>7. CASE AttemptPanics
  BY <1>7, OutcomesPanic DEF AttemptPanics, inputs, RunsTold, PanicHasCause, Kind
<1>8. CASE AttemptSucceeds
  <2> DEFINE r == Record(at, "completed", attempt)
  <2>1. /\ r \in StepRecord /\ r.status = "completed" /\ r.step = at /\ r.retries = attempt
        /\ steps' = Append(steps, r)
        /\ point = "try" /\ point' = "head" /\ at \in Steps /\ attempt \in Nat
        /\ runs \in [Steps -> Nat] /\ runs' = [runs EXCEPT ![at] = @ + 1]
    BY <1>8 DEF AttemptSucceeds, Record, StepRecord, CallExecutor, TypeOK
  <2> HIDE DEF r
  <2>2. \A s \in Steps : /\ Runs(s) \in Nat
                         /\ Runs(s)' = Runs(s) + (IF s = at THEN attempt + 1 ELSE 0)
    BY <2>1, RunsOfAppend
  <2>3. \A s \in Steps : runs[s] = Runs(s) + (IF s = at THEN attempt ELSE 0)
    BY <2>1 DEF RunsTold, Unrecorded
  <2>4. \A s \in Steps : runs'[s] = Runs(s)' + Unrecorded(s)'
    BY <2>1, <2>2, <2>3 DEF Unrecorded
  <2> QED  BY <2>1, <2>4 DEF RunsTold, PanicHasCause
<1>9. CASE AttemptFails /\ attempt < limit
  <2>1. /\ steps' = steps /\ attempt' = attempt + 1 /\ point = "try" /\ point' = "try" /\ at' = at
        /\ at \in Steps /\ attempt \in Nat
        /\ runs \in [Steps -> Nat] /\ runs' = [runs EXCEPT ![at] = @ + 1]
    BY <1>9 DEF AttemptFails, CallExecutor, TypeOK
  <2>2. \A s \in Steps : Runs(s)' = Runs(s) /\ Runs(s) = runs[s] - (IF s = at THEN attempt ELSE 0)
    <3>1. \A s \in Steps : Runs(s)' = Runs(s)
      BY <2>1, RunsOfSame
    <3>2. ASSUME NEW s \in Steps PROVE Runs(s) = runs[s] - (IF s = at THEN attempt ELSE 0)
      <4>1. runs[s] = Runs(s) + (IF s = at THEN attempt ELSE 0)
        BY <2>1 DEF RunsTold, Unrecorded
      <4>2. Runs(s) \in Nat
        BY RunsTyped
      <4> QED  BY <2>1, <4>1, <4>2
    <3> QED  BY <3>1, <3>2
  <2>3. \A s \in Steps : runs'[s] = Runs(s)' + Unrecorded(s)'
    BY <2>1, <2>2 DEF Unrecorded
  <2> QED  BY <2>1, <2>3 DEF RunsTold, PanicHasCause
<1>10. CASE AttemptFails /\ ~(attempt < limit)
  <2> DEFINE r == Record(at, "failed", attempt)
  <2>1. /\ r \in StepRecord /\ r.status = "failed" /\ r.step = at /\ r.retries = attempt
        /\ steps' = Append(steps, r)
        /\ point = "try" /\ point' = "done" /\ at \in Steps /\ attempt \in Nat
        /\ runs \in [Steps -> Nat] /\ runs' = [runs EXCEPT ![at] = @ + 1]
    BY <1>10 DEF AttemptFails, Record, StepRecord, CallExecutor, TypeOK
  <2> HIDE DEF r
  <2>2. \A s \in Steps : /\ Runs(s) \in Nat
                         /\ Runs(s)' = Runs(s) + (IF s = at THEN attempt + 1 ELSE 0)
    BY <2>1, RunsOfAppend
  <2>3. \A s \in Steps : runs[s] = Runs(s) + (IF s = at THEN attempt ELSE 0)
    BY <2>1 DEF RunsTold, Unrecorded
  <2>4. \A s \in Steps : runs'[s] = Runs(s)' + Unrecorded(s)'
    BY <2>1, <2>2, <2>3 DEF Unrecorded
  <2> QED  BY <2>1, <2>4 DEF RunsTold, PanicHasCause
<1> QED  BY <1>1, <1>2, <1>3, <1>4, <1>5, <1>6, <1>7, <1>8, <1>9, <1>10 DEF Next, Execute

-----------------------------------------------------------------------------
(* The types of the cache.                                                 *)

LEMMA CacheInitTyped == Cached!CacheAssumption /\ Cached!Init => Cached!TypeOK
<1> SUFFICES ASSUME Cached!CacheAssumption, Cached!Init PROVE Cached!TypeOK
  OBVIOUS
<1>1. Cached!Idle \in Cached!Step
  BY DEF Cached!Idle, Cached!Step, Cached!Version
<1>2. 0 \in Cached!Version
  BY DEF Cached!CacheAssumption, Cached!Version
<1> QED  BY <1>1, <1>2 DEF Cached!Init, Cached!TypeOK, Cached!Phase

\* A goroutine begins, goes on or ends.
LEMMA JobsTyped ==
  ASSUME Cached!CacheAssumption, Cached!TypeOK, NEW s \in Slots,
         \/ \E new \in Cached!Job : job' = [job EXCEPT ![s] = new]
         \/ \E op \in {"fetch", "fill", "put", "keys", "del", "flush", "warm"},
               value \in Cached!Version \cup {None} :
                   job[s] # None /\ Cached!Go(s, op, value)
         \/ Cached!Ends(s)
         \/ job' = job
  PROVE  job' \in [Slots -> Cached!Job \cup {None}]
<1>0. job \in [Slots -> Cached!Job \cup {None}]
  BY DEF Cached!TypeOK
<1>1. ASSUME NEW op \in {"fetch", "fill", "put", "keys", "del", "flush", "warm"},
             NEW value \in Cached!Version \cup {None}, job[s] # None, Cached!Go(s, op, value)
      PROVE  job' \in [Slots -> Cached!Job \cup {None}]
  <2>1. job[s] \in Cached!Job
    BY <1>0, <1>1
  <2> DEFINE new == [job[s] EXCEPT !.op = op, !.value = value]
  <2>2. new \in Cached!Job
    BY <2>1 DEF Cached!Job
  <2>3. job' = [job EXCEPT ![s] = new]
    BY <1>0, <1>1 DEF Cached!Go
  <2> HIDE DEF new
  <2> QED  BY <1>0, <2>2, <2>3
<1> QED  BY <1>0, <1>1 DEF Cached!Ends

LEMMA InvalidationTyped ==
  ASSUME NEW families, NEW kind \in {"request", "detached", "refresh"}
  PROVE  Cached!Invalidation(families, kind) \in Cached!Job
<1>1. CASE family \in families
  BY <1>1 DEF Cached!Invalidation, Cached!NewJob, Cached!Job
<1>2. CASE family \notin families
  BY <1>2 DEF Cached!Invalidation, Cached!NewJob, Cached!Job
<1> QED  BY <1>1, <1>2

\* Who warms the cache up moves on.
LEMMA MoveTyped ==
  ASSUME Cached!TypeOK, NEW t \in Warmups, NEW from,
         NEW to \in {"idle", "wait", "fetch", "set", "done"},
         NEW value \in Cached!Version \cup {None}, Cached!Move(t, from, to, value)
  PROVE  warm' \in [Warmups -> Cached!Step]
BY DEF Cached!TypeOK, Cached!Move, Cached!Step

\* Whatever of these a step changes keeps its type.
LEMMA CacheKeeps ==
  ASSUME Cached!TypeOK, family' = family, version' \in Cached!Version,
         entry' \in Cached!Version \cup {None}, job' \in [Slots -> Cached!Job \cup {None}],
         phase' \in Cached!Phase, warm' \in [Warmups -> Cached!Step], manual' \in BOOLEAN
  PROVE  Cached!TypeOK'
BY DEF Cached!TypeOK

LEMMA ReadTyped ==
  ASSUME Cached!CacheAssumption, Cached!TypeOK, NEW s \in Slots, Cached!Read(s)
  PROVE  Cached!TypeOK'
<1>1. PICK f : Cached!Miss(s, f)
  BY DEF Cached!Read, Cached!GetByID, Cached!GetWorkflowForExecution, Cached!GetWorkflowHealth,
         Cached!PreloadWorkflow, Cached!Search, Cached!GetActiveWorkflows,
         Cached!GetUserWorkflows, Cached!GetCompleteDashboard, Cached!GetDashboardSummary,
         Cached!GetQuickStats, Cached!GetRecentActivity, Cached!GetWorkflowStatus,
         Cached!GetSystemMetrics, Cached!GetDashboardMetrics, Cached!GetPerformanceData,
         Cached!GetSystemHealth, Cached!GetQueueStatus
<1> DEFINE new == Cached!NewJob("fetch", None, FALSE, "request")
<1>2. new \in Cached!Job
  BY DEF Cached!NewJob, Cached!Job
<1> HIDE DEF new
<1>3. job' = [job EXCEPT ![s] = new] /\ UNCHANGED <<family, version, entry, Cached!manager>>
  BY <1>1 DEF Cached!Miss, Cached!Start, new
<1>4. job' \in [Slots -> Cached!Job \cup {None}]
  BY <1>2, <1>3, JobsTyped
<1> QED  BY <1>3, <1>4 DEF Cached!TypeOK, Cached!manager

LEMMA WriteTyped ==
  ASSUME Cached!CacheAssumption, Cached!TypeOK, NEW s \in Slots, Cached!Write(s)
  PROVE  Cached!TypeOK'
<1>0. /\ version \in Cached!Version /\ job \in [Slots -> Cached!Job \cup {None}]
      /\ \A new \in Nat : new <= MaxVersion => new \in Cached!Version
  BY DEF Cached!TypeOK, Cached!Version, Cached!CacheAssumption
<1>1. ASSUME Cached!Written PROVE version' = version + 1 /\ version' \in Cached!Version
  BY <1>0, <1>1 DEF Cached!Written, Cached!Version, Cached!CacheAssumption
<1>2. ASSUME NEW families, Cached!StoreAndInvalidate(s, families) PROVE Cached!TypeOK'
  <2> DEFINE new == Cached!Invalidation(families, "detached")
             put == IF family = "workflow"
                    THEN Cached!NewJob("put", version + 1, FALSE, "detached") ELSE None
  <2>1. PICK i \in Slots \ {s} : job' = [job EXCEPT ![s] = new, ![i] = put]
    BY <1>2 DEF Cached!StoreAndInvalidate
  <2>2. Cached!Written /\ UNCHANGED <<family, entry, Cached!manager>>
    BY <1>2 DEF Cached!StoreAndInvalidate
  <2>3. new \in Cached!Job
    BY InvalidationTyped
  <2>4. put \in Cached!Job \cup {None}
    <3>1. version + 1 \in Cached!Version
      BY <1>1, <2>2
    <3> QED  BY <3>1 DEF Cached!NewJob, Cached!Job
  <2> HIDE DEF new, put
  <2>5. job' \in [Slots -> Cached!Job \cup {None}]
    BY <1>0, <2>1, <2>3, <2>4
  <2> QED  BY <1>1, <2>2, <2>5 DEF Cached!TypeOK, Cached!manager
<1>3. ASSUME NEW families, Cached!WriteAndInvalidate(s, families) PROVE Cached!TypeOK'
  <2> DEFINE new == Cached!Invalidation(families, "detached")
  <2>1. /\ job' = [job EXCEPT ![s] = new] /\ Cached!Written
        /\ UNCHANGED <<family, entry, Cached!manager>>
    BY <1>3 DEF Cached!WriteAndInvalidate, Cached!Start
  <2>2. new \in Cached!Job
    BY InvalidationTyped
  <2> HIDE DEF new
  <2>3. job' \in [Slots -> Cached!Job \cup {None}]
    BY <2>1, <2>2, JobsTyped
  <2> QED  BY <1>1, <2>1, <2>3 DEF Cached!TypeOK, Cached!manager
<1> QED  BY <1>2, <1>3 DEF Cached!Write, Cached!Create, Cached!Clone, Cached!Update,
            Cached!ToggleStatus, Cached!Delete

LEMMA AskTyped ==
  ASSUME Cached!CacheAssumption, Cached!TypeOK, NEW s \in Slots, Cached!Ask(s)
  PROVE  Cached!TypeOK'
<1>1. PICK new \in Cached!Job : Cached!Asked(s, new)
  <2>1. /\ Cached!NewJob("flush", None, TRUE, "request") \in Cached!Job
        /\ Cached!NewJob("warm", None, FALSE, "request") \in Cached!Job
    BY DEF Cached!NewJob, Cached!Job
  <2> QED  BY <2>1, InvalidationTyped DEF Cached!Ask, Cached!RefreshDashboardData,
              Cached!ClearPattern, Cached!ClearCache, Cached!WarmNow
<1>2. job' = [job EXCEPT ![s] = new] /\ UNCHANGED <<family, version, entry, Cached!manager>>
  BY <1>1 DEF Cached!Asked, Cached!Start
<1>3. job' \in [Slots -> Cached!Job \cup {None}]
  BY <1>2, JobsTyped
<1> QED  BY <1>2, <1>3 DEF Cached!TypeOK, Cached!manager

LEMMA GoroutineTyped ==
  ASSUME Cached!CacheAssumption, Cached!TypeOK, NEW s \in Slots, Cached!Goroutine(s)
  PROVE  Cached!TypeOK'
<1>0. /\ version \in Cached!Version /\ entry \in Cached!Version \cup {None}
      /\ phase \in Cached!Phase /\ warm \in [Warmups -> Cached!Step] /\ manual \in BOOLEAN
      /\ job \in [Slots -> Cached!Job \cup {None}] /\ family \in Cached!Family
  BY DEF Cached!TypeOK
<1>1. job[s] # None /\ job[s] \in Cached!Job /\ job[s].value \in Cached!Version \cup {None}
  <2>1. \E op : Cached!At(s, op)
    BY DEF Cached!Goroutine, Cached!GetOrSet, Cached!Fill, Cached!Put, Cached!InvalidatePattern,
           Cached!DeletePattern, Cached!Clear, Cached!RequestWarmup
  <2>2. job[s] # None
    BY <2>1 DEF Cached!At
  <2> QED  BY <1>0, <2>2 DEF Cached!Job
<1>2. CASE Cached!GetOrSet(s)
  <2>1. Cached!Go(s, "fill", version) \/ Cached!Ends(s)
    BY <1>2 DEF Cached!GetOrSet
  <2>2. job' \in [Slots -> Cached!Job \cup {None}]
    BY <1>0, <1>1, <2>1, JobsTyped
  <2> QED  BY <1>0, <1>2, <2>2 DEF Cached!GetOrSet, Cached!manager, Cached!TypeOK
<1>3. CASE Cached!Fill(s) \/ Cached!Put(s)
  <2>1. /\ Cached!Set(job[s].value) \/ UNCHANGED entry
        /\ Cached!Ends(s) /\ UNCHANGED <<family, version, Cached!manager>>
    BY <1>3 DEF Cached!Fill, Cached!Put
  <2>2. entry' \in Cached!Version \cup {None}
    BY <1>0, <1>1, <2>1 DEF Cached!Set
  <2>3. job' \in [Slots -> Cached!Job \cup {None}]
    BY <2>1, JobsTyped
  <2> QED  BY <1>0, <2>1, <2>2, <2>3 DEF Cached!manager, Cached!TypeOK
<1>4. ASSUME Cached!Invalidated(s) PROVE job' \in [Slots -> Cached!Job \cup {None}]
  BY <1>1, <1>4, JobsTyped DEF Cached!Invalidated
<1>5. CASE Cached!InvalidatePattern(s)
  <2>1. phase' \in Cached!Phase /\ UNCHANGED <<family, version, entry, warm, manual>>
    BY <1>0, <1>5 DEF Cached!InvalidatePattern, Cached!Phase
  <2>2. Cached!Ends(s) \/ Cached!Go(s, "del", None) \/ Cached!Invalidated(s)
    BY <1>5 DEF Cached!InvalidatePattern
  <2>3. job' \in [Slots -> Cached!Job \cup {None}]
    BY <1>1, <1>4, <2>2, JobsTyped
  <2> QED  BY <1>0, <2>1, <2>3 DEF Cached!TypeOK
<1>6. CASE Cached!DeletePattern(s)
  <2>1. /\ Cached!Invalidated(s) /\ entry' \in Cached!Version \cup {None}
        /\ UNCHANGED <<family, version, Cached!manager>>
    BY <1>0, <1>6 DEF Cached!DeletePattern
  <2> QED  BY <1>0, <1>4, <2>1 DEF Cached!TypeOK, Cached!manager
<1>7. CASE Cached!Clear(s)
  <2>1. /\ Cached!Ends(s) /\ entry' \in Cached!Version \cup {None}
        /\ UNCHANGED <<family, version, Cached!manager>>
    BY <1>0, <1>7 DEF Cached!Clear
  <2>2. job' \in [Slots -> Cached!Job \cup {None}]
    BY <2>1, JobsTyped
  <2> QED  BY <1>0, <2>1, <2>2 DEF Cached!TypeOK, Cached!manager
<1>8. CASE Cached!RequestWarmup(s)
  <2>1. /\ Cached!Ends(s) /\ manual' = TRUE /\ UNCHANGED <<family, version, entry, phase>>
        /\ warm' = [t \in Warmups |-> [at |-> "wait", value |-> None]]
    BY <1>8 DEF Cached!RequestWarmup, Cached!StartTasks
  <2>2. job' \in [Slots -> Cached!Job \cup {None}]
    BY <2>1, JobsTyped
  <2>3. warm' \in [Warmups -> Cached!Step]
    BY <2>1 DEF Cached!Step
  <2> QED  BY <1>0, <2>1, <2>2, <2>3 DEF Cached!TypeOK
<1> QED  BY <1>2, <1>3, <1>5, <1>6, <1>7, <1>8 DEF Cached!Goroutine

LEMMA WarmupTyped ==
  ASSUME Cached!TypeOK, NEW t \in Warmups, Cached!RunTask(t)
  PROVE  Cached!TypeOK'
<1>0. /\ version \in Cached!Version /\ entry \in Cached!Version \cup {None}
      /\ phase \in Cached!Phase /\ warm \in [Warmups -> Cached!Step] /\ manual \in BOOLEAN
      /\ job \in [Slots -> Cached!Job \cup {None}] /\ family \in Cached!Family
      /\ warm[t].value \in Cached!Version \cup {None}
  BY DEF Cached!TypeOK, Cached!Step
<1>1. CASE Cached!ExecuteWarmup(t)
  <2>1. /\ UNCHANGED <<family, version, entry, job, phase, manual>>
        /\ \E to \in {"fetch", "done"} : Cached!Move(t, "wait", to, None)
    BY <1>1 DEF Cached!ExecuteWarmup, Cached!workflow
  <2>2. warm' \in [Warmups -> Cached!Step]
    BY <2>1, MoveTyped
  <2> QED  BY <1>0, <2>1, <2>2 DEF Cached!TypeOK
<1>2. CASE Cached!WarmupTask(t)
  <2>1. /\ UNCHANGED <<family, version, job, phase, manual>>
        /\ UNCHANGED entry \/ Cached!Set(warm[t].value)
        /\ \E from \in {"fetch", "set"}, to \in {"set", "done"}, value \in {version, None} :
               Cached!Move(t, from, to, value)
    BY <1>2 DEF Cached!WarmupTask
  <2>2. warm' \in [Warmups -> Cached!Step]
    BY <1>0, <2>1, MoveTyped
  <2>3. entry' \in Cached!Version \cup {None}
    BY <1>0, <2>1 DEF Cached!Set
  <2> QED  BY <1>0, <2>1, <2>2, <2>3 DEF Cached!TypeOK
<1> QED  BY <1>1, <1>2 DEF Cached!RunTask

LEMMA CacheNextTyped ==
  ASSUME Cached!CacheAssumption, Cached!TypeOK, [Cached!Next]_(Cached!vars)
  PROVE  Cached!TypeOK'
<1>1. CASE UNCHANGED Cached!vars
  BY <1>1 DEF Cached!vars, Cached!workflow, Cached!manager, Cached!TypeOK
<1>2. CASE Cached!ExpireEntry
  BY <1>2 DEF Cached!ExpireEntry, Cached!Expire, Cached!manager, Cached!TypeOK
<1>3. CASE Cached!Tick
  <2>1. [t \in Warmups |-> [at |-> "wait", value |-> None]] \in [Warmups -> Cached!Step]
    BY DEF Cached!Step
  <2> QED  BY <1>3, <2>1 DEF Cached!Tick, Cached!StartTasks, Cached!workflow, Cached!TypeOK
<1>4. CASE Cached!WarmupEnds
  <2>1. [t \in Warmups |-> Cached!Idle] \in [Warmups -> Cached!Step]
    BY DEF Cached!Step, Cached!Idle
  <2> QED  BY <1>4, <2>1 DEF Cached!WarmupEnds, Cached!workflow, Cached!TypeOK
<1>5. CASE Cached!Close
  BY <1>5 DEF Cached!Close, Cached!workflow, Cached!TypeOK, Cached!Phase
<1>6. CASE Cached!CloseChannel
  BY <1>6 DEF Cached!CloseChannel, Cached!workflow, Cached!TypeOK, Cached!Phase
<1> QED  BY <1>1, <1>2, <1>3, <1>4, <1>5, <1>6, ReadTyped, WriteTyped, AskTyped, GoroutineTyped,
            WarmupTyped DEF Cached!Next

-----------------------------------------------------------------------------
\* Whatever the steps of an execution did and however they failed, each run of one is in
\* its record, and only what is configured wrongly ends the process; and accounts, tokens
\* and the cache keep their types: a token that is alive or revoked is an issued one.
THEOREM RunsAreAccounted == AllSpec => []RunsAccounted
<1>0. Cached!CacheAssumption
  BY Parameters
<1>1. Init => RunsTold
  BY InitRuns
<1>2. TypeOK /\ RunsTold /\ [Next]_vars => RunsTold'
  BY NextRuns
<1>3. TypeOK /\ RunsTold => RunsAreRecorded /\ PanicHasCause
  <2> SUFFICES ASSUME TypeOK, RunsTold PROVE RunsAreRecorded /\ PanicHasCause
    OBVIOUS
  <2>1. PanicHasCause
    BY DEF RunsTold
  <2>2. ASSUME point \in {"head", "done"}, NEW s \in Steps PROVE runs[s] = Runs(s)
    <3>1. Runs(s) \in Nat
      BY RunsTyped
    <3>2. runs[s] = Runs(s) + Unrecorded(s) /\ Unrecorded(s) = 0
      BY <2>2 DEF RunsTold, Unrecorded
    <3> QED  BY <3>1, <3>2
  <2> QED  BY <2>1, <2>2 DEF RunsAreRecorded
<1>4. Spec => []TypeOK
  BY ExecutorTypeCorrect
<1>5. Spec => []RunsTold
  BY <1>1, <1>2, <1>4, PTL DEF Spec
<1>6. Cached!Spec => []Cached!TypeOK
  <2>1. Cached!Init => Cached!TypeOK
    BY <1>0, CacheInitTyped
  <2>2. Cached!TypeOK /\ [Cached!Next]_(Cached!vars) => Cached!TypeOK'
    BY <1>0, CacheNextTyped
  <2> QED  BY <2>1, <2>2, PTL DEF Cached!Spec
<1>7. TypeOK /\ RunsAreRecorded /\ PanicHasCause /\ Sessions!TypeOK /\ Cached!TypeOK
         => RunsAccounted
  BY DEF RunsAccounted
<1> QED  BY <1>3, <1>4, <1>5, <1>6, <1>7, ExecutorOfAll, CacheOfAll, SessionsKeepTypes, PTL
=============================================================================
