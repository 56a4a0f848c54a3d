----------------------------- MODULE AccountsProofs -----------------------------
(***************************************************************************)
(* Theorems about Accounts, for any users, any number of requests in       *)
(* flight and any bounds.                                                  *)
(***************************************************************************)
EXTENDS Accounts, TLAPS

USE BoundsAreNaturals

-----------------------------------------------------------------------------
(* Type correctness.                                                       *)

Ids == {"none", "login", "generated"}
UserRecord == [id : Ids, key : Nat]
NoName == CHOOSE n \in Names : TRUE
Steps == {"idle", "register", "authorize", "refused", "accepted", "unread"} \cup CallbackSteps
Request == [step : Steps, name : Names \cup {NoName}, key : Nat, token : Nat,
            id : Ids, sure : BOOLEAN]

TypeOK ==
    /\ backend \in Backends
    /\ users \in [Backends -> [Names -> UserRecord]]
    /\ table \in [Names -> Nat]
    /\ memory \in [Names -> Nat]
    /\ states \in [DOMAIN states -> BOOLEAN]
    /\ DOMAIN states \subseteq 1..issued
    /\ req \in [Requests -> Request]
    /\ served \in Nat /\ tokens \in Nat /\ restarts \in Nat
    /\ issued \in 0..MaxStates
    /\ passed \in [1..MaxStates -> Nat]

\* Idle fills the field name with a value that is no user when there are none.
BusyHaveNames == \A p \in Requests : req[p].step # "idle" => req[p].name \in Names

TypeInv == TypeOK /\ BusyHaveNames

\* A request that is idle is a request.
LEMMA IdleTypes == Idle \in Request /\ Idle.step = "idle" /\ Idle.sure = FALSE /\ NoUser \in UserRecord
  BY DEF Idle, Request, Steps, CallbackSteps, Ids, NoName, NoToken, NoUser, UserRecord

\* What a server finds in memory when it starts.
LEMMA InjectedTypes ==
    \A set \in BOOLEAN :
        /\ Injected(set) \in [Names -> Nat]
        /\ \A n \in Names : \/ Injected(set)[n] = NoToken
                            \/ n = TestUser /\ Injected(set)[n] = EnvToken
  BY DEF Injected, NoToken, EnvToken

\* What a new request is.
LEMMA AtTypes ==
    ASSUME NEW step \in Steps, NEW n \in Names
    PROVE  LET r == At(step, n, Idle) IN
           r \in Request /\ r.step = step /\ r.name = n /\ r.sure = FALSE
<1>1. Idle \in [step : Steps, name : Names \cup {NoName}, key : Nat, token : Nat,
                id : Ids, sure : BOOLEAN] /\ Idle.sure = FALSE
  BY IdleTypes DEF Request
<1> QED
  BY <1>1 DEF At, Request

\* Replacing the record of one request by another keeps the requests typed.
LEMMA ReplaceTypes ==
    ASSUME TypeInv, NEW p \in Requests, NEW r \in Request,
           r.step # "idle" => r.name \in Names,
           req' = [req EXCEPT ![p] = r]
    PROVE  req' \in [Requests -> Request] /\ BusyHaveNames'
  BY DEF TypeInv, TypeOK, BusyHaveNames

\* So do the two ways in which most steps of a request end.
LEMMA StepTypes ==
    ASSUME TypeInv, NEW p \in Requests
    PROVE  /\ Finish(p) => req' \in [Requests -> Request] /\ BusyHaveNames'
           /\ \A step \in Steps : req[p].step # "idle" /\ Goto(p, step) =>
                 req' \in [Requests -> Request] /\ BusyHaveNames'
<1>1. Finish(p) => req' \in [Requests -> Request] /\ BusyHaveNames'
  BY IdleTypes, ReplaceTypes DEF Finish
<1>2. ASSUME NEW step \in Steps, req[p].step # "idle", Goto(p, step)
      PROVE  req' \in [Requests -> Request] /\ BusyHaveNames'
  <2> DEFINE r == [req[p] EXCEPT !.step = step]
  <2>1. r \in Request /\ r.name \in Names
    BY <1>2 DEF TypeInv, TypeOK, BusyHaveNames, Request
  <2>2. req' = [req EXCEPT ![p] = r]
    BY <1>2 DEF Goto
  <2> QED
    BY <2>1, <2>2, ReplaceTypes
<1> QED
  BY <1>1, <1>2

\* What registering may do to the users, whatever the backend.
LEMMA RegisterTypes ==
    ASSUME TypeInv, NEW n \in Names, NEW id \in Ids, NEW key \in Nat,
           Register(n, id, key)
    PROVE  users' \in [Backends -> [Names -> UserRecord]]
<1> DEFINE user == [id |-> id, key |-> key]
<1>1. user \in UserRecord
  BY DEF UserRecord
<1> QED
  <2>1. users[backend] \in [Names -> UserRecord]
    BY DEF TypeInv, TypeOK
  <2>2. \/ users' = users
        \/ users' = [users EXCEPT ![backend] = [users[backend] EXCEPT ![n] = user]]
    BY DEF Register, Registered
  <2>3. [users[backend] EXCEPT ![n] = user] \in [Names -> UserRecord]
    BY <1>1, <2>1
  <2> HIDE DEF user
  <2> QED
    BY <2>2, <2>3 DEF TypeInv, TypeOK

\* The user endpoints of one critical section keep every type.
LEMMA UserTypeInv ==
    ASSUME TypeInv, NEW n \in Names,
           DeleteUser(n) \/ \E id \in {"login", "generated"} : RegisterUser(n, id)
    PROVE  TypeInv'
<1> USE DEF TypeInv, TypeOK, stores, counters, history
<1>1. ASSUME NEW id \in {"login", "generated"}, RegisterUser(n, id)
      PROVE  TypeInv'
  <2>1. users' \in [Backends -> [Names -> UserRecord]]
    <3>1. served' \in Nat /\ id \in Ids /\ Register(n, id, served')
      BY <1>1 DEF RegisterUser, Ids
    <3> QED
      BY <3>1, RegisterTypes
  <2> QED
    BY <1>1, <2>1 DEF RegisterUser, BusyHaveNames
<1>2. CASE DeleteUser(n)
  BY <1>2, IdleTypes DEF DeleteUser, BusyHaveNames
<1> QED
  BY <1>1, <1>2

\* So do register-github and create requests.
LEMMA RequestTypeInv ==
    ASSUME TypeInv, NEW n \in Names, NEW p \in Requests,
           \/ RegisterGitHub(p, n) \/ FinishRegister(p)
           \/ CreateWorkspace(p, n) \/ Authorize(p) \/ Answer(p)
    PROVE  TypeInv'
<1> USE DEF TypeInv, TypeOK, stores, counters, history
<1>1. CASE RegisterGitHub(p, n)
  <2> DEFINE r == [At("register", n, Idle) EXCEPT !.key = served']
  <2>1. served' \in Nat /\ r \in Request /\ r.name \in Names
    <3>1. At("register", n, Idle) \in Request /\ At("register", n, Idle).name = n
      BY AtTypes DEF Steps
    <3>2. served' \in Nat
      BY <1>1 DEF RegisterGitHub
    <3> QED
      BY <3>1, <3>2 DEF Request
  <2> QED
    BY <1>1, <2>1, ReplaceTypes DEF RegisterGitHub
<1>2. CASE FinishRegister(p)
  <2>1. users' \in [Backends -> [Names -> UserRecord]]
    BY <1>2, RegisterTypes DEF FinishRegister, BusyHaveNames, Ids, Request
  <2> QED
    BY <1>2, <2>1, StepTypes DEF FinishRegister
<1>3. CASE CreateWorkspace(p, n)
  <2> DEFINE r == [At("authorize", n, Idle) EXCEPT
                      !.id = User(n).id,
                      !.sure = backend = "sqlite" /\ n \in granted]
  <2>1. User(n).id \in Ids
    BY DEF User, UserRecord
  <2>2. r \in Request /\ r.name \in Names
    <3> DEFINE sure == backend = "sqlite" /\ n \in granted
    <3>1. sure \in BOOLEAN
      OBVIOUS
    <3>2. At("authorize", n, Idle) \in Request /\ At("authorize", n, Idle).name = n
      BY AtTypes DEF Steps
    <3> HIDE DEF sure
    <3>3. LET s == [At("authorize", n, Idle) EXCEPT !.id = User(n).id, !.sure = sure]
          IN  s \in Request /\ s.name = n
      BY <2>1, <3>1, <3>2 DEF Request
    <3> QED
      BY <3>3 DEF sure
  <2> QED
    <3>1. req' = [req EXCEPT ![p] = r] /\ served' \in Nat
      BY <1>3 DEF CreateWorkspace
    <3>2. req' \in [Requests -> Request] /\ BusyHaveNames'
      BY <2>2, <3>1, ReplaceTypes
    <3> QED
      BY <1>3, <3>1, <3>2 DEF CreateWorkspace
<1>4. CASE Authorize(p)
  <2> DEFINE token == Installation(req[p].name, req[p].id)
             r == [req[p] EXCEPT !.step = IF token = NoToken THEN "refused" ELSE "accepted",
                                 !.token = token]
  <2>1. req[p].name \in Names /\ token \in Nat /\ req[p].step # "idle"
    BY <1>4 DEF Authorize, BusyHaveNames, Installation, NoToken
  <2>2. r \in Request /\ r.name \in Names
    BY <2>1 DEF Steps, Request
  <2>3. req' = [req EXCEPT ![p] = r] \/ Goto(p, "unread")
    BY <1>4 DEF Authorize
  <2> HIDE DEF r
  <2>4. req' \in [Requests -> Request] /\ BusyHaveNames'
    BY <2>1, <2>2, <2>3, ReplaceTypes, StepTypes DEF Steps
  <2> QED
    BY <1>4, <2>4 DEF Authorize
<1>5. CASE Answer(p)
  BY <1>5, StepTypes DEF Answer
<1> QED
  BY <1>1, <1>2, <1>3, <1>4, <1>5

\* A state can only leave the store: what consuming and cleaning up may do.
LEMMA RestrictTypes ==
    ASSUME TypeInv, NEW S \in SUBSET DOMAIN states, states' = Restrict(states, S)
    PROVE  DOMAIN states' = S /\ states' \in [DOMAIN states' -> BOOLEAN]
<1>1. states' = [s \in S |-> states[s]]
  BY DEF Restrict
<1>2. \A s \in S : states[s] \in BOOLEAN
  BY DEF TypeInv, TypeOK
<1> QED
  BY <1>1, <1>2

\* The steps of the state store that are not a callback keep every type.
LEMMA StoreTypeInv ==
    ASSUME TypeInv, GetOAuthURL \/ CleanupExpired \/ \E s \in 1..MaxStates : Expire(s)
    PROVE  TypeInv'
<1> USE DEF TypeInv, TypeOK, BusyHaveNames, counters, history
<1>1. CASE GetOAuthURL
  <2>1. issued' = issued + 1 /\ issued' \in 0..MaxStates
    BY <1>1 DEF GetOAuthURL
  <2>2. DOMAIN states' = DOMAIN states \cup {issued'}
    BY <1>1 DEF GetOAuthURL
  <2>3. states' \in [DOMAIN states' -> BOOLEAN]
    <3>1. states' = [s \in DOMAIN states' |-> IF s = issued' THEN FALSE ELSE states[s]]
      BY <1>1, <2>2 DEF GetOAuthURL
    <3>2. \A s \in DOMAIN states' :
             (IF s = issued' THEN FALSE ELSE states[s]) \in BOOLEAN
      BY <2>2
    <3> QED
      BY <3>1, <3>2
  <2>4. DOMAIN states' \subseteq 1..issued'
    BY <2>1, <2>2
  <2> QED
    BY <1>1, <2>1, <2>3, <2>4 DEF GetOAuthURL
<1>2. CASE CleanupExpired
  <2>1. DOMAIN states' \subseteq DOMAIN states /\ states' \in [DOMAIN states' -> BOOLEAN]
    <3> DEFINE S == {s \in DOMAIN states : ~states[s]}
    <3>1. S \in SUBSET DOMAIN states /\ states' = Restrict(states, S)
      BY <1>2 DEF CleanupExpired
    <3> HIDE DEF S
    <3> QED
      BY <3>1, RestrictTypes
  <2> QED
    BY <1>2, <2>1 DEF CleanupExpired
<1>3. CASE \E s \in 1..MaxStates : Expire(s)
  <2>1. DOMAIN states' = DOMAIN states /\ states' \in [DOMAIN states' -> BOOLEAN]
    BY <1>3 DEF Expire
  <2> QED
    BY <1>3, <2>1 DEF Expire
<1> QED
  BY <1>1, <1>2, <1>3

\* The steps of a callback keep every type.
LEMMA CallbackTypeInv ==
    ASSUME TypeInv, NEW p \in Requests,
           \/ \E n \in Names, s \in 0..issued : Callback(p, n, s)
           \/ Exchange(p) \/ StoreInMemory(p) \/ StoreInTable(p)
           \/ LookupUser(p) \/ AutoRegister(p)
    PROVE  TypeInv'
<1> USE DEF TypeInv, TypeOK, stores, counters, history
<1>0. CallbackSteps \subseteq Steps
  BY DEF Steps
<1>1. ASSUME NEW n \in Names, NEW s \in 0..issued, Callback(p, n, s)
      PROVE  TypeInv'
  <2>1. DOMAIN states' = DOMAIN states \ {s} /\ states' \in [DOMAIN states' -> BOOLEAN]
    BY <1>1, RestrictTypes DEF Callback, Consume
  <2>2. CASE Valid(s)
    <3>1. req' \in [Requests -> Request] /\ BusyHaveNames'
      <4> DEFINE r == At("exchange", n, Idle)
      <4>1. r \in Request /\ r.name = n
        BY AtTypes DEF Steps, CallbackSteps
      <4>2. req' = [req EXCEPT ![p] = r]
        BY <1>1, <2>2 DEF Callback
      <4> HIDE DEF r
      <4> QED
        BY <4>1, <4>2, ReplaceTypes
    <3>2. passed' \in [1..MaxStates -> Nat]
      BY <1>1, <2>2 DEF Callback
    <3> QED
      BY <1>1, <2>1, <3>1, <3>2 DEF Callback
  <2>3. CASE ~ Valid(s)
    BY <1>1, <2>1, <2>3 DEF Callback, BusyHaveNames
  <2> QED
    BY <2>2, <2>3
<1>2. CASE Exchange(p)
  <2>1. CASE UNCHANGED tokens /\ Finish(p)
    BY <1>2, <2>1, StepTypes DEF Exchange
  <2>2. CASE tokens' = tokens + 1
             /\ req' = [req EXCEPT ![p].step = "remember", ![p].token = tokens']
    <3> DEFINE r == [req[p] EXCEPT !.step = "remember", !.token = tokens']
    <3>1. req[p] \in Request /\ req[p].name \in Names /\ tokens' \in Nat
      BY <1>2, <2>2 DEF Exchange, BusyHaveNames
    <3>2. r \in Request /\ r.name \in Names
      BY <1>0, <3>1 DEF Request, CallbackSteps
    <3>3. req' = [req EXCEPT ![p] = r]
      BY <2>2
    <3> HIDE DEF r
    <3>4. req' \in [Requests -> Request] /\ BusyHaveNames'
      BY <3>2, <3>3, ReplaceTypes
    <3> QED
      BY <1>2, <3>1, <3>4 DEF Exchange
  <2> QED
    BY <1>2, <2>1, <2>2 DEF Exchange
<1>3. CASE StoreInMemory(p)
  <2>1. req[p].name \in Names /\ req[p].token \in Nat
    BY <1>3 DEF StoreInMemory, BusyHaveNames, Request
  <2>2. req' \in [Requests -> Request] /\ BusyHaveNames'
    BY <1>3, <1>0, StepTypes DEF StoreInMemory, CallbackSteps
  <2> QED
    BY <1>3, <2>1, <2>2 DEF StoreInMemory
<1>4. CASE StoreInTable(p)
  <2>1. req[p].name \in Names /\ req[p].token \in Nat
    BY <1>4 DEF StoreInTable, BusyHaveNames, Request
  <2>2. req' \in [Requests -> Request] /\ BusyHaveNames'
    <3> DEFINE r == [req[p] EXCEPT !.step = "lookup", !.sure = TRUE]
    <3>1. r \in Request /\ r.name \in Names
      BY <2>1, <1>0 DEF Request, CallbackSteps
    <3>2. req' = [req EXCEPT ![p] = r] \/ Goto(p, "lookup")
      BY <1>4 DEF StoreInTable
    <3>3. "lookup" \in Steps /\ req[p].step # "idle"
      BY <1>4, <1>0 DEF StoreInTable, CallbackSteps
    <3> HIDE DEF r
    <3> QED
      BY <3>1, <3>2, <3>3, StepTypes, ReplaceTypes
  <2> QED
    BY <1>4, <2>1, <2>2 DEF StoreInTable, Upserted
<1>5. CASE LookupUser(p)
  BY <1>5, <1>0, StepTypes DEF LookupUser, Answered, CallbackSteps
<1>6. CASE AutoRegister(p)
  <2>1. users' \in [Backends -> [Names -> UserRecord]]
    BY <1>6, RegisterTypes DEF AutoRegister, BusyHaveNames, Ids
  <2> QED
    BY <1>6, <2>1, StepTypes DEF AutoRegister, Answered
<1> QED
  BY <1>1, <1>2, <1>3, <1>4, <1>5, <1>6

\* So does a restart.
LEMMA RestartTypeInv ==
    ASSUME TypeInv, Restart
    PROVE  TypeInv'
<1>1. users' \in [Backends -> [Names -> UserRecord]]
  BY IdleTypes DEF Restart, TypeInv, TypeOK
<1>2. req' \in [Requests -> Request] /\ BusyHaveNames'
  BY IdleTypes DEF Restart, BusyHaveNames
<1>3. DOMAIN states' = {} /\ states' \in [DOMAIN states' -> BOOLEAN]
  BY DEF Restart
<1>4. memory' \in [Names -> Nat]
  BY InjectedTypes DEF Restart
<1> QED
  BY <1>1, <1>2, <1>3, <1>4 DEF Restart, TypeInv, TypeOK, history

\* The initial state is well typed.
LEMMA InitTypeInv == Init => TypeInv
<1> SUFFICES ASSUME Init PROVE TypeInv
  OBVIOUS
<1>1. users \in [Backends -> [Names -> UserRecord]]
  BY IdleTypes DEF Init
<1>2. req \in [Requests -> Request] /\ BusyHaveNames
  BY IdleTypes DEF Init, BusyHaveNames
<1>3. DOMAIN states = {} /\ states \in [DOMAIN states -> BOOLEAN]
  BY DEF Init
<1>4. memory \in [Names -> Nat]
  BY InjectedTypes DEF Init
<1> QED
  BY <1>1, <1>2, <1>3, <1>4 DEF Init, TypeInv, TypeOK, NoToken

\* The types are kept by every step.
LEMMA NextTypeInv == TypeInv /\ [Next]_vars => TypeInv'
<1> SUFFICES ASSUME TypeInv, [Next]_vars PROVE TypeInv'
  OBVIOUS
<1>1. CASE UNCHANGED vars
  BY <1>1 DEF vars, TypeInv, TypeOK, BusyHaveNames
<1>2. ASSUME NEW p \in Requests,
             FinishRegister(p) \/ Authorize(p) \/ Answer(p)
      PROVE  TypeInv'
  <2>1. req[p].name \in Names
    BY <1>2 DEF FinishRegister, Authorize, Answer, TypeInv, BusyHaveNames
  <2> QED
    BY <1>2, <2>1, RequestTypeInv
<1> QED
  BY <1>1, <1>2, UserTypeInv, RequestTypeInv, CallbackTypeInv, StoreTypeInv,
     RestartTypeInv DEF Next

\* Every reachable state is well typed.
THEOREM TypeCorrect == Spec => []TypeInv
  BY InitTypeInv, NextTypeInv, PTL DEF Spec

-----------------------------------------------------------------------------
(* The inductive invariants.                                               *)

\* A state that is in the store, or is not issued yet, has let nobody pass.
StoredIsUnused ==
    \A s \in 1..MaxStates : s \in DOMAIN states \/ s > issued => passed[s] = 0

\* Callbacks of a user who is not in raced do not overlap.
OneCallback ==
    \A p, q \in Requests :
        /\ req[p].step \in CallbackSteps /\ req[q].step \in CallbackSteps
        /\ req[p].name = req[q].name /\ req[p].name \notin raced
        => p = q

\* Between its two writes a callback knows the token that memory has and the
\* table has not; it gets there only when the users are in SQLite.
SaveFollows ==
    \A p \in Requests :
        req[p].step = "save" =>
            /\ backend = "sqlite"
            /\ req[p].name \notin raced => memory[req[p].name] = req[p].token

Saving(n) == \E p \in Requests : req[p].step = "save" /\ req[p].name = n

\* Outside of that window the copies agree, also while a callback is under way.
Agree(n) == memory[n] \in {NoToken, table[n]} \/ (n = TestUser /\ memory[n] = EnvToken)

AgreeUnlessSaving ==
    \A n \in Names : backend = "sqlite" /\ n \notin raced /\ ~Saving(n) => Agree(n)

CopiesInv == OneCallback /\ SaveFollows /\ AgreeUnlessSaving

\* What an authorization that counts as saved rests on, for one request: codes
\* are exchanged for tokens, and the table had a token when it was remembered.
SavedIsInTable(p) ==
    LET r == req[p] IN
    /\ r.step \in {"remember", "save"} => r.token # NoToken
    /\ r.sure => r.step # "idle" /\ table[r.name] # NoToken
    /\ r.sure /\ r.step = "authorize" => backend = "sqlite"
    /\ r.step = "refused" /\ r.id = "login" => ~r.sure

GrantedInv ==
    /\ \A n \in granted : n \in Names /\ table[n] # NoToken
    /\ \A p \in Requests : SavedIsInTable(p)

-----------------------------------------------------------------------------
(* An OAuth state is used once.                                            *)

\* The initial state, where nothing was issued, satisfies the invariant.
LEMMA InitStates == Init => StoredIsUnused
  BY DEF Init, StoredIsUnused

\* A state leaves the store for good in the step in which it lets a callback
\* pass, and enters it only when it is issued.
LEMMA NextStates ==
    TypeInv /\ StoredIsUnused /\ StatesSingleUse /\ [Next]_vars
        => StoredIsUnused' /\ StatesSingleUse'
<1> SUFFICES ASSUME TypeInv, StoredIsUnused, StatesSingleUse, [Next]_vars
             PROVE  StoredIsUnused' /\ StatesSingleUse'
  OBVIOUS
<1> USE DEF StoredIsUnused, StatesSingleUse
<1>1. CASE /\ passed' = passed /\ issued' = issued
           /\ DOMAIN states' \subseteq DOMAIN states
  BY <1>1
<1>2. ASSUME NEW p \in Requests, NEW n \in Names, NEW s \in 0..issued, Callback(p, n, s)
      PROVE  StoredIsUnused' /\ StatesSingleUse'
  <2>1. DOMAIN states' = DOMAIN states \ {s} /\ issued' = issued
    BY <1>2, RestrictTypes DEF Callback, Consume, counters
  <2>2. CASE Valid(s)
    <3>1. s \in 1..MaxStates /\ s \in DOMAIN states /\ s \in 1..issued
      BY <2>2 DEF Valid, TypeInv, TypeOK
    <3>2. \A t \in 1..MaxStates : passed'[t] = IF t = s THEN 1 ELSE passed[t]
      BY <1>2, <2>2, <3>1 DEF Callback, TypeInv, TypeOK
    <3>3. ASSUME NEW t \in 1..MaxStates
          PROVE  passed'[t] <= 1 /\ (t \in DOMAIN states' \/ t > issued' => passed'[t] = 0)
      <4>1. t = s => ~(t \in DOMAIN states' \/ t > issued')
        BY <2>1, <3>1 DEF TypeInv, TypeOK
      <4>2. passed'[t] = IF t = s THEN 1 ELSE passed[t]
        BY <3>2
      <4>3. CASE t = s
        BY <4>1, <4>2, <4>3
      <4>4. CASE t # s
        BY <2>1, <4>2, <4>4
      <4> QED
        BY <4>3, <4>4
    <3> QED
      BY <3>3
  <2>3. CASE ~ Valid(s)
    BY <1>2, <2>1, <2>3 DEF Callback
  <2> QED
    BY <2>2, <2>3
<1>3. CASE GetOAuthURL
  <2>1. DOMAIN states' = DOMAIN states \cup {issued + 1} /\ issued' = issued + 1
    BY <1>3 DEF GetOAuthURL
  <2> QED
    BY <1>3, <2>1 DEF GetOAuthURL, history, TypeInv, TypeOK
<1>4. CASE CleanupExpired
  <2> DEFINE S == {s \in DOMAIN states : ~states[s]}
  <2>1. S \in SUBSET DOMAIN states /\ states' = Restrict(states, S)
    BY <1>4 DEF CleanupExpired
  <2> HIDE DEF S
  <2>2. DOMAIN states' \subseteq DOMAIN states
    BY <2>1, RestrictTypes
  <2> QED
    BY <1>1, <1>4, <2>2 DEF CleanupExpired, counters, history
<1>5. CASE \E s \in 1..MaxStates : Expire(s)
  BY <1>1, <1>5 DEF Expire, counters, history
<1>6. CASE Restart
  BY <1>1, <1>6 DEF Restart, history
<1>7. ASSUME NEW n \in Names, NEW p \in Requests,
             RegisterGitHub(p, n) \/ CreateWorkspace(p, n)
      PROVE  StoredIsUnused' /\ StatesSingleUse'
  BY <1>1, <1>7 DEF RegisterGitHub, CreateWorkspace, stores, history
<1>8. ASSUME NEW n \in Names,
             DeleteUser(n) \/ \E id \in {"login", "generated"} : RegisterUser(n, id)
      PROVE  StoredIsUnused' /\ StatesSingleUse'
  BY <1>1, <1>8 DEF DeleteUser, RegisterUser, stores, counters, history
<1>9. ASSUME NEW p \in Requests,
             \/ FinishRegister(p) \/ Exchange(p) \/ StoreInMemory(p) \/ StoreInTable(p)
             \/ LookupUser(p) \/ AutoRegister(p) \/ Authorize(p) \/ Answer(p)
      PROVE  StoredIsUnused' /\ StatesSingleUse'
  <2>1. UNCHANGED <<states, issued, passed>>
    BY <1>9 DEF FinishRegister, Exchange, StoreInMemory, StoreInTable, LookupUser,
                AutoRegister, Authorize, Answer, stores, counters, history
  <2> QED
    BY <1>1, <2>1
<1>10. CASE UNCHANGED vars
  BY <1>1, <1>10 DEF vars
<1> QED
  BY <1>2, <1>3, <1>4, <1>5, <1>6, <1>7, <1>8, <1>9, <1>10 DEF Next

\* An OAuth state lets at most one callback pass, for any number of requests:
\* validating a state and deleting it is one critical section of the store.
THEOREM StateUsedOnce == Spec => []StatesSingleUse
<1>1. Init => StatesSingleUse
  BY DEF Init, StatesSingleUse
<1> QED
  BY <1>1, TypeCorrect, InitStates, NextStates, PTL DEF Spec

-----------------------------------------------------------------------------
(* A user is registered once.                                              *)

\* Registering never changes a user that the database has.
LEMMA RegisterKeeps ==
    ASSUME TypeInv, NEW n \in Names, NEW id, NEW key, Register(n, id, key),
           NEW m \in Names, users["sqlite"][m] # NoUser
    PROVE  users'["sqlite"][m] = users["sqlite"][m]
<1> DEFINE user == [id |-> id, key |-> key]
<1>1. CASE users' = users
  BY <1>1
<1>2. CASE /\ users' = [users EXCEPT ![backend][n] = user]
           /\ backend = "memory" \/ User(n) = NoUser
  <2> HIDE DEF user
  <2>1. CASE backend = "memory"
    BY <1>2, <2>1 DEF TypeInv, TypeOK, Backends
  <2>2. CASE backend = "sqlite"
    <3>1. n # m
      BY <1>2, <2>2 DEF User
    <3> QED
      BY <1>2, <2>2, <3>1 DEF TypeInv, TypeOK, Backends
  <2> QED
    BY <2>1, <2>2 DEF TypeInv, TypeOK, Backends
<1> QED
  BY <1>1, <1>2 DEF Register, Registered

\* A user whom the database has and who is not deleted stays as it was.
LEMMA NextKeeps ==
    ASSUME TypeInv, [Next]_vars, NEW m \in Names,
           users["sqlite"][m] # NoUser, users'["sqlite"][m] # NoUser
    PROVE  users'["sqlite"][m] = users["sqlite"][m]
<1> DEFINE Kept == users'["sqlite"][m] = users["sqlite"][m]
<1>1. ASSUME NEW n \in Names, NEW id, RegisterUser(n, id)
      PROVE  Kept
  BY <1>1, RegisterKeeps DEF RegisterUser
<1>2. ASSUME NEW n \in Names, DeleteUser(n)
      PROVE  Kept
  <2>1. users' = [users EXCEPT ![backend] = [users[backend] EXCEPT ![n] = NoUser]]
    BY <1>2 DEF DeleteUser
  <2>2. CASE backend = "memory"
    BY <2>1, <2>2 DEF TypeInv, TypeOK, Backends
  <2>3. CASE backend = "sqlite"
    <3>1. users'["sqlite"] = [users["sqlite"] EXCEPT ![n] = NoUser]
      BY <2>1, <2>3 DEF TypeInv, TypeOK, Backends
    <3>2. m # n
      BY <3>1 DEF TypeInv, TypeOK, Backends
    <3> QED
      BY <3>1, <3>2 DEF TypeInv, TypeOK, Backends
  <2> QED
    BY <2>2, <2>3 DEF TypeInv, TypeOK, Backends
<1>3. ASSUME NEW p \in Requests, FinishRegister(p) \/ AutoRegister(p)
      PROVE  Kept
  <2>1. req[p].name \in Names
    BY <1>3 DEF FinishRegister, AutoRegister, TypeInv, BusyHaveNames
  <2> QED
    BY <1>3, <2>1, RegisterKeeps DEF FinishRegister, AutoRegister
<1>4. CASE Restart
  BY <1>4 DEF Restart, TypeInv, TypeOK, Backends
<1>5. CASE UNCHANGED users
  BY <1>5
<1>6. ASSUME NEW n \in Names, NEW p \in Requests,
             RegisterGitHub(p, n) \/ CreateWorkspace(p, n) \/ \E s \in 0..issued : Callback(p, n, s)
      PROVE  UNCHANGED users
  BY <1>6 DEF RegisterGitHub, CreateWorkspace, Callback
<1>7. ASSUME NEW p \in Requests,
             \/ Exchange(p) \/ StoreInMemory(p) \/ StoreInTable(p)
             \/ LookupUser(p) \/ Authorize(p) \/ Answer(p)
      PROVE  UNCHANGED users
  BY <1>7 DEF Exchange, StoreInMemory, StoreInTable, LookupUser, Authorize, Answer
<1>8. ASSUME GetOAuthURL \/ CleanupExpired \/ \E s \in 1..MaxStates : Expire(s)
      PROVE  UNCHANGED users
  BY <1>8 DEF GetOAuthURL, CleanupExpired, Expire
<1>9. CASE UNCHANGED vars
  BY <1>9 DEF vars
<1> QED
  BY <1>1, <1>2, <1>3, <1>4, <1>5, <1>6, <1>7, <1>8, <1>9 DEF Next

\* A user in the database keeps its identifier and key until it is deleted,
\* however many registrations of the name race and whatever they would store.
THEOREM UsersRegisteredOnce == Spec => RegisteredOnce
<1>1. TypeInv /\ [Next]_vars
        => [\A n \in Names :
              LET was == users["sqlite"][n]  is == users'["sqlite"][n] IN
              was # NoUser /\ is # NoUser => is = was]_vars
  BY NextKeeps
<1> QED
  BY <1>1, TypeCorrect, PTL DEF Spec, RegisteredOnce

-----------------------------------------------------------------------------
(* The two copies of an installation agree.                                *)

\* Where the requests are after the steps that move only one of them.
LEMMA GotoEffect ==
    ASSUME TypeInv, NEW p \in Requests, NEW q \in Requests
    PROVE  /\ \A step : Goto(p, step) =>
                 /\ req'[q].step = IF q = p THEN step ELSE req[q].step
                 /\ req'[q].name = req[q].name /\ req'[q].token = req[q].token
                 /\ req'[q].sure = req[q].sure /\ req'[q].id = req[q].id
           /\ Finish(p) => req'[q] = IF q = p THEN Idle ELSE req[q]
  BY DEF Goto, Finish, TypeInv, TypeOK, Request

\* A step that writes no copy and starts no callback keeps the invariant.
LEMMA CopiesFrame ==
    ASSUME TypeInv, CopiesInv, UNCHANGED <<backend, table, memory>>,
           raced \subseteq raced',
           \A q \in Requests :
              req'[q].step \in CallbackSteps =>
                 /\ req[q].step \in CallbackSteps /\ req'[q].name = req[q].name
                 /\ req'[q].step = "save" <=> req[q].step = "save"
                 /\ req'[q].step = "save" => req'[q].token = req[q].token,
           \A q \in Requests :
              req[q].step = "save" => req'[q].step = "save" \/ req[q].name \in raced'
    PROVE  CopiesInv'
<1>1. OneCallback'
  BY DEF CopiesInv, OneCallback
<1>2. SaveFollows'
  BY DEF CopiesInv, SaveFollows, CallbackSteps
<1>3. AgreeUnlessSaving'
  <2> SUFFICES ASSUME NEW n \in Names, backend = "sqlite", n \notin raced', ~Saving(n)'
               PROVE  Agree(n)'
    BY DEF AgreeUnlessSaving
  <2>1. ~Saving(n)
    BY DEF Saving, CallbackSteps
  <2> QED
    BY <2>1 DEF CopiesInv, AgreeUnlessSaving, Agree
<1> QED
  BY <1>1, <1>2, <1>3 DEF CopiesInv

\* The initial state, where memory is empty, satisfies the invariant.
LEMMA InitCopies == Init => CopiesInv
<1> SUFFICES ASSUME Init PROVE CopiesInv
  OBVIOUS
<1>1. \A p \in Requests : req[p].step = "idle"
  BY IdleTypes DEF Init
<1>2. \A n \in Names : Agree(n)
  BY InjectedTypes DEF Init, Agree
<1> QED
  BY <1>1, <1>2 DEF CopiesInv, OneCallback, SaveFollows, AgreeUnlessSaving, CallbackSteps

\* A callback that starts while another of its user is under way is in raced.
LEMMA CallbackCopies ==
    ASSUME TypeInv, CopiesInv, NEW p \in Requests, NEW n \in Names, NEW s,
           Callback(p, n, s)
    PROVE  CopiesInv'
<1>1. CASE ~ Valid(s)
  BY <1>1, CopiesFrame DEF Callback
<1>2. CASE Valid(s)
  <2>1. req[p].step = "idle"
    BY IdleTypes DEF Callback
  <2>2. \A q \in Requests :
           IF q = p THEN req'[q].step = "exchange" /\ req'[q].name = n
                    ELSE req'[q] = req[q]
    <3> DEFINE r == At("exchange", n, Idle)
    <3>1. r.step = "exchange" /\ r.name = n
      BY AtTypes DEF Steps, CallbackSteps
    <3>2. req' = [req EXCEPT ![p] = r]
      BY <1>2 DEF Callback
    <3> HIDE DEF r
    <3> QED
      BY <3>1, <3>2 DEF TypeInv, TypeOK
  <2>3. /\ raced \subseteq raced'
        /\ \A q \in Requests :
              req[q].step \in CallbackSteps /\ req[q].name = n => n \in raced'
    BY <1>2 DEF Callback, Authorizing
  <2>4. UNCHANGED <<backend, table, memory>>
    BY DEF Callback
  <2>5. OneCallback'
    BY <2>1, <2>2, <2>3 DEF CopiesInv, OneCallback
  <2>6. SaveFollows'
    BY <2>2, <2>3, <2>4 DEF CopiesInv, SaveFollows
  <2>7. \A m : Saving(m) => Saving(m)'
    BY <2>1, <2>2 DEF Saving
  <2>8. AgreeUnlessSaving'
    BY <2>3, <2>4, <2>7 DEF CopiesInv, AgreeUnlessSaving, Agree
  <2> QED
    BY <2>5, <2>6, <2>8 DEF CopiesInv
<1> QED
  BY <1>1, <1>2

\* The first write opens the window in which only memory has the new token.
LEMMA StoreInMemoryCopies ==
    ASSUME TypeInv, CopiesInv, NEW p \in Requests, StoreInMemory(p)
    PROVE  CopiesInv'
<1> DEFINE n == req[p].name
           next == IF backend = "sqlite" THEN "save" ELSE "lookup"
<1>1. req[p].step = "remember" /\ n \in Names
  BY DEF StoreInMemory, TypeInv, BusyHaveNames
<1>2. \A q \in Requests :
         /\ req'[q].step = IF q = p THEN next ELSE req[q].step
         /\ req'[q].name = req[q].name /\ req'[q].token = req[q].token
  BY GotoEffect DEF StoreInMemory
<1>3. \A m \in Names : memory'[m] = IF m = n THEN req[p].token ELSE memory[m]
  BY <1>1 DEF StoreInMemory, TypeInv, TypeOK
<1>4. UNCHANGED <<backend, table, raced>>
  BY DEF StoreInMemory, history
<1>5. next \in CallbackSteps /\ "remember" \in CallbackSteps /\ "save" \in CallbackSteps
  BY DEF CallbackSteps
<1>6. \A q \in Requests : req[q].step = "save" => req[q].name \in Names
  BY DEF TypeInv, BusyHaveNames
<1> HIDE DEF n
<1>7. OneCallback'
  BY <1>1, <1>2, <1>4, <1>5 DEF CopiesInv, OneCallback
<1>8. SaveFollows'
  <2> SUFFICES ASSUME NEW q \in Requests, req'[q].step = "save"
               PROVE  /\ backend' = "sqlite"
                      /\ req'[q].name \notin raced' =>
                            memory'[req'[q].name] = req'[q].token
    BY DEF SaveFollows
  <2>1. CASE q = p
    BY <1>1, <1>2, <1>3, <1>4, <2>1 DEF n
  <2>2. CASE q # p
    <3>1. req[q].step = "save" /\ backend = "sqlite" /\ req[q].name \in Names
      BY <1>2, <1>6, <2>2 DEF CopiesInv, SaveFollows
    <3>2. CASE req[q].name = n
      BY <1>1, <1>2, <1>4, <1>5, <2>2, <3>1, <3>2 DEF CopiesInv, OneCallback, n
    <3>3. CASE req[q].name # n
      BY <1>2, <1>3, <1>4, <3>1, <3>3 DEF CopiesInv, SaveFollows
    <3> QED
      BY <3>2, <3>3
  <2> QED
    BY <2>1, <2>2
<1>9. AgreeUnlessSaving'
  <2> SUFFICES ASSUME NEW m \in Names, backend' = "sqlite", m \notin raced', ~Saving(m)'
               PROVE  Agree(m)'
    BY DEF AgreeUnlessSaving
  <2>1. m # n
    BY <1>2, <1>4 DEF Saving, n
  <2>2. ~Saving(m)
    BY <1>1, <1>2 DEF Saving
  <2> QED
    BY <1>3, <1>4, <2>1, <2>2 DEF CopiesInv, AgreeUnlessSaving, Agree
<1> QED
  BY <1>7, <1>8, <1>9 DEF CopiesInv

\* The second write closes it, or the user is in raced from then on.
LEMMA StoreInTableCopies ==
    ASSUME TypeInv, CopiesInv, NEW p \in Requests, StoreInTable(p)
    PROVE  CopiesInv'
<1> DEFINE n == req[p].name
<1>1. req[p].step = "save" /\ n \in Names
  BY DEF StoreInTable, TypeInv, BusyHaveNames
<1>2. CASE /\ table' = Upserted(n, req[p].token)
           /\ req' = [req EXCEPT ![p].step = "lookup", ![p].sure = TRUE]
           /\ UNCHANGED raced
  <2>1. \A q \in Requests :
           /\ req'[q].step = IF q = p THEN "lookup" ELSE req[q].step
           /\ req'[q].name = req[q].name /\ req'[q].token = req[q].token
    BY <1>2 DEF TypeInv, TypeOK, Request
  <2>2. \A m \in Names : table'[m] = IF m = n THEN req[p].token ELSE table[m]
    BY <1>1, <1>2 DEF Upserted, TypeInv, TypeOK
  <2>3. UNCHANGED <<backend, memory, raced>>
    BY <1>2 DEF StoreInTable
  <2>4. OneCallback'
    BY <1>1, <2>1, <2>3 DEF CopiesInv, OneCallback, CallbackSteps
  <2>5. SaveFollows'
    BY <2>1, <2>3 DEF CopiesInv, SaveFollows
  <2> HIDE DEF n
  <2>6. AgreeUnlessSaving'
    <3> SUFFICES ASSUME NEW m \in Names, backend = "sqlite", m \notin raced, ~Saving(m)'
                 PROVE  Agree(m)'
      BY <2>3 DEF AgreeUnlessSaving
    <3>1. CASE m = n
      BY <1>1, <2>2, <2>3, <3>1 DEF CopiesInv, SaveFollows, Agree, n
    <3>2. CASE m # n
      <4>1. ~Saving(m)
        BY <2>1, <3>2 DEF Saving, n
      <4> QED
        BY <2>2, <2>3, <3>2, <4>1 DEF CopiesInv, AgreeUnlessSaving, Agree
    <3> QED
      BY <3>1, <3>2
  <2> QED
    BY <2>4, <2>5, <2>6 DEF CopiesInv
<1>3. CASE UNCHANGED table /\ Goto(p, "lookup") /\ raced' = raced \cup {n}
  <2>1. \A q \in Requests :
           /\ req'[q].step = IF q = p THEN "lookup" ELSE req[q].step
           /\ req'[q].name = req[q].name /\ req'[q].token = req[q].token
    BY <1>3, GotoEffect
  <2>2. UNCHANGED <<backend, table, memory>>
    BY <1>3 DEF StoreInTable
  <2>3. OneCallback'
    BY <1>1, <1>3, <2>1 DEF CopiesInv, OneCallback, CallbackSteps
  <2>4. SaveFollows'
    BY <1>3, <2>1, <2>2 DEF CopiesInv, SaveFollows
  <2>5. AgreeUnlessSaving'
    <3> SUFFICES ASSUME NEW m \in Names, backend = "sqlite", m \notin raced', ~Saving(m)'
                 PROVE  Agree(m)'
      BY <2>2 DEF AgreeUnlessSaving
    <3>1. m \notin raced /\ ~Saving(m)
      BY <1>3, <2>1 DEF Saving
    <3> QED
      BY <2>2, <3>1 DEF CopiesInv, AgreeUnlessSaving, Agree
  <2> QED
    BY <2>3, <2>4, <2>5 DEF CopiesInv
<1> QED
  BY <1>2, <1>3 DEF StoreInTable

\* The invariant is inductive.
LEMMA NextCopies == TypeInv /\ CopiesInv /\ [Next]_vars => CopiesInv'
<1> SUFFICES ASSUME TypeInv, CopiesInv, [Next]_vars PROVE CopiesInv'
  OBVIOUS
<1>1. CASE UNCHANGED <<backend, table, memory, req, raced>>
  BY <1>1, CopiesFrame
<1>2. CASE Restart
  <2>1. \A q \in Requests : req'[q].step = "idle"
    BY <1>2, IdleTypes DEF Restart
  <2>2. \A n \in Names : Agree(n)'
    BY <1>2, InjectedTypes DEF Restart, Agree
  <2> QED
    BY <2>1, <2>2 DEF CopiesInv, OneCallback, SaveFollows, AgreeUnlessSaving, CallbackSteps
<1>3. ASSUME NEW p \in Requests, NEW n \in Names,
             RegisterGitHub(p, n) \/ CreateWorkspace(p, n)
      PROVE  CopiesInv'
  <2>1. req[p].step = "idle"
    BY <1>3, IdleTypes DEF RegisterGitHub, CreateWorkspace
  <2>2. req'[p].step \in {"register", "authorize"}
    <3>1. /\ At("register", n, Idle) \in Request /\ At("register", n, Idle).step = "register"
          /\ At("authorize", n, Idle) \in Request /\ At("authorize", n, Idle).step = "authorize"
      BY AtTypes DEF Steps
    <3>2. CASE RegisterGitHub(p, n)
      <4>1. req'[p] = [At("register", n, Idle) EXCEPT !.key = served']
        BY <3>2 DEF RegisterGitHub, TypeInv, TypeOK
      <4> QED
        BY <3>1, <4>1 DEF Request
    <3>3. CASE CreateWorkspace(p, n)
      <4>1. req'[p] = [At("authorize", n, Idle) EXCEPT
                          !.id = User(n).id,
                          !.sure = backend = "sqlite" /\ n \in granted]
        BY <3>3 DEF CreateWorkspace, TypeInv, TypeOK
      <4> QED
        BY <3>1, <4>1 DEF Request
    <3> QED
      BY <1>3, <3>2, <3>3
  <2>3. \A q \in Requests : q # p => req'[q] = req[q]
    BY <1>3 DEF RegisterGitHub, CreateWorkspace, TypeInv, TypeOK
  <2>4. UNCHANGED <<backend, table, memory, raced>>
    BY <1>3 DEF RegisterGitHub, CreateWorkspace, stores, history
  <2> QED
    BY <2>1, <2>2, <2>3, <2>4, CopiesFrame DEF CallbackSteps
<1>4. ASSUME NEW p \in Requests,
             \/ FinishRegister(p) \/ Exchange(p) \/ LookupUser(p) \/ AutoRegister(p)
             \/ Authorize(p) \/ Answer(p)
      PROVE  CopiesInv'
  <2>1. UNCHANGED <<backend, table, memory, raced>>
    BY <1>4 DEF FinishRegister, Exchange, LookupUser, AutoRegister, Authorize,
                Answer, stores, history
  <2>2. \A q \in Requests : q # p => req'[q] = req[q]
    BY <1>4 DEF FinishRegister, Exchange, LookupUser, AutoRegister, Answered, Authorize,
                Answer, Finish, Goto, TypeInv, TypeOK
  <2>3. /\ req[p].step # "save" /\ req'[p].step # "save"
        /\ req'[p].step \in CallbackSteps =>
              req[p].step \in CallbackSteps /\ req'[p].name = req[p].name
    <3>1. Finish(p) => req'[p].step = "idle"
      BY GotoEffect, IdleTypes
    <3>2. CASE FinishRegister(p) \/ AutoRegister(p) \/ Answer(p)
      BY <3>1, <3>2 DEF FinishRegister, AutoRegister, Answer, Answered, CallbackSteps
    <3>3. CASE LookupUser(p)
      BY <3>1, <3>3, GotoEffect DEF LookupUser, Answered, CallbackSteps
    <3>4. CASE Exchange(p)
      BY <3>1, <3>4 DEF Exchange, CallbackSteps, TypeInv, TypeOK, Request
    <3>5. CASE Authorize(p)
      <4>1. req[p].step = "authorize" /\ req'[p].step \in {"refused", "accepted", "unread"}
        BY <3>5, GotoEffect DEF Authorize, TypeInv, TypeOK, Request
      <4> QED
        BY <4>1 DEF CallbackSteps
    <3> QED
      BY <1>4, <3>2, <3>3, <3>4, <3>5
  <2> QED
    BY <2>1, <2>2, <2>3, CopiesFrame
<1>5. ASSUME NEW n \in Names,
             DeleteUser(n) \/ \E id \in {"login", "generated"} : RegisterUser(n, id)
      PROVE  CopiesInv'
  BY <1>1, <1>5 DEF DeleteUser, RegisterUser, stores, history
<1>6. CASE GetOAuthURL \/ CleanupExpired \/ \E s \in 1..MaxStates : Expire(s)
  BY <1>1, <1>6 DEF GetOAuthURL, CleanupExpired, Expire, history
<1>7. CASE UNCHANGED vars
  BY <1>1, <1>7 DEF vars
<1> QED
  BY <1>2, <1>3, <1>4, <1>5, <1>6, <1>7, CallbackCopies, StoreInMemoryCopies,
     StoreInTableCopies DEF Next

\* While callbacks of a user neither overlap nor fail to save, the copy in
\* memory is the one in the table: a restart brings back no older token.
THEOREM InstallationCopiesAgree == Spec => []CopiesAgree
<1>1. TypeInv /\ CopiesInv => CopiesAgree
  BY DEF CopiesInv, AgreeUnlessSaving, Agree, Saving, CopiesAgree, Authorizing, CallbackSteps
<1> QED
  BY <1>1, TypeCorrect, InitCopies, NextCopies, PTL DEF Spec

-----------------------------------------------------------------------------
(* Whoever was granted an authorization is accepted.                       *)

\* The table loses no token, and only the request that took the step changed.
LEMMA GrantedFrame ==
    ASSUME TypeInv, GrantedInv, NEW p, UNCHANGED backend,
           \A n \in Names : table[n] # NoToken => table'[n] # NoToken,
           \A n \in granted' : n \in granted \/ (n \in Names /\ table'[n] # NoToken),
           \A q \in Requests : q # p => req'[q] = req[q],
           p \in Requests => SavedIsInTable(p)'
    PROVE  GrantedInv'
<1>1. ASSUME NEW q \in Requests, q # p
      PROVE  SavedIsInTable(q)'
  <2>1. req'[q] = req[q] /\ SavedIsInTable(q)
    BY <1>1 DEF GrantedInv
  <2>2. req[q].step # "idle" => req[q].name \in Names
    BY DEF TypeInv, BusyHaveNames
  <2> QED
    BY <2>1, <2>2 DEF SavedIsInTable
<1> QED
  BY <1>1 DEF GrantedInv

\* The initial state, where nothing was granted, satisfies the invariant.
LEMMA InitGranted == Init => GrantedInv
<1> SUFFICES ASSUME Init PROVE GrantedInv
  OBVIOUS
<1>1. \A p \in Requests : req[p] = Idle
  BY DEF Init
<1>2. \A p \in Requests : SavedIsInTable(p)
  BY <1>1, IdleTypes DEF SavedIsInTable
<1> QED
  BY <1>2 DEF Init, GrantedInv

\* A callback counts its authorization as saved only after the table has it.
LEMMA CallbackGranted ==
    ASSUME TypeInv, GrantedInv, NEW p \in Requests,
           \/ \E n \in Names, s \in 0..issued : Callback(p, n, s)
           \/ Exchange(p) \/ StoreInMemory(p) \/ StoreInTable(p)
           \/ LookupUser(p) \/ AutoRegister(p)
    PROVE  GrantedInv'
<1>1. SavedIsInTable(p) /\ req[p] \in Request
  BY DEF GrantedInv, TypeInv, TypeOK
<1>2. req[p].step # "idle" => req[p].name \in Names
  BY DEF TypeInv, BusyHaveNames
<1>3. Finish(p) => (\A q \in Requests : q # p => req'[q] = req[q]) /\ req'[p] = Idle
  BY DEF Finish, TypeInv, TypeOK
<1>4. \A step : Goto(p, step) =>
         /\ \A q \in Requests : q # p => req'[q] = req[q]
         /\ req'[p].step = step /\ req'[p].name = req[p].name /\ req'[p].id = req[p].id
         /\ req'[p].token = req[p].token /\ req'[p].sure = req[p].sure
  BY GotoEffect DEF Goto, TypeInv, TypeOK
<1>5. req'[p] = Idle => SavedIsInTable(p)'
  BY IdleTypes DEF SavedIsInTable
<1>a. ASSUME NEW n \in Names, NEW s \in 0..issued, Callback(p, n, s)
      PROVE  GrantedInv'
  <2>1. CASE Valid(s)
    <3> DEFINE r == At("exchange", n, Idle)
    <3>1. r.step = "exchange" /\ r.sure = FALSE
      BY AtTypes DEF Steps, CallbackSteps
    <3>2. req' = [req EXCEPT ![p] = r]
      BY <1>a, <2>1 DEF Callback
    <3> HIDE DEF r
    <3>3. req'[p] = r /\ \A q \in Requests : q # p => req'[q] = req[q]
      BY <3>2 DEF TypeInv, TypeOK
    <3>4. SavedIsInTable(p)'
      BY <3>1, <3>3 DEF SavedIsInTable
    <3> QED
      BY <1>a, <3>3, <3>4, GrantedFrame DEF Callback
  <2>2. CASE ~ Valid(s)
    BY <1>a, <1>1, <2>2, GrantedFrame DEF Callback, SavedIsInTable
  <2> QED
    BY <2>1, <2>2
<1>b. CASE Exchange(p)
  <2>1. UNCHANGED <<backend, table, granted>>
    BY <1>b DEF Exchange, stores, history
  <2>2. CASE Finish(p)
    BY <1>3, <1>5, <2>1, <2>2, GrantedFrame
  <2>3. CASE tokens' = tokens + 1
             /\ req' = [req EXCEPT ![p].step = "remember", ![p].token = tokens']
    <3>1. tokens' # NoToken
      BY <2>3 DEF TypeInv, TypeOK, NoToken
    <3>2. /\ req'[p].step = "remember" /\ req'[p].token = tokens'
          /\ req'[p].sure = req[p].sure /\ req'[p].name = req[p].name
          /\ \A q \in Requests : q # p => req'[q] = req[q]
      BY <1>1, <2>3 DEF Request, TypeInv, TypeOK
    <3>3. SavedIsInTable(p)'
      BY <1>1, <2>1, <3>1, <3>2 DEF SavedIsInTable
    <3> QED
      BY <2>1, <3>2, <3>3, GrantedFrame
  <2> QED
    BY <1>b, <2>2, <2>3 DEF Exchange
<1>c. CASE StoreInMemory(p)
  <2>1. UNCHANGED <<backend, table, granted>> /\ req[p].step = "remember"
    BY <1>c DEF StoreInMemory, history
  <2>2. \E step \in {"save", "lookup"} : Goto(p, step)
    BY <1>c DEF StoreInMemory
  <2>3. SavedIsInTable(p)'
    BY <1>1, <1>4, <2>1, <2>2 DEF SavedIsInTable
  <2> QED
    BY <1>4, <2>1, <2>2, <2>3, GrantedFrame
<1>d. CASE StoreInTable(p)
  <2>1. UNCHANGED <<backend, granted>> /\ req[p].step = "save"
    BY <1>d DEF StoreInTable
  <2>2. CASE /\ table' = Upserted(req[p].name, req[p].token)
             /\ req' = [req EXCEPT ![p].step = "lookup", ![p].sure = TRUE]
    <3>1. req[p].token # NoToken /\ req[p].name \in Names
      BY <1>1, <1>2, <2>1 DEF SavedIsInTable
    <3>2. \A n \in Names : table'[n] = IF n = req[p].name THEN req[p].token ELSE table[n]
      BY <2>2, <3>1 DEF Upserted, TypeInv, TypeOK
    <3>3. /\ req'[p].step = "lookup" /\ req'[p].name = req[p].name
          /\ \A q \in Requests : q # p => req'[q] = req[q]
      BY <1>1, <2>2 DEF Request, TypeInv, TypeOK
    <3>4. SavedIsInTable(p)'
      BY <3>1, <3>2, <3>3 DEF SavedIsInTable
    <3> QED
      BY <2>1, <3>1, <3>2, <3>3, <3>4, GrantedFrame
  <2>3. CASE UNCHANGED table /\ Goto(p, "lookup")
    <3>1. SavedIsInTable(p)'
      BY <1>1, <1>4, <2>1, <2>3 DEF SavedIsInTable
    <3> QED
      BY <1>4, <2>1, <2>3, <3>1, GrantedFrame
  <2> QED
    BY <1>d, <2>2, <2>3 DEF StoreInTable
<1>e. ASSUME req[p].step # "idle", Answered(p), UNCHANGED <<backend, table>>
      PROVE  GrantedInv'
  <2>1. \A n \in granted' : n \in granted \/ (n \in Names /\ table'[n] # NoToken)
    BY <1>e, <1>1, <1>2 DEF Answered, SavedIsInTable
  <2> QED
    BY <1>e, <1>3, <1>5, <2>1, GrantedFrame DEF Answered
<1>f. CASE LookupUser(p)
  <2>1. UNCHANGED <<backend, table>> /\ req[p].step = "lookup"
    BY <1>f DEF LookupUser, stores
  <2>2. CASE Answered(p)
    BY <1>e, <2>1, <2>2
  <2>3. CASE Goto(p, "auto-register") /\ UNCHANGED granted
    <3>1. SavedIsInTable(p)'
      BY <1>1, <1>4, <2>1, <2>3 DEF SavedIsInTable
    <3> QED
      BY <1>4, <2>1, <2>3, <3>1, GrantedFrame
  <2> QED
    BY <1>f, <2>2, <2>3 DEF LookupUser
<1>g. CASE AutoRegister(p)
  BY <1>e, <1>g DEF AutoRegister, stores
<1> QED
  BY <1>a, <1>b, <1>c, <1>d, <1>f, <1>g

\* A create request of a user who was granted finds the token in the table.
LEMMA RequestGranted ==
    ASSUME TypeInv, GrantedInv, NEW n \in Names, NEW p \in Requests,
           \/ RegisterGitHub(p, n) \/ FinishRegister(p)
           \/ CreateWorkspace(p, n) \/ Authorize(p) \/ Answer(p)
    PROVE  GrantedInv'
<1>1. SavedIsInTable(p) /\ req[p] \in Request
  BY DEF GrantedInv, TypeInv, TypeOK
<1>2. UNCHANGED <<backend, table, granted>>
  BY DEF RegisterGitHub, FinishRegister, CreateWorkspace, Authorize, Answer, stores, history
<1>3. ASSUME Finish(p)
      PROVE  GrantedInv'
  <2>1. req'[p] = Idle /\ \A q \in Requests : q # p => req'[q] = req[q]
    BY <1>3 DEF Finish, TypeInv, TypeOK
  <2>2. SavedIsInTable(p)'
    BY <2>1, IdleTypes DEF SavedIsInTable
  <2> QED
    BY <1>2, <2>1, <2>2, GrantedFrame
<1>4. CASE RegisterGitHub(p, n)
  <2> DEFINE r == At("register", n, Idle)
  <2>1. r \in Request /\ r.step = "register" /\ r.sure = FALSE
    BY AtTypes DEF Steps
  <2>2. req' = [req EXCEPT ![p] = [r EXCEPT !.key = served']]
    BY <1>4 DEF RegisterGitHub
  <2> HIDE DEF r
  <2>3. /\ req'[p].step = "register" /\ req'[p].sure = FALSE
        /\ \A q \in Requests : q # p => req'[q] = req[q]
    BY <2>1, <2>2 DEF Request, TypeInv, TypeOK
  <2>4. SavedIsInTable(p)'
    BY <2>3 DEF SavedIsInTable
  <2> QED
    BY <1>2, <2>3, <2>4, GrantedFrame
<1>5. CASE CreateWorkspace(p, n)
  <2> DEFINE r == At("authorize", n, Idle)
             sure == backend = "sqlite" /\ n \in granted
  <2>1. r \in Request /\ r.step = "authorize" /\ r.name = n
    BY AtTypes DEF Steps
  <2>2. req' = [req EXCEPT ![p] = [r EXCEPT !.id = User(n).id, !.sure = sure]]
    BY <1>5 DEF CreateWorkspace
  <2>3. sure => backend = "sqlite" /\ table[n] # NoToken
    BY DEF GrantedInv
  <2> HIDE DEF r, sure
  <2>4. /\ req'[p].step = "authorize" /\ req'[p].name = n /\ req'[p].sure = sure
        /\ \A q \in Requests : q # p => req'[q] = req[q]
    BY <2>1, <2>2 DEF Request, TypeInv, TypeOK
  <2>5. SavedIsInTable(p)'
    BY <1>2, <2>3, <2>4 DEF SavedIsInTable
  <2> QED
    BY <1>2, <2>4, <2>5, GrantedFrame
<1>6. CASE Authorize(p)
  <2> DEFINE token == Installation(req[p].name, req[p].id)
             next == IF token = NoToken THEN "refused" ELSE "accepted"
  <2>1. /\ req'[p].step \in {next, "unread"} /\ req'[p].name = req[p].name /\ req'[p].id = req[p].id
        /\ req'[p].sure = req[p].sure /\ \A q \in Requests : q # p => req'[q] = req[q]
    <3>1. CASE req' = [req EXCEPT ![p].step = next, ![p].token = token]
      <4> HIDE DEF next, token
      <4> QED
        BY <1>1, <3>1 DEF Request, TypeInv, TypeOK
    <3>2. CASE Goto(p, "unread")
      BY <3>2, GotoEffect DEF Goto, TypeInv, TypeOK
    <3> QED
      BY <1>6, <3>1, <3>2 DEF Authorize
  <2>2. next = "refused" /\ req[p].id = "login" => ~req[p].sure
    BY <1>1, <1>6 DEF Authorize, SavedIsInTable, Installation
  <2> HIDE DEF token
  <2>3. SavedIsInTable(p)'
    BY <1>1, <1>2, <2>1, <2>2 DEF SavedIsInTable
  <2> QED
    BY <1>2, <2>1, <2>3, GrantedFrame
<1> QED
  BY <1>3, <1>4, <1>5, <1>6 DEF FinishRegister, Answer

\* The invariant is inductive.
LEMMA NextGranted == TypeInv /\ GrantedInv /\ [Next]_vars => GrantedInv'
<1> SUFFICES ASSUME TypeInv, GrantedInv, [Next]_vars PROVE GrantedInv'
  OBVIOUS
<1>1. CASE UNCHANGED <<backend, table, granted, req>>
  BY <1>1 DEF GrantedInv, SavedIsInTable
<1>2. ASSUME NEW p \in Requests,
             FinishRegister(p) \/ Authorize(p) \/ Answer(p)
      PROVE  GrantedInv'
  <2>1. req[p].name \in Names
    BY <1>2 DEF FinishRegister, Authorize, Answer, TypeInv, BusyHaveNames
  <2> QED
    BY <1>2, <2>1, RequestGranted
<1>3. ASSUME NEW n \in Names,
             DeleteUser(n) \/ \E id \in {"login", "generated"} : RegisterUser(n, id)
      PROVE  GrantedInv'
  BY <1>1, <1>3 DEF DeleteUser, RegisterUser, stores, history
<1>4. CASE GetOAuthURL \/ CleanupExpired \/ \E s \in 1..MaxStates : Expire(s)
  BY <1>1, <1>4 DEF GetOAuthURL, CleanupExpired, Expire, history
<1>5. CASE Restart
  <2>1. \A q \in Requests : req'[q] = Idle
    BY <1>5 DEF Restart
  <2>2. \A q \in Requests : SavedIsInTable(q)'
    BY <2>1, IdleTypes DEF SavedIsInTable
  <2> QED
    BY <1>5, <2>2 DEF Restart, GrantedInv, history
<1>6. CASE UNCHANGED vars
  BY <1>1, <1>6 DEF vars
<1> QED
  BY <1>2, <1>3, <1>4, <1>5, <1>6, RequestGranted, CallbackGranted DEF Next

\* A user known by the GitHub name whose authorization was answered and saved is
\* never asked to authorize again, through restarts, deletions and new sign-ups.
THEOREM GrantedStaysGranted == Spec => []GrantedIsAccepted
<1>1. GrantedInv => GrantedIsAccepted
  BY DEF GrantedInv, SavedIsInTable, GrantedIsAccepted
<1> QED
  BY <1>1, TypeCorrect, InitGranted, NextGranted, PTL DEF Spec
=============================================================================
