------------------------------ MODULE Accounts ------------------------------
(***************************************************************************)
(* Users, GitHub installations and OAuth states of the coordination server *)
(* (pkg/coordination: handlers.go, handlers_m4.go, registry.go,            *)
(* registry_sqlite.go, db.go).  A request is a goroutine: between two of   *)
(* its critical sections (each one lock or one SQL statement) others run.  *)
(*                                                                         *)
(* Users and installations are in a SQLite file, or in memory when the     *)
(* file cannot be opened; a callback writes an installation to a map in    *)
(* memory as well.  A user has an identifier, here "login" when it is the  *)
(* GitHub name and "generated" when Register made it up, and a key, here   *)
(* the serial number of the request that registered the user.              *)
(***************************************************************************)
EXTENDS Naturals, FiniteSets, Functions

CONSTANTS Names,          \* GitHub user names
          TestUser,       \* "IniZio", whose token NewServer takes from GITHUB_TOKEN
          Requests,       \* requests in flight at one time
          MaxRequests,    \* bound: requests that register or create
          MaxStates,      \* bound: OAuth states issued
          MaxTokens,      \* bound: codes exchanged
          MaxRestarts     \* bound: server restarts

ASSUME BoundsAreNaturals ==
    {MaxRequests, MaxStates, MaxTokens, MaxRestarts} \subseteq Nat

VARIABLES backend,        \* the registry this server process uses
          users,          \* backend -> name -> its user
          table,          \* name -> token in the table github_installations
          memory,         \* name -> token in the map gitHubInstallations
          states,         \* the state store: state -> is it expired?
          req,            \* requests in flight
          served, issued, tokens, restarts,      \* counters for the bounds
          passed,         \* history: state -> callbacks that passed with it
          granted,        \* history: names whose authorization was saved
          raced           \* history: names with callbacks that overlapped
vars == <<backend, users, table, memory, states, req, served, issued, tokens,
          restarts, passed, granted, raced>>

Backends == {"sqlite", "memory"}
NoUser == [id |-> "none", key |-> 0]
NoToken == 0
EnvToken == MaxTokens + 1
Idle == [step |-> "idle", name |-> CHOOSE n \in Names : TRUE, key |-> 0,
         token |-> NoToken, id |-> "none", sure |-> FALSE]
At(step, n, r) == [r EXCEPT !.step = step, !.name = n]

(* The installations in memory when a server starts: NewServer puts one    *)
(* there for the test user when GITHUB_TOKEN is set.                       *)
Injected(set) == [n \in Names |-> IF set /\ n = TestUser THEN EnvToken ELSE NoToken]

Init ==
    /\ backend \in Backends
    /\ users = [b \in Backends |-> [n \in Names |-> NoUser]]
    /\ table = [n \in Names |-> NoToken]
    /\ \E set \in BOOLEAN : memory = Injected(set)
    /\ states = << >>
    /\ req = [p \in Requests |-> Idle]
    /\ served = 0 /\ issued = 0 /\ tokens = 0 /\ restarts = 0
    /\ passed = [s \in 1..MaxStates |-> 0]
    /\ granted = {}
    /\ raced = {}

counters == <<served, issued, tokens, restarts>>
history == <<passed, granted, raced>>
stores == <<table, memory, states>>

User(n) == users[backend][n]

(* A SELECT may fail, and a failed one is taken for one without a row.     *)
NotFound(n) == User(n) = NoUser \/ backend = "sqlite"
Finish(p) == req' = [req EXCEPT ![p] = Idle]
Goto(p, step) == req' = [req EXCEPT ![p].step = step]

-----------------------------------------------------------------------------
(* Registering.  The map is overwritten; the table has UNIQUE names.       *)

(* Mutant of Registered: the row of a name that exists is replaced.        *)
RegisteredOver(n, user) == [users EXCEPT ![backend][n] = user]

Registered(n, user) ==
    IF backend = "memory" \/ User(n) = NoUser
    THEN [users EXCEPT ![backend][n] = user]
    ELSE users

Register(n, id, key) ==
    \/ users' = Registered(n, [id |-> id, key |-> key])
    \/ backend = "sqlite" /\ UNCHANGED users

(* POST /api/v1/users takes the identifier from the request, if it has one.*)
RegisterUser(n, id) ==
    /\ served < MaxRequests
    /\ served' = served + 1
    /\ Register(n, id, served')
    /\ UNCHANGED <<backend, stores, req, issued, tokens, restarts, history>>

DeleteUser(n) ==
    /\ User(n) # NoUser
    /\ users' = [users EXCEPT ![backend][n] = NoUser]
    /\ UNCHANGED <<backend, stores, req, counters, history>>

(* POST /api/v1/users/register-github: look the name up, then register.    *)
RegisterGitHub(p, n) ==
    /\ req[p] = Idle /\ served < MaxRequests
    /\ NotFound(n)
    /\ served' = served + 1
    /\ req' = [req EXCEPT ![p] = [At("register", n, Idle) EXCEPT !.key = served']]
    /\ UNCHANGED <<backend, users, stores, issued, tokens, restarts, history>>

FinishRegister(p) ==
    /\ req[p].step = "register"
    /\ Register(req[p].name, "generated", req[p].key)
    /\ Finish(p)
    /\ UNCHANGED <<backend, stores, counters, history>>

-----------------------------------------------------------------------------
(* OAuth.  State 0 stands for "workspace_creation", which the answer 401   *)
(* of a create request puts in its auth_url and nobody stores.             *)

GetOAuthURL ==
    /\ issued < MaxStates
    /\ issued' = issued + 1
    /\ states' = [s \in DOMAIN states \cup {issued'} |->
                     IF s = issued' THEN FALSE ELSE states[s]]
    /\ UNCHANGED <<backend, users, table, memory, req, served, tokens,
                   restarts, history>>

Expire(s) ==
    /\ s \in DOMAIN states /\ ~states[s]
    /\ states' = [states EXCEPT ![s] = TRUE]
    /\ UNCHANGED <<backend, users, table, memory, req, counters, history>>

CleanupExpired ==
    /\ \E s \in DOMAIN states : states[s]
    /\ states' = Restrict(states, {s \in DOMAIN states : ~states[s]})
    /\ UNCHANGED <<backend, users, table, memory, req, counters, history>>

Valid(s) == s \in DOMAIN states /\ ~states[s]

(* Mutant of Consume: a state that is valid is left in the store.          *)
ConsumeInvalid(s) == IF Valid(s) THEN states ELSE Restrict(states, DOMAIN states \ {s})

Consume(s) == Restrict(states, DOMAIN states \ {s})

CallbackSteps == {"exchange", "remember", "save", "lookup", "auto-register"}
Authorizing(n) == \E q \in Requests : req[q].name = n /\ req[q].step \in CallbackSteps

(* The browser of n comes back from GitHub with a code and a state, which  *)
(* is gone from here on, whatever becomes of the request.                  *)
Callback(p, n, s) ==
    /\ req[p] = Idle
    /\ states' = Consume(s)
    /\ IF Valid(s)
       THEN /\ req' = [req EXCEPT ![p] = At("exchange", n, Idle)]
            /\ passed' = [passed EXCEPT ![s] = @ + 1]
            /\ raced' = IF Authorizing(n) THEN raced \cup {n} ELSE raced
       ELSE UNCHANGED <<req, passed, raced>>
    /\ UNCHANGED <<backend, users, table, memory, counters, granted>>

Exchange(p) ==
    /\ req[p].step = "exchange"
    /\ \/ tokens < MaxTokens
          /\ tokens' = tokens + 1
          /\ req' = [req EXCEPT ![p].step = "remember", ![p].token = tokens']
       \/ UNCHANGED tokens /\ Finish(p)
    /\ UNCHANGED <<backend, users, stores, served, issued, restarts, history>>

StoreInMemory(p) ==
    /\ req[p].step = "remember"
    /\ memory' = [memory EXCEPT ![req[p].name] = req[p].token]
    /\ Goto(p, IF backend = "sqlite" THEN "save" ELSE "lookup")
    /\ UNCHANGED <<backend, users, table, states, counters, history>>

(* Mutant of Upserted: on a conflict nothing is done, as for the forks.    *)
UpsertedOnce(n, token) ==
    IF table[n] = NoToken THEN [table EXCEPT ![n] = token] ELSE table

Upserted(n, token) == [table EXCEPT ![n] = token]

(* The error of this is logged, and the callback succeeds all the same:    *)
(* then, as after callbacks that overlap, no more is asked of the copies.  *)
StoreInTable(p) ==
    LET n == req[p].name IN
    /\ req[p].step = "save"
    /\ \/ table' = Upserted(n, req[p].token)
          /\ req' = [req EXCEPT ![p].step = "lookup", ![p].sure = TRUE]
          /\ UNCHANGED raced
       \/ UNCHANGED table
          /\ Goto(p, "lookup")
          /\ raced' = raced \cup {n}
    /\ UNCHANGED <<backend, users, memory, states, counters, passed, granted>>

Answered(p) ==
    /\ Finish(p)
    /\ granted' = IF req[p].sure THEN granted \cup {req[p].name} ELSE granted

LookupUser(p) ==
    /\ req[p].step = "lookup"
    /\ \/ User(req[p].name) # NoUser /\ Answered(p)
       \/ NotFound(req[p].name) /\ Goto(p, "auto-register") /\ UNCHANGED granted
    /\ UNCHANGED <<backend, users, stores, counters, passed, raced>>

AutoRegister(p) ==
    /\ req[p].step = "auto-register"
    /\ Register(req[p].name, "login", 0)
    /\ Answered(p)
    /\ UNCHANGED <<backend, stores, counters, passed, raced>>

-----------------------------------------------------------------------------
(* POST /api/v1/workspaces up to the authorization; Provisioning has the   *)
(* rest.  SQLite finds an installation by the user's identifier, and the   *)
(* callback stored it under the name.  When the table cannot be read the   *)
(* answer is 401 as well, with another error in it: "unread".              *)

(* Mutant of Installation: SQLite's users are looked up in memory as well. *)
InstallationInMemory(n, id) == IF id = "login" THEN memory[n] ELSE NoToken

Installation(n, id) ==
    IF backend = "memory" THEN memory[n]
    ELSE IF id = "login" THEN table[n] ELSE NoToken

CreateWorkspace(p, n) ==
    /\ req[p] = Idle /\ served < MaxRequests
    /\ User(n) # NoUser
    /\ served' = served + 1
    /\ req' = [req EXCEPT ![p] =
                  [At("authorize", n, Idle) EXCEPT
                      !.id = User(n).id,
                      !.sure = backend = "sqlite" /\ n \in granted]]
    /\ UNCHANGED <<backend, users, stores, issued, tokens, restarts, history>>

Authorize(p) ==
    LET token == Installation(req[p].name, req[p].id) IN
    /\ req[p].step = "authorize"
    /\ \/ req' = [req EXCEPT ![p].step = IF token = NoToken THEN "refused" ELSE "accepted",
                             ![p].token = token]
       \/ backend = "sqlite" /\ Goto(p, "unread")
    /\ UNCHANGED <<backend, users, stores, counters, history>>

Answer(p) ==
    /\ req[p].step \in {"refused", "accepted", "unread"}
    /\ Finish(p)
    /\ UNCHANGED <<backend, users, stores, counters, history>>

-----------------------------------------------------------------------------
(* NewServer opens the file, or goes on in memory when it cannot.          *)
Restart ==
    /\ restarts < MaxRestarts
    /\ restarts' = restarts + 1
    /\ backend' \in Backends
    /\ users' = [users EXCEPT !["memory"] = [n \in Names |-> NoUser]]
    /\ \E set \in BOOLEAN : memory' = Injected(set)
    /\ states' = << >>
    /\ req' = [p \in Requests |-> Idle]
    /\ UNCHANGED <<table, served, issued, tokens, history>>

Next ==
    \/ \E n \in Names :
          \/ \E id \in {"login", "generated"} : RegisterUser(n, id)
          \/ DeleteUser(n)
          \/ \E p \in Requests :
                \/ RegisterGitHub(p, n)
                \/ CreateWorkspace(p, n)
                \/ \E s \in 0..issued : Callback(p, n, s)
    \/ \E p \in Requests :
          \/ FinishRegister(p)
          \/ Exchange(p) \/ StoreInMemory(p) \/ StoreInTable(p)
          \/ LookupUser(p) \/ AutoRegister(p)
          \/ Authorize(p) \/ Answer(p)
    \/ GetOAuthURL
    \/ \E s \in 1..MaxStates : Expire(s)
    \/ CleanupExpired
    \/ Restart

Spec == Init /\ [][Next]_vars

-----------------------------------------------------------------------------
(* A user in the database keeps its identifier and key until it is         *)
(* deleted, whatever registrations race: two register-github requests that *)
(* both found the name free, a POST, or a callback that registers the user *)
(* without a key (handlers_m4.go:190-206, handlers.go:733-748).            *)
RegisteredOnce ==
    [][\A n \in Names :
          LET was == users["sqlite"][n]  is == users'["sqlite"][n] IN
          was # NoUser /\ is # NoUser => is = was]_vars

(* An OAuth state lets at most one callback pass, also when two browsers   *)
(* come back with it at once, when it expires or when the server restarts  *)
(* (registry.go:370-382).                                                  *)
StatesSingleUse == \A s \in 1..MaxStates : passed[s] <= 1

(* When callbacks of one user do not overlap and none failed to save, the  *)
(* token kept in memory is the one in the table, so that a restart, after  *)
(* which create requests use the table, does not bring back an older one   *)
(* (handlers.go:717-731).  Only the test user's may be the one of the      *)
(* environment instead, until that user comes through a callback.          *)
CopiesAgree ==
    \A n \in Names :
        backend = "sqlite" /\ ~Authorizing(n) /\ n \notin raced
            => \/ memory[n] \in {NoToken, table[n]}
               \/ n = TestUser /\ memory[n] = EnvToken

(* A user known by its GitHub name whose authorization was answered and    *)
(* saved is never told that there is none: not after a restart, and not    *)
(* after the user was deleted and signed up anew (handlers_m4.go:245-269). *)
(* Such a user can still get a 401, when the table cannot be read.         *)
GrantedIsAccepted ==
    \A p \in Requests :
        req[p].step = "refused" /\ req[p].id = "login" => ~req[p].sure
=============================================================================
