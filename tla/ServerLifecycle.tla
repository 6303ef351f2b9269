-------------------------- MODULE ServerLifecycle --------------------------
(***************************************************************************)
(* The server process from its start to its end (cmd/server/main.go):      *)
(* migrations, the seeding of the admin account (store/seed.go), serving,  *)
(* and shutting down; and a client that logs in with the seeded key        *)
(* (server/auth.go, store/user.go, Query.viewer).                          *)
(*                                                                         *)
(* Several servers share a database and may start at the same time.  What  *)
(* fails while a server starts ends the process (log.Fatal), and whoever   *)
(* runs it starts it again.                                                *)
(***************************************************************************)
EXTENDS Naturals, FiniteSets

CONSTANTS
    Servers,        \* the server processes
    Clients,        \* the logins that may run at the same time
    NoServer,       \* the server of a login that is not under way
    Objects,        \* the number of tables, and of indexes made by themselves
    Indexes,        \* which of them are such indexes, each after its table
    MaxFailures,    \* bound: statements that fail
    MaxDeaths       \* bound: deaths, signals and timeouts

ASSUME LifecycleAssumption ==
    /\ NoServer \notin Servers
    /\ Objects \in Nat \ {0}
    /\ {MaxFailures, MaxDeaths} \subseteq Nat

VARIABLES
    made,       \* the objects of the schema that exist: the first ones, so many
    seed,       \* the rows of the seed that exist
    keys,       \* the number of api_keys rows
    phase,      \* per server: what it does next
    place,      \* per server: the object its AutoMigrate has come to
    call,       \* per client: its server and the statement it waits for
    outcome,    \* per client: what its last login was answered
    cut,        \* history: a seeding has ended half-way
    unready,    \* history: the clients whose login began before the seed was done
    failures, deaths

database  == <<made, seed, keys>>
lifecycle == <<database, phase, place, call, outcome, cut, unready, failures, deaths>>

Seeding == {"entity", "link", "key"}     \* the user is inserted
Phases  == {"down", "schema", "migrate", "count", "user", "open", "serving", "draining"} \cup Seeding
Idle    == [server |-> NoServer, step |-> "idle"]

CallsAt(s) == {k \in Clients : call[k].server = s}
Seeded     == seed = {"user", "entity", "link"} /\ keys > 0

Works == UNCHANGED failures
Errs  == failures < MaxFailures /\ failures' = failures + 1
Dies  == deaths < MaxDeaths /\ deaths' = deaths + 1

Enter(s, step) == phase' = [phase EXCEPT ![s] = step] /\ UNCHANGED <<place, cut>>

\* AutoMigrate takes the next object of the schema, if there is one.
Advance(s, step) ==
    /\ phase' = [phase EXCEPT ![s] = IF place[s] = Objects THEN "count" ELSE step]
    /\ place' = [place EXCEPT ![s] = IF place[s] = Objects THEN 1 ELSE place[s] + 1]
    /\ UNCHANGED cut

\* The process ends; a seeding it was in stays as it is.
End(s) ==
    /\ phase' = [phase EXCEPT ![s] = "down"] /\ place' = [place EXCEPT ![s] = 1]
    /\ cut' = (cut \/ phase[s] \in Seeding)

\* The logins a process was executing get no answer.
CutOff(s) ==
    /\ call' = [k \in Clients |-> IF k \in CallsAt(s) THEN Idle ELSE call[k]]
    /\ outcome' = [k \in Clients |-> IF k \in CallsAt(s) THEN "cut off" ELSE outcome[k]]

ServerInit ==
    /\ made = 0 /\ seed = {} /\ keys = 0
    /\ phase = [s \in Servers |-> "down"]
    /\ place = [s \in Servers |-> 1]
    /\ call = [k \in Clients |-> Idle]
    /\ outcome = [k \in Clients |-> "none"]
    /\ cut = FALSE /\ unready = {}
    /\ failures = 0 /\ deaths = 0

(***************************************************************************)
(* Start.                                                                  *)
(***************************************************************************)
Start(s) ==
    /\ phase[s] = "down" /\ Enter(s, "schema")
    /\ UNCHANGED <<database, call, outcome, unready, failures, deaths>>

\* AutoMigrate takes tables and indexes one by one, and looks whether the one
\* it has come to is there ...
Schema(s) ==
    /\ phase[s] = "schema"
    /\ \/ Works /\ place[s] <= made /\ Advance(s, "schema")
       \/ Works /\ place[s] > made /\ Enter(s, "migrate")
       \/ Errs /\ End(s)
    /\ UNCHANGED <<database, call, outcome, unready, deaths>>

\* ... and creates it if not: an error, if it is there by then.  The indexes
\* of a table that was just created are created without a look.
Migrate(s) ==
    /\ phase[s] = "migrate"
    /\ \/ /\ Works /\ place[s] > made /\ made' = place[s]
          /\ Advance(s, IF place[s] + 1 \in Indexes THEN "migrate" ELSE "schema")
       \/ Works /\ place[s] <= made /\ End(s) /\ UNCHANGED made
       \/ Errs /\ End(s) /\ UNCHANGED made
    /\ UNCHANGED <<seed, keys, call, outcome, unready, deaths>>

\* Fault seeded for AllServe: an account that is there is an error.
CountOrFail(s) ==
    /\ phase[s] = "count" /\ Works
    /\ IF "user" \in seed THEN End(s) ELSE Enter(s, "user")
    /\ UNCHANGED <<database, call, outcome, unready, deaths>>

\* The error of the COUNT is dropped, and the count is 0.
Count(s) ==
    /\ phase[s] = "count"
    /\ \/ Works /\ Enter(s, IF "user" \in seed THEN "open" ELSE "user")
       \/ Errs /\ Enter(s, "user")
    /\ UNCHANGED <<database, call, outcome, unready, deaths>>

\* Fault seeded for SeededOnce: a user that is there is found instead
\* (FirstOrCreate), and the seeding goes on.
FindUser(s) ==
    /\ phase[s] = "user" /\ Works
    /\ seed' = seed \cup {"user"} /\ Enter(s, "entity")
    /\ UNCHANGED <<made, keys, call, outcome, unready, deaths>>

\* The names of users are unique: of two servers one ends here.
InsertUser(s) ==
    /\ phase[s] = "user"
    /\ \/ Works /\ "user" \notin seed /\ seed' = seed \cup {"user"} /\ Enter(s, "entity")
       \/ Works /\ "user" \in seed /\ End(s) /\ UNCHANGED seed
       \/ Errs /\ End(s) /\ UNCHANGED seed
    /\ UNCHANGED <<made, keys, call, outcome, unready, deaths>>

InsertEntity(s) ==
    /\ phase[s] = "entity"
    /\ \/ Works /\ seed' = seed \cup {"entity"} /\ Enter(s, "link")
       \/ Errs /\ End(s) /\ UNCHANGED seed
    /\ UNCHANGED <<made, keys, call, outcome, unready, deaths>>

\* UPDATE of default_entity_id.
Link(s) ==
    /\ phase[s] = "link"
    /\ \/ Works /\ seed' = seed \cup {"link"} /\ Enter(s, "key")
       \/ Errs /\ End(s) /\ UNCHANGED seed
    /\ UNCHANGED <<made, keys, call, outcome, unready, deaths>>

InsertKey(s) ==
    /\ phase[s] = "key"
    /\ \/ Works /\ keys' = keys + 1 /\ Enter(s, "open")
       \/ Errs /\ End(s) /\ UNCHANGED keys
    /\ UNCHANGED <<made, seed, call, outcome, unready, deaths>>

\* The storage directory and the port.
Open(s) ==
    /\ phase[s] = "open"
    /\ \/ Works /\ Enter(s, "serving")
       \/ Errs /\ End(s)
    /\ UNCHANGED <<database, call, outcome, unready, deaths>>

(***************************************************************************)
(* The end.                                                                *)
(***************************************************************************)
Signal(s) ==
    /\ phase[s] = "serving" /\ Dies
    /\ Enter(s, "draining")
    /\ UNCHANGED <<database, call, outcome, unready, failures>>

\* Shutdown waits for the requests that are being executed ...
Drained(s) ==
    /\ phase[s] = "draining" /\ CallsAt(s) = {}
    /\ End(s)
    /\ UNCHANGED <<database, call, outcome, unready, failures, deaths>>

\* ... for ten seconds.  A process that dies, or gets a signal before it
\* serves, ends likewise.
Die(s) ==
    /\ phase[s] # "down" /\ Dies
    /\ End(s) /\ CutOff(s)
    /\ UNCHANGED <<database, unready, failures>>

(***************************************************************************)
(* A login: POST /graphql with the seeded key, for the viewer.             *)
(***************************************************************************)
\* Fault seeded for ShutdownEnds: the listener stays open.
LoginWhileDraining(k, s) ==
    /\ call[k].step = "idle" /\ phase[s] \in {"serving", "draining"}
    /\ call' = [call EXCEPT ![k] = [server |-> s, step |-> "auth"]]
    /\ outcome' = [outcome EXCEPT ![k] = "none"]
    /\ unready' = IF Seeded THEN unready \ {k} ELSE unready \cup {k}
    /\ UNCHANGED <<database, phase, place, cut, failures, deaths>>

\* A server that shuts down accepts no new request.
Login(k, s) ==
    /\ call[k].step = "idle" /\ phase[s] = "serving"
    /\ call' = [call EXCEPT ![k] = [server |-> s, step |-> "auth"]]
    /\ outcome' = [outcome EXCEPT ![k] = "none"]
    /\ unready' = IF Seeded THEN unready \ {k} ELSE unready \cup {k}
    /\ UNCHANGED <<database, phase, place, cut, failures, deaths>>

Answer(k, res) == call' = [call EXCEPT ![k] = Idle] /\ outcome' = [outcome EXCEPT ![k] = res]

\* The key and its user; any error is "Unauthorized".
Auth(k) ==
    /\ call[k].step = "auth"
    /\ \/ Works /\ keys > 0 /\ call' = [call EXCEPT ![k].step = "viewer"] /\ UNCHANGED outcome
       \/ Works /\ keys = 0 /\ Answer(k, "unauthorized")
       \/ Errs /\ Answer(k, "unauthorized")
    /\ UNCHANGED <<database, phase, place, cut, unready, deaths>>

\* The user and its default entity.  (The key is seeded last, so the link
\* is there.)
Viewer(k) ==
    /\ call[k].step = "viewer"
    /\ \/ Works /\ Answer(k, IF "link" \in seed THEN "ok" ELSE "error")
       \/ Errs /\ Answer(k, "error")
    /\ UNCHANGED <<database, phase, place, cut, unready, deaths>>

Run(s) ==
    \/ Start(s) \/ Schema(s) \/ Migrate(s)
    \/ Count(s) \/ InsertUser(s) \/ InsertEntity(s) \/ Link(s) \/ InsertKey(s)
    \/ Open(s) \/ Drained(s)

Handle(k) == Auth(k) \/ Viewer(k)

ServerNext ==
    \/ \E s \in Servers : Run(s) \/ Signal(s) \/ Die(s)
    \/ \E k \in Clients : Handle(k) \/ \E s \in Servers : Login(k, s)

\* A process is started again, and neither it nor a handler stops half-way.
Fairness ==
    /\ \A s \in Servers : WF_lifecycle(Run(s))
    /\ \A k \in Clients : WF_lifecycle(Handle(k))

ServerSpec == ServerInit /\ [][ServerNext]_lifecycle /\ Fairness

(***************************************************************************)
(* Properties.                                                             *)
(***************************************************************************)
\* The database, the program counters and the calls have their types.
ServerTypes ==
    /\ made \in 0..Objects /\ seed \subseteq {"user", "entity", "link"} /\ keys \in Nat
    /\ phase \in [Servers -> Phases] /\ place \in [Servers -> 1..Objects]
    /\ call \in [Clients -> [server: Servers, step: {"auth", "viewer"}] \cup {Idle}]
    /\ outcome \in [Clients -> {"none", "ok", "unauthorized", "error", "cut off"}]
    /\ cut \in BOOLEAN /\ unready \subseteq Clients
    /\ failures \in 0..MaxFailures /\ deaths \in 0..MaxDeaths

\* However migrations are cut off, repeated, or run into each other: none skips
\* a table or an index, and none ends before the last one is there.
SchemaReady ==
    \A s \in Servers :
        /\ place[s] <= made + 1
        /\ phase[s] \notin {"down", "schema", "migrate"} => made = Objects

\* However many servers start at the same time or again, one of them seeds:
\* there is never a second key, and no key before the rest of the account.
SeededOnce ==
    /\ keys <= 1 /\ Cardinality({s \in Servers : phase[s] \in Seeding}) <= 1
    /\ keys = 1 => Seeded /\ ~\E s \in Servers : phase[s] \in Seeding

\* While no server is seeding, a server that serves has the account, its
\* entity and its key, unless some seeding was cut off.
KeyWorks ==
    (\E s \in Servers : phase[s] = "serving") =>
        Seeded \/ cut \/ \E s \in Servers : phase[s] \in Seeding

\* Without failing statements, a login with the seeded key is refused only
\* if it began while another server was seeding, or after a seeding that was
\* cut off; never once the seed is complete, whatever starts or ends since.
LoginExplained ==
    \A k \in Clients :
        /\ outcome[k] \in {"unauthorized", "error"} /\ failures = 0 =>
              k \in unready /\ (cut \/ Seeded \/ \E s \in Servers : phase[s] \in Seeding)
        /\ outcome[k] = "error" => failures > 0

\* The schema is complete, the account is seeded once, and its key opens every server from then on.
SeedHolds == ServerTypes /\ SchemaReady /\ SeededOnce /\ KeyWorks /\ LoginExplained

\* A server that is told to stop does stop: the logins it waits for end, and
\* no new ones keep it waiting.
ShutdownEnds == \A s \in Servers : phase[s] = "draining" ~> phase[s] = "down"

\* Once nothing fails any more, every server comes to serve and stays, also
\* those that lost a race for the tables or the account, and those that find
\* a seeding that was cut off.
AllServe == <>[](\A s \in Servers : phase[s] = "serving")

\* SeedDefaults: "creates a default admin user, entity, and API key if they
\* don't already exist.  This is idempotent - safe to call on every startup."
SeedHeals ==
    (\E s \in Servers : phase[s] = "serving") /\ (\A s \in Servers : phase[s] \notin Seeding) => Seeded
=============================================================================
