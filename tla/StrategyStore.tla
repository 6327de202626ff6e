---------------------------- MODULE StrategyStore ----------------------------
(***************************************************************************)
(* service/strategy over the two repositories of storage/strategy: one     *)
(* screen strategy with its versions, and its screen runs.                 *)
(*                                                                         *)
(* The clients are calls under way, in one process or in several. A call   *)
(* takes a step where it reads or writes the database; between two of them *)
(* the other clients take theirs. An SQL transaction is two steps: what it *)
(* reads, and its commit with everything it writes (Postgres lets another  *)
(* commit come in between; SQLite does not, or fails the second). A        *)
(* MongoDB call is one step per document it reads or writes.               *)
(***************************************************************************)
EXTENDS Integers, Sequences, FiniteSets, TLC

CONSTANTS
  Backends,   \* which backends to look at: "sql", "mongo"
  Clients,    \* calls that may be under way at the same time
  Specs,      \* the contents a version may have
  JqSpecs,    \* those of them for the engine "jq"; the others are pipelines
  MaxVersions,\* bound: versions ever written
  MaxRuns,    \* bound: runs ever recorded
  MaxRows     \* bound: rows of a run

ASSUME StoreAssumption ==
  /\ Backends \subseteq {"sql", "mongo"}
  /\ JqSpecs \subseteq Specs
  /\ MaxVersions \in Nat /\ MaxRuns \in Nat /\ MaxRows \in Nat

EngineOf(spec) == IF spec \in JqSpecs THEN "jq" ELSE "yaml_pipeline"
Engines == {"jq", "yaml_pipeline"}

\* An id is never used again (UUIDv7).
Version == [id : 1..MaxVersions, number : Nat, spec : Specs]

Run == [version : 1..MaxVersions, spec : Specs, succeeded : BOOLEAN,
        count : 0..MaxRows, items : 0..MaxRows]

VARIABLES
  backend,
  versions,  \* the versions of the strategy in the order they were written
  active,    \* active_version_id
  engine,    \* the engine of the strategy
  archived,  \* archived_at is set
  revision,  \* of the MongoDB document; in SQL it counts nothing that matters
  minted,    \* the version ids in use
  runs,      \* the screen runs in the order they were written, with their items
  call,      \* what each client is doing, and what it has read for that
  acked,     \* history: the versions returned to a caller
  saved      \* history: the runs returned to a caller

strategyVars == <<versions, active, engine, archived, revision, minted>>
runVars      == <<runs, saved>>

vars == <<backend, strategyVars, runVars, call, acked>>

Idle == [at |-> "idle"]

Calls ==
  {Idle}
  \cup [at : {"create"}, spec : Specs]
  \cup [at : {"add", "inserting"}, spec : Specs, number : Nat]
  \cup [at : {"replacing"}, spec : Specs, number : Nat, versions : Seq(Version), revision : Nat]
  \cup [at : {"screen"}, version : 1..MaxVersions, spec : Specs, engine : Engines]
  \cup [at : {"items"}, run : 1..MaxRuns]

TypeOK ==
  /\ backend \in Backends
  /\ versions \in Seq(Version)
  /\ active \in 0..MaxVersions /\ minted \in 0..MaxVersions
  /\ engine \in Engines
  /\ archived \in BOOLEAN /\ revision \in Nat
  /\ runs \in Seq(Run)
  /\ call \in [Clients -> Calls]
  /\ acked \subseteq Version
  /\ saved \subseteq 1..MaxRuns

Init ==
  /\ backend \in Backends
  /\ versions = <<>> /\ active = 0 /\ engine = "jq"
  /\ archived = FALSE /\ revision = 0 /\ minted = 0
  /\ runs = <<>>
  /\ call = [c \in Clients |-> Idle]
  /\ acked = {} /\ saved = {}

-----------------------------------------------------------------------------
Goes(c, next) == call' = [call EXCEPT ![c] = next]

\* A read finds the strategy, by its name and archived_at.
Exists == versions # <<>> /\ ~archived

\* The number of the active version.
ActiveNumber == versions[CHOOSE i \in DOMAIN versions : versions[i].id = active].number

\* The versions that "latest", a number or the hash of a spec can name. MongoDB
\* takes the first that matches, SQL any row that does.
Readable(i) ==
  \/ versions[i].id = active
  \/ backend = "sql"
  \/ \A j \in 1..(i - 1) : versions[j].number # versions[i].number
  \/ \A j \in 1..(i - 1) : versions[j].spec # versions[i].spec

-----------------------------------------------------------------------------
(* Versions                                                                *)

\* Service.Create, for an engine of which it knows only "jq".
Create(c, spec) ==
  /\ call[c] = Idle /\ spec \in JqSpecs
  /\ Goes(c, [at |-> "create", spec |-> spec])
  /\ UNCHANGED <<backend, strategyVars, runVars, acked>>

\* Service.Upsert, as far as GetStrategy: it will create the strategy or add the
\* version after the one it sees.
Upsert(c, spec) ==
  /\ call[c] = Idle
  /\ IF Exists
     THEN Goes(c, [at |-> "add", spec |-> spec, number |-> ActiveNumber + 1])
     ELSE Goes(c, [at |-> "create", spec |-> spec])
  /\ UNCHANGED <<backend, strategyVars, runVars, acked>>

\* Service.Update, as far as GetStrategy: another query for a jq strategy.
Update(c, spec) ==
  /\ call[c] = Idle /\ spec \in JqSpecs
  /\ Exists /\ engine = "jq"
  /\ Goes(c, [at |-> "add", spec |-> spec, number |-> ActiveNumber + 1])
  /\ UNCHANGED <<backend, strategyVars, runVars, acked>>

NewVersion(n, spec) == [id |-> minted + 1, number |-> n, spec |-> spec]

\* Slip: the engine of the strategy stays what it was.
WritesVersionOnly(c, list) ==
  LET v == list[Len(list)] IN
  /\ minted < MaxVersions
  /\ minted' = minted + 1
  /\ versions' = list
  /\ active' = v.id
  /\ engine' = engine
  /\ acked' \in {acked, acked \cup {v}}
  /\ Goes(c, Idle)

\* The strategy now has `list` as versions, the last of them written now. The
\* answer may be lost although the write is done.
Writes(c, list) ==
  LET v == list[Len(list)] IN
  /\ minted < MaxVersions
  /\ minted' = minted + 1
  /\ versions' = list
  /\ active' = v.id
  /\ engine' = EngineOf(v.spec)
  /\ acked' \in {acked, acked \cup {v}}
  /\ Goes(c, Idle)

\* CreateStrategyWithVersion. The unique name leaves room for one strategy, and
\* an archived one still has it.
CreateStrategyWithVersion(c) ==
  /\ call[c].at = "create"
  /\ versions = <<>>
  /\ Writes(c, <<NewVersion(1, call[c].spec)>>)
  /\ revision' = revision + 1
  /\ UNCHANGED <<backend, archived, runVars>>

\* AddStrategyVersion reads the strategy; MongoDB all of it.
LoadStrategy(c) ==
  /\ call[c].at = "add" /\ Exists
  /\ LET spec == call[c].spec
         n    == call[c].number
     IN Goes(c, IF backend = "sql"
                THEN [at |-> "inserting", spec |-> spec, number |-> n]
                ELSE [at |-> "replacing", spec |-> spec, number |-> n,
                      versions |-> versions, revision |-> revision])
  /\ UNCHANGED <<backend, strategyVars, runVars, acked>>

\* Slip: the index on strategy and number is not unique.
CommitAnyVersion(c) ==
  /\ call[c].at = "inserting"
  /\ Writes(c, Append(versions, NewVersion(call[c].number, call[c].spec)))
  /\ UNCHANGED <<backend, archived, revision, runVars>>

\* The SQL transaction of AddStrategyVersion commits: the version, by the unique
\* index one of its number, and the strategy, by its id.
CommitVersion(c) ==
  /\ call[c].at = "inserting"
  /\ \A i \in DOMAIN versions : versions[i].number # call[c].number
  /\ Writes(c, Append(versions, NewVersion(call[c].number, call[c].spec)))
  /\ UNCHANGED <<backend, archived, revision, runVars>>

\* Slip: the document is replaced by its _id alone.
ReplaceAnyRevision(c) ==
  /\ call[c].at = "replacing"
  /\ Writes(c, Append(call[c].versions, NewVersion(call[c].number, call[c].spec)))
  /\ archived' = FALSE
  /\ revision' = call[c].revision + 1
  /\ UNCHANGED <<backend, runVars>>

\* ReplaceOne, if the document still has the revision that was read.
ReplaceDocument(c) ==
  /\ call[c].at = "replacing"
  /\ revision = call[c].revision
  /\ Writes(c, Append(call[c].versions, NewVersion(call[c].number, call[c].spec)))
  /\ archived' = FALSE
  /\ revision' = call[c].revision + 1
  /\ UNCHANGED <<backend, runVars>>

\* Slip: the revision of an archived document stays.
ArchiveInPlace ==
  /\ Exists
  /\ archived' = TRUE
  /\ UNCHANGED <<backend, versions, active, engine, revision, minted, runVars, call, acked>>

\* Service.Delete, one statement in either backend.
ArchiveStrategy ==
  /\ Exists
  /\ archived' = TRUE
  /\ revision' = revision + 1
  /\ UNCHANGED <<backend, versions, active, engine, minted, runVars, call, acked>>

-----------------------------------------------------------------------------
(* Screen runs                                                             *)

\* Service.Screen reads a version, and the strategy it belongs to.
Screen(c) ==
  /\ call[c] = Idle /\ Exists
  /\ \E i \in DOMAIN versions :
       /\ Readable(i)
       /\ Goes(c, [at |-> "screen", version |-> versions[i].id,
                   spec |-> versions[i].spec, engine |-> engine])
  /\ UNCHANGED <<backend, strategyVars, runVars, acked>>

\* The run of what was read: its rows, or none if it failed, as it must when the
\* strategy has left the engine the version was written for.
Executed(c, run) ==
  /\ run.version = call[c].version /\ run.spec = call[c].spec
  /\ run.succeeded => EngineOf(run.spec) = call[c].engine
  /\ ~run.succeeded => run.count = 0
  /\ run.items = IF backend = "sql" THEN run.count ELSE 0

\* A run returns to its caller, unless the answer is lost.
Returns(c, r) ==
  /\ saved' \in {saved, saved \cup {r}}
  /\ Goes(c, Idle)

\* CreateScreenRun, for the run of a strategy that worked and of one that
\* failed: in SQL one transaction with all items, in MongoDB the run first. (That
\* its alias may be taken is one of the refusals of Fail.)
CreateScreenRun(c) ==
  /\ call[c].at = "screen"
  /\ Len(runs) < MaxRuns
  /\ \E run \in Run :
       /\ Executed(c, run)
       /\ runs' = Append(runs, run)
       /\ IF run.items = run.count
          THEN Returns(c, Len(runs'))
          ELSE Goes(c, [at |-> "items", run |-> Len(runs')]) /\ UNCHANGED saved
  /\ UNCHANGED <<backend, strategyVars, acked>>

\* Slip: an item that cannot be written is passed over, and the run returned.
SkipItem(c) ==
  /\ call[c].at = "items"
  /\ UNCHANGED runs
  /\ Returns(c, call[c].run)
  /\ UNCHANGED <<backend, strategyVars, acked>>

\* MongoDB: the next item of the run; after the last one the run is returned.
InsertItem(c) ==
  /\ call[c].at = "items"
  /\ LET r == call[c].run IN
     /\ runs' = [runs EXCEPT ![r].items = @ + 1]
     /\ IF runs'[r].items = runs[r].count
        THEN Returns(c, r)
        ELSE UNCHANGED <<saved, call>>
  /\ UNCHANGED <<backend, strategyVars, acked>>

\* A call ends before its next step: the database refuses or is out of reach,
\* the context is cancelled, the process dies. What it wrote stays, but for an
\* open transaction.
Fail(c) ==
  /\ call[c] # Idle
  /\ Goes(c, Idle)
  /\ UNCHANGED <<backend, strategyVars, runVars, acked>>

-----------------------------------------------------------------------------
ClientStep(c) ==
  \/ \E spec \in Specs : Create(c, spec) \/ Upsert(c, spec) \/ Update(c, spec)
  \/ CreateStrategyWithVersion(c)
  \/ LoadStrategy(c) \/ CommitVersion(c) \/ ReplaceDocument(c)
  \/ Screen(c) \/ CreateScreenRun(c) \/ InsertItem(c)
  \/ Fail(c)

Next == ArchiveStrategy \/ \E c \in Clients : ClientStep(c)

Spec == Init /\ [][Next]_vars

\* Clients are interchangeable; the properties are safety properties.
Symmetry == Permutations(Clients)

-----------------------------------------------------------------------------
\* What was returned to a caller stays as it was returned: no write of a stale
\* document takes a version away or changes it (AddStrategyVersion).
NoVersionLost ==
  \A v \in acked : \E i \in DOMAIN versions : versions[i] = v

\* The versions of a strategy in SQL are numbered 1, 2, 3 in the order in which
\* they were written, and the last one is active, although the number comes from
\* a read outside of the transaction (Upsert, Update).
NumberedInOrder ==
  backend = "sql" =>
    \A i \in DOMAIN versions : versions[i].number = i /\ (active = versions[i].id <=> i = Len(versions))

\* The engine by which a strategy is executed is the one its active version was
\* written for, whoever else changes it meanwhile (executeStrategyVersion).
EngineOfActive ==
  \A i \in DOMAIN versions : versions[i].id = active => engine = EngineOf(versions[i].spec)

\* A run that was returned to its caller has all its rows; in SQL every run does.
\* In MongoDB a run whose call is under way, failed or died may lack its last ones
\* (CreateScreenRun).
ReturnedRunsAreWhole ==
  \A r \in DOMAIN runs :
    (r \in saved \/ backend = "sql") => runs[r].items = runs[r].count

-----------------------------------------------------------------------------
Place(id) ==
  IF \E i \in DOMAIN versions : versions[i].id = id
  THEN CHOOSE i \in DOMAIN versions : versions[i].id = id
  ELSE 0

Promise == INSTANCE StrategyPromise WITH
  history <- [i \in DOMAIN versions |-> versions[i].spec],
  current <- Place(active),
  gone    <- archived,
  runs    <- [r \in DOMAIN runs |->
               [of |-> Place(runs[r].version), spec |-> runs[r].spec,
                rows |-> runs[r].count, stored |-> runs[r].items]]

\* Whatever calls meet, and wherever one of them ends, either backend keeps what
\* the service promises: versions are added at the end, one at a time, and none is
\* changed; a deleted strategy does not come back, not even by a document read
\* before; a run names the version it executed, and its rows only grow (Repository).
KeepsPromise == Promise!Spec
=============================================================================
