------------------------- MODULE StrategyStoreProofs -------------------------
(***************************************************************************)
(* Theorems about StrategyStore for any number of callers, versions and    *)
(* runs. What carries them: a MongoDB document with the revision somebody  *)
(* has read is the document he has read (Documents), a number read in SQL  *)
(* is at most the next one (Numbers), every write of a version is an       *)
(* addition at the end (WriteIsAppend), and what a screen call has read is *)
(* a version for good (Screens).                                           *)
(***************************************************************************)
EXTENDS StrategyStore, SequenceTheorems, TLAPS

Last == versions[Len(versions)]

\* Ids grow along the versions, and the last one is active.
Chain ==
  /\ \A i \in DOMAIN versions : versions[i].id <= minted
  /\ \A i, j \in DOMAIN versions : i < j => versions[i].id < versions[j].id
  /\ versions # <<>> => active = Last.id /\ engine = EngineOf(Last.spec)

Numbers ==
  backend = "sql" =>
    /\ \A i \in DOMAIN versions : versions[i].number = i
    /\ \A c \in Clients :
         call[c].at \in {"add", "inserting"} => call[c].number \in 1..(Len(versions) + 1)

Documents ==
  \A c \in Clients :
    /\ call[c].at = "inserting" => backend = "sql"
    /\ call[c].at = "replacing" =>
         /\ backend = "mongo" /\ versions # <<>>
         /\ call[c].revision <= revision
         /\ call[c].revision = revision => call[c].versions = versions /\ ~archived

\* A version of this id and spec is there.
Known(id, spec) == \E i \in DOMAIN versions : versions[i].id = id /\ versions[i].spec = spec

Screens ==
  /\ \A c \in Clients : call[c].at = "screen" => Known(call[c].version, call[c].spec)
  /\ \A r \in DOMAIN runs : Known(runs[r].version, runs[r].spec)

\* A run that lacks items is the business of one call at most.
Items ==
  /\ saved \subseteq DOMAIN runs
  /\ \A r \in DOMAIN runs : (r \in saved \/ backend = "sql") => runs[r].items = runs[r].count
  /\ \A c \in Clients : call[c].at = "items" =>
       /\ backend = "mongo"
       /\ call[c].run \in DOMAIN runs \ saved
       /\ runs[call[c].run].items < runs[call[c].run].count
  /\ \A c, d \in Clients :
       call[c].at = "items" /\ call[d].at = "items" /\ call[c].run = call[d].run => c = d

IInv == TypeOK /\ NoVersionLost /\ Chain /\ Numbers /\ Documents /\ Screens /\ Items

-----------------------------------------------------------------------------
\* What a call carries at each of its places.
LEMMA CallFields ==
  ASSUME NEW x \in Calls
  PROVE  /\ x.at \in {"create", "add", "inserting", "replacing", "screen"} => x.spec \in Specs
         /\ x.at \in {"add", "inserting", "replacing"} => x.number \in Nat
         /\ x.at = "replacing" => x.versions \in Seq(Version) /\ x.revision \in Nat
         /\ x.at = "screen" => x.version \in 1..MaxVersions /\ x.engine \in Engines
         /\ x.at = "items" => x.run \in 1..MaxRuns
<1>1. CASE x = Idle
  BY <1>1 DEF Idle
<1>2. CASE x \in [at : {"create"}, spec : Specs]
  BY <1>2
<1>3. CASE x \in [at : {"add", "inserting"}, spec : Specs, number : Nat]
  BY <1>3
<1>4. CASE x \in [at : {"replacing"}, spec : Specs, number : Nat, versions : Seq(Version), revision : Nat]
  BY <1>4
<1>5. CASE x \in [at : {"screen"}, version : 1..MaxVersions, spec : Specs, engine : Engines]
  BY <1>5
<1>6. CASE x \in [at : {"items"}, run : 1..MaxRuns]
  BY <1>6
<1>. QED BY <1>1, <1>2, <1>3, <1>4, <1>5, <1>6 DEF Calls

\* A spec has an engine.
LEMMA EngineType == ASSUME NEW spec PROVE EngineOf(spec) \in Engines
BY DEF EngineOf, Engines

\* The invariant holds at first.
LEMMA InitIInv == Init => IInv
<1>. SUFFICES ASSUME Init PROVE IInv
  OBVIOUS
<1>. USE DEF Init
<1>1. Idle \in Calls /\ "jq" \in Engines /\ <<>> \in Seq(Version) /\ <<>> \in Seq(Run)
  BY DEF Calls, Engines
<1>2. TypeOK
  <2>1. 0 \in 0..MaxVersions /\ 0 \in Nat /\ call \in [Clients -> Calls]
    BY <1>1, StoreAssumption
  <2>. QED BY <1>1, <2>1 DEF TypeOK
<1>3. NoVersionLost /\ Chain /\ Numbers /\ Documents /\ Screens /\ Items
  BY DEF NoVersionLost, Chain, Numbers, Documents, Screens, Items, Idle
<1>. QED BY <1>2, <1>3 DEF IInv

-----------------------------------------------------------------------------
(* Versions                                                                *)

\* The active version is the last one, for whoever reads.
LEMMA ActiveIsLast ==
  ASSUME IInv, versions # <<>>
  PROVE  /\ Len(versions) \in DOMAIN versions
         /\ Last \in Version
         /\ ActiveNumber = Last.number
         /\ \A i \in DOMAIN versions : active = versions[i].id <=> i = Len(versions)
<1>1. versions \in Seq(Version) /\ Len(versions) \in DOMAIN versions /\ Last \in Version
  BY DEF IInv, TypeOK, Last
<1>2. \A i \in DOMAIN versions : versions[i].id \in Nat
  <2>1. \A i \in DOMAIN versions : versions[i] \in Version
    BY <1>1
  <2>2. \A v \in Version : v.id \in Nat
    BY StoreAssumption DEF Version
  <2>. QED BY <2>1, <2>2
<1>3. \A i \in DOMAIN versions : active = versions[i].id <=> i = Len(versions)
  BY <1>1, <1>2 DEF IInv, Chain, Last
<1>. QED BY <1>1, <1>3 DEF ActiveNumber, Last

\* What holds of one call, to look at the one that goes on.
CallOK(x) ==
  /\ backend = "sql" /\ x.at \in {"add", "inserting"} => x.number \in 1..(Len(versions) + 1)
  /\ x.at = "inserting" => backend = "sql"
  /\ x.at = "replacing" =>
       /\ backend = "mongo" /\ versions # <<>>
       /\ x.revision <= revision
       /\ x.revision = revision => x.versions = versions /\ ~archived
  /\ x.at = "screen" => Known(x.version, x.spec)

\* What the invariant says of one call.
LEMMA CallsAre ==
  ASSUME IInv, NEW c \in Clients
  PROVE  call[c] \in Calls /\ CallOK(call[c])
BY DEF IInv, TypeOK, CallOK, Numbers, Documents, Screens

\* A step that touches none of the tables.
LEMMA CallOnlyStep ==
  ASSUME IInv, UNCHANGED <<backend, strategyVars, runVars, acked>>,
         NEW c \in Clients, NEW next \in Calls, Goes(c, next), CallOK(next), next.at # "items"
  PROVE  IInv'
<1>. USE DEF strategyVars, runVars
<1>1. \A d \in Clients : call'[d] = IF d = c THEN next ELSE call[d]
  BY DEF IInv, TypeOK, Goes
<1>2. TypeOK'
  BY DEF IInv, TypeOK, Goes
<1>3. NoVersionLost' /\ Chain'
  BY DEF IInv, NoVersionLost, Chain, Last
<1>4. Numbers'
  BY <1>1 DEF IInv, Numbers, CallOK
<1>5. Documents'
  BY <1>1 DEF IInv, Documents, CallOK
<1>6. Screens'
  BY <1>1 DEF IInv, Screens, CallOK, Known
<1>7. Items'
  BY <1>1 DEF IInv, Items
<1>. QED BY <1>2, <1>3, <1>4, <1>5, <1>6, <1>7 DEF IInv

\* A call that reads the strategy first keeps the invariant,
LEMMA ReadSteps ==
  ASSUME IInv, NEW c \in Clients, NEW spec \in Specs,
         Create(c, spec) \/ Upsert(c, spec) \/ Update(c, spec)
  PROVE  IInv'
<1>1. ASSUME Goes(c, [at |-> "create", spec |-> spec]),
             UNCHANGED <<backend, strategyVars, runVars, acked>>
      PROVE  IInv'
  <2>. DEFINE next == [at |-> "create", spec |-> spec]
  <2>1. next \in Calls /\ CallOK(next) /\ next.at # "items"
    BY DEF Calls, CallOK
  <2>. QED BY <1>1, <2>1, CallOnlyStep
<1>2. ASSUME Exists, Goes(c, [at |-> "add", spec |-> spec, number |-> ActiveNumber + 1]),
             UNCHANGED <<backend, strategyVars, runVars, acked>>
      PROVE  IInv'
  <2>. DEFINE next == [at |-> "add", spec |-> spec, number |-> ActiveNumber + 1]
  <2>1. Last \in Version /\ ActiveNumber = Last.number /\ Len(versions) \in DOMAIN versions
    BY <1>2, ActiveIsLast DEF Exists
  <2>2. ActiveNumber \in Nat /\ Len(versions) \in Nat
    BY <2>1 DEF Version, IInv, TypeOK
  <2>3. backend = "sql" => ActiveNumber = Len(versions)
    BY <2>1 DEF IInv, Numbers, Last
  <2>4. next \in Calls
    BY <2>2 DEF Calls
  <2>5. CallOK(next) /\ next.at # "items"
    BY <2>2, <2>3 DEF CallOK
  <2>. QED BY <1>2, <2>4, <2>5, CallOnlyStep
<1>. QED BY <1>1, <1>2 DEF Create, Upsert, Update

\* so does the read before a write,
LEMMA LoadStrategyStep ==
  ASSUME IInv, NEW c \in Clients, LoadStrategy(c)
  PROVE  IInv'
<1>. DEFINE x    == call[c]
            next == IF backend = "sql"
                    THEN [at |-> "inserting", spec |-> x.spec, number |-> x.number]
                    ELSE [at |-> "replacing", spec |-> x.spec, number |-> x.number,
                          versions |-> versions, revision |-> revision]
<1>1. x.at = "add" /\ x.spec \in Specs /\ x.number \in Nat /\ CallOK(x) /\ Exists
  BY CallsAre, CallFields DEF LoadStrategy
<1>2. versions \in Seq(Version) /\ revision \in Nat /\ backend \in {"sql", "mongo"}
  BY StoreAssumption DEF IInv, TypeOK
<1>3. CASE backend = "sql"
  <2>1. next \in Calls /\ CallOK(next) /\ next.at # "items"
    BY <1>1, <1>3 DEF Calls, CallOK
  <2>. QED BY <2>1, <1>3, CallOnlyStep DEF LoadStrategy
<1>4. CASE backend = "mongo"
  <2>1. next \in Calls /\ CallOK(next) /\ next.at # "items"
    BY <1>1, <1>2, <1>4 DEF Calls, CallOK, Exists
  <2>. QED BY <2>1, <1>4, CallOnlyStep DEF LoadStrategy
<1>. QED BY <1>2, <1>3, <1>4

\* the start of a screen run and the end of any call.
LEMMA ScreenAndFailSteps ==
  ASSUME IInv, NEW c \in Clients, Screen(c) \/ Fail(c)
  PROVE  IInv'
<1>1. ASSUME Screen(c) PROVE IInv'
  <2>1. PICK i \in DOMAIN versions :
          Goes(c, [at |-> "screen", version |-> versions[i].id, spec |-> versions[i].spec,
                   engine |-> engine])
    BY <1>1 DEF Screen
  <2>. DEFINE next == [at |-> "screen", version |-> versions[i].id, spec |-> versions[i].spec,
                       engine |-> engine]
  <2>2. versions[i] \in Version /\ engine \in Engines
    BY DEF IInv, TypeOK
  <2>3. next \in Calls
    BY <2>2 DEF Calls, Version
  <2>4. CallOK(next) /\ next.at # "items"
    BY DEF CallOK, Known
  <2>. QED BY <1>1, <2>1, <2>3, <2>4, CallOnlyStep DEF Screen
<1>2. ASSUME Fail(c) PROVE IInv'
  <2>1. Idle \in Calls /\ CallOK(Idle) /\ Idle.at # "items"
    BY DEF Calls, CallOK, Idle
  <2>. QED BY <1>2, <2>1, CallOnlyStep DEF Fail
<1>. QED BY <1>1, <1>2

\* Version v is added at the end by client c.
Adds(c, v) ==
  /\ versions' = Append(versions, v)
  /\ v.id = minted + 1 /\ minted' = v.id
  /\ active' = v.id /\ engine' = EngineOf(v.spec)
  /\ acked' \in {acked, acked \cup {v}}
  /\ call' = [call EXCEPT ![c] = Idle]
  /\ revision' \in Nat /\ revision <= revision'
  /\ backend = "mongo" => revision < revision'
  /\ backend = "sql" => v.number = Len(versions) + 1
  /\ UNCHANGED <<backend, archived, runVars>>

\* Each of the three writes of a version adds one behind the others (AddStrategyVersion) ...
LEMMA WriteIsAppend ==
  ASSUME IInv, NEW c \in Clients,
         CreateStrategyWithVersion(c) \/ CommitVersion(c) \/ ReplaceDocument(c)
  PROVE  \E v \in Version : Adds(c, v)
<1>. DEFINE x == call[c]
            v(n) == NewVersion(n, x.spec)
<1>1. versions \in Seq(Version) /\ revision \in Nat /\ minted \in 0..MaxVersions
      /\ Len(versions) \in Nat /\ backend \in {"sql", "mongo"}
  BY StoreAssumption DEF IInv, TypeOK
<1>2. ASSUME NEW n \in Nat, x.spec \in Specs, Writes(c, Append(versions, v(n)))
      PROVE  /\ v(n) \in Version
             /\ versions' = Append(versions, v(n)) /\ v(n).id = minted + 1 /\ minted' = v(n).id
             /\ active' = v(n).id /\ engine' = EngineOf(v(n).spec)
             /\ acked' \in {acked, acked \cup {v(n)}}
             /\ call' = [call EXCEPT ![c] = Idle]
             /\ v(n).number = n
  <2>. DEFINE list == Append(versions, v(n))
  <2>1. minted < MaxVersions
    BY <1>2 DEF Writes
  <2>2. v(n) \in Version /\ v(n).id = minted + 1 /\ v(n).number = n
    BY <1>1, <1>2, <2>1, StoreAssumption DEF NewVersion, Version
  <2>3. list[Len(list)] = v(n)
    BY <1>1, <2>2, AppendProperties
  <2>. HIDE DEF v, list
  <2>4. list = Append(versions, v(n)) /\ Writes(c, list)
    BY <1>2 DEF list
  <2>. QED BY <2>2, <2>3, <2>4 DEF Writes, Goes
<1>. HIDE DEF v
<1>3. CASE CreateStrategyWithVersion(c)
  <2>1. x.spec \in Specs /\ versions = <<>> /\ <<v(1)>> = Append(versions, v(1))
    BY <1>3, CallsAre, CallFields DEF CreateStrategyWithVersion
  <2>2. Writes(c, Append(versions, v(1)))
    BY <1>3, <2>1 DEF CreateStrategyWithVersion, v
  <2>3. Adds(c, v(1))
    BY <1>1, <1>2, <1>3, <2>1, <2>2 DEF CreateStrategyWithVersion, Adds
  <2>. QED BY <1>2, <2>1, <2>2, <2>3
<1>4. CASE CommitVersion(c)
  <2>1. /\ x.spec \in Specs /\ x.number \in Nat /\ backend = "sql" /\ CallOK(x) /\ x.at = "inserting"
        /\ Writes(c, Append(versions, v(x.number)))
    BY <1>4, CallsAre, CallFields DEF CommitVersion, CallOK, v
  <2>2. x.number = Len(versions) + 1
    <3>1. x.number \in 1..(Len(versions) + 1)
      BY <2>1 DEF CallOK
    <3>2. \A i \in 1..Len(versions) : versions[i].number = i /\ versions[i].number # x.number
      BY <1>1, <1>4, <2>1 DEF CommitVersion, IInv, Numbers
    <3>. QED BY <1>1, <3>1, <3>2
  <2>3. Adds(c, v(x.number))
    BY <1>1, <1>2, <1>4, <2>1, <2>2 DEF CommitVersion, Adds
  <2>. QED BY <1>2, <2>1, <2>3
<1>5. CASE ReplaceDocument(c)
  <2>1. /\ x.spec \in Specs /\ x.number \in Nat /\ backend = "mongo" /\ x.versions = versions
        /\ ~archived /\ x.revision = revision
        /\ Writes(c, Append(versions, v(x.number)))
    BY <1>5, CallsAre, CallFields DEF ReplaceDocument, CallOK, v
  <2>2. UNCHANGED archived
    BY <1>5, <2>1 DEF ReplaceDocument, IInv, TypeOK
  <2>3. Adds(c, v(x.number))
    BY <1>1, <1>2, <1>5, <2>1, <2>2, SMTT(30) DEF ReplaceDocument, Adds
  <2>. QED BY <1>2, <2>1, <2>3
<1>. QED BY <1>3, <1>4, <1>5

\* The versions before and after an addition.
LEMMA AddsProperty ==
  ASSUME IInv, NEW c \in Clients, NEW v \in Version, Adds(c, v)
  PROVE  /\ versions' \in Seq(Version) /\ Len(versions') = Len(versions) + 1 /\ Len(versions) \in Nat
         /\ DOMAIN versions = 1..Len(versions) /\ DOMAIN versions' = 1..(Len(versions) + 1)
         /\ \A i \in DOMAIN versions : versions'[i] = versions[i]
         /\ versions'[Len(versions')] = v /\ versions' # <<>>
<1>1. versions \in Seq(Version) /\ versions' = Append(versions, v)
  BY DEF IInv, TypeOK, Adds
<1>. QED BY <1>1, AppendProperties

\* ... and that keeps the invariant.
LEMMA AddsStep ==
  ASSUME IInv, NEW c \in Clients, NEW v \in Version, Adds(c, v)
  PROVE  IInv'
<1>1. /\ versions' \in Seq(Version) /\ Len(versions') = Len(versions) + 1 /\ Len(versions) \in Nat
      /\ DOMAIN versions = 1..Len(versions) /\ DOMAIN versions' = 1..(Len(versions) + 1)
      /\ \A i \in DOMAIN versions : versions'[i] = versions[i]
      /\ versions'[Len(versions')] = v /\ versions' # <<>>
  BY AddsProperty
<1>2. minted \in Nat /\ v.id = minted + 1 /\ minted' = minted + 1 /\ minted' \in 0..MaxVersions
      /\ v.id \in 0..MaxVersions
  BY StoreAssumption DEF IInv, TypeOK, Version, Adds
<1>3. \A d \in Clients : call'[d] = IF d = c THEN Idle ELSE call[d]
  BY DEF IInv, TypeOK, Adds
<1>4. TypeOK'
  <2>1. engine' \in Engines /\ Idle \in Calls
    BY EngineType DEF Adds, Calls
  <2>2. acked' \subseteq Version
    BY DEF IInv, TypeOK, Adds
  <2>3. call' \in [Clients -> Calls]
    BY <2>1 DEF IInv, TypeOK, Adds
  <2>. QED BY <1>1, <1>2, <2>1, <2>2, <2>3 DEF IInv, TypeOK, Adds, runVars
<1>5. NoVersionLost'
  <2>1. ASSUME NEW u \in acked' PROVE \E i \in DOMAIN versions' : versions'[i] = u
    <3>1. u \in acked \/ u = v
      BY DEF Adds
    <3>2. CASE u \in acked
      BY <1>1, <3>2 DEF IInv, NoVersionLost
    <3>3. CASE u = v
      BY <1>1, <3>3
    <3>. QED BY <3>1, <3>2, <3>3
  <2>. QED BY <2>1 DEF NoVersionLost
<1>6. Chain'
  <2>1. \A i \in DOMAIN versions : versions[i].id \in Nat /\ versions[i].id <= minted
    <3>1. \A i \in DOMAIN versions : versions[i] \in Version
      BY DEF IInv, TypeOK
    <3>2. \A u \in Version : u.id \in Nat
      BY StoreAssumption DEF Version
    <3>. QED BY <3>1, <3>2 DEF IInv, Chain
  <2>2. \A i \in DOMAIN versions' : versions'[i].id <= minted'
    BY <1>1, <1>2, <2>1
  <2>3. ASSUME NEW i \in DOMAIN versions', NEW j \in DOMAIN versions', i < j
        PROVE  versions'[i].id < versions'[j].id
    <3>1. CASE j \in DOMAIN versions
      BY <1>1, <2>3, <3>1 DEF IInv, Chain
    <3>2. CASE j = Len(versions')
      BY <1>1, <1>2, <2>1, <2>3, <3>2
    <3>. QED BY <1>1, <3>1, <3>2
  <2>. QED BY <1>1, <2>2, <2>3 DEF Chain, Last, Adds
<1>7. Numbers'
  <2>. SUFFICES ASSUME backend' = "sql"
                PROVE  /\ \A i \in DOMAIN versions' : versions'[i].number = i
                       /\ \A d \in Clients : call'[d].at \in {"add", "inserting"} =>
                            call'[d].number \in 1..(Len(versions') + 1)
    BY DEF Numbers
  <2>1. backend = "sql" /\ v.number = Len(versions) + 1
    BY DEF Adds
  <2>2. \A i \in DOMAIN versions' : versions'[i].number = i
    BY <1>1, <2>1 DEF IInv, Numbers
  <2>3. \A d \in Clients : call[d].at \in {"add", "inserting"} =>
          call[d].number \in 1..(Len(versions') + 1)
    BY <1>1, <2>1 DEF IInv, Numbers
  <2>. QED BY <1>3, <2>2, <2>3 DEF Idle
<1>8. Documents'
  <2>1. ASSUME NEW d \in Clients, call[d].at = "replacing"
        PROVE  backend = "mongo" /\ call[d].revision <= revision' /\ call[d].revision # revision'
    <3>1. backend = "mongo" /\ call[d].revision <= revision /\ revision < revision'
      BY <2>1 DEF IInv, Documents, Adds
    <3>2. call[d].revision \in Nat /\ revision \in Nat /\ revision' \in Nat
      BY <2>1, CallFields DEF IInv, TypeOK, Adds
    <3>. QED BY <3>1, <3>2
  <2>. QED BY <1>1, <1>3, <2>1 DEF Documents, IInv, Idle, Adds
<1>9. Screens'
  <2>1. ASSUME NEW id, NEW spec, Known(id, spec) PROVE Known(id, spec)'
    BY <1>1, <2>1 DEF Known
  <2>2. ASSUME NEW d \in Clients, call'[d].at = "screen"
        PROVE  Known(call[d].version, call[d].spec) /\ call'[d] = call[d]
    BY <1>3, <2>2 DEF IInv, Screens, Idle
  <2>3. ASSUME NEW r \in DOMAIN runs PROVE Known(runs[r].version, runs[r].spec)
    BY DEF IInv, Screens
  <2>4. UNCHANGED runs
    BY DEF Adds, runVars
  <2>. QED BY <1>1, <2>2, <2>3, <2>4 DEF Screens, Known
<1>10. Items'
  BY <1>3 DEF IInv, Items, Idle, Adds, runVars
<1>. QED BY <1>4, <1>5, <1>6, <1>7, <1>8, <1>9, <1>10 DEF IInv

\* An archived strategy has a revision that nobody has read.
LEMMA ArchiveStep ==
  ASSUME IInv, ArchiveStrategy
  PROVE  IInv'
<1>. USE DEF ArchiveStrategy
<1>1. TypeOK'
  BY DEF IInv, TypeOK, runVars
<1>2. Documents'
  <2>1. ASSUME NEW d \in Clients, call[d].at = "replacing"
        PROVE  call[d].revision <= revision' /\ call[d].revision # revision'
    BY <2>1, CallFields DEF IInv, TypeOK, Documents
  <2>. QED BY <2>1 DEF IInv, Documents
<1>3. NoVersionLost' /\ Chain' /\ Numbers' /\ Screens' /\ Items'
  BY DEF IInv, NoVersionLost, Chain, Last, Numbers, Screens, Known, Items, runVars
<1>. QED BY <1>1, <1>2, <1>3 DEF IInv

-----------------------------------------------------------------------------
(* Screen runs                                                             *)

\* A step that writes about runs and nothing else.
LEMMA RunStep ==
  ASSUME IInv, UNCHANGED <<backend, strategyVars, acked>>,
         NEW c \in Clients, NEW next \in Calls, Goes(c, next), next.at \in {"idle", "items"},
         runs' \in Seq(Run), \A r \in DOMAIN runs' : Known(runs'[r].version, runs'[r].spec),
         saved' \subseteq 1..MaxRuns, Items'
  PROVE  IInv'
<1>. USE DEF strategyVars
<1>1. \A d \in Clients : call'[d] = IF d = c THEN next ELSE call[d]
  BY DEF IInv, TypeOK, Goes
<1>2. TypeOK'
  BY DEF IInv, TypeOK, Goes
<1>3. NoVersionLost' /\ Chain'
  BY DEF IInv, NoVersionLost, Chain, Last
<1>4. Numbers'
  BY <1>1 DEF IInv, Numbers
<1>5. Documents'
  BY <1>1 DEF IInv, Documents
<1>6. Screens'
  BY <1>1 DEF IInv, Screens, Known
<1>. QED BY <1>2, <1>3, <1>4, <1>5, <1>6 DEF IInv

\* The run a screen call writes comes last.
LEMMA NewRun ==
  ASSUME IInv, NEW c \in Clients, CreateScreenRun(c)
  PROVE  \E run \in Run :
           /\ call[c].at = "screen" /\ run.version = call[c].version /\ run.spec = call[c].spec
           /\ run.items = (IF backend = "sql" THEN run.count ELSE 0)
           /\ runs' = Append(runs, run) /\ runs' \in Seq(Run)
           /\ Len(runs) \in Nat /\ Len(runs') = Len(runs) + 1 /\ Len(runs') \in 1..MaxRuns
           /\ DOMAIN runs = 1..Len(runs) /\ DOMAIN runs' = 1..(Len(runs) + 1)
           /\ \A r \in DOMAIN runs : runs'[r] = runs[r]
           /\ runs'[Len(runs')] = run
           /\ \/ /\ run.items = run.count
                 /\ saved' \in {saved, saved \cup {Len(runs')}}
                 /\ call' = [call EXCEPT ![c] = Idle]
              \/ /\ run.items # run.count
                 /\ UNCHANGED saved
                 /\ call' = [call EXCEPT ![c] = [at |-> "items", run |-> Len(runs')]]
<1>1. PICK run \in Run :
        /\ Executed(c, run) /\ runs' = Append(runs, run)
        /\ IF run.items = run.count
           THEN Returns(c, Len(runs'))
           ELSE Goes(c, [at |-> "items", run |-> Len(runs')]) /\ UNCHANGED saved
  BY DEF CreateScreenRun
<1>2. runs \in Seq(Run) /\ Len(runs) < MaxRuns /\ call[c].at = "screen"
  BY DEF CreateScreenRun, IInv, TypeOK
<1>3. /\ runs' \in Seq(Run) /\ Len(runs) \in Nat /\ Len(runs') = Len(runs) + 1
      /\ DOMAIN runs = 1..Len(runs) /\ DOMAIN runs' = 1..(Len(runs) + 1)
      /\ \A r \in DOMAIN runs : runs'[r] = runs[r]
      /\ runs'[Len(runs')] = run
  BY <1>1, <1>2, AppendProperties
<1>4. Len(runs') \in 1..MaxRuns
  BY <1>2, <1>3, StoreAssumption
<1>5. \/ /\ run.items = run.count
         /\ saved' \in {saved, saved \cup {Len(runs')}}
         /\ call' = [call EXCEPT ![c] = Idle]
      \/ /\ run.items # run.count
         /\ UNCHANGED saved
         /\ call' = [call EXCEPT ![c] = [at |-> "items", run |-> Len(runs')]]
  BY <1>1 DEF Returns, Goes
<1>. QED BY <1>1, <1>2, <1>3, <1>4, <1>5 DEF Executed

\* So does the write of a run (CreateScreenRun),
LEMMA CreateScreenRunStep ==
  ASSUME IInv, NEW c \in Clients, CreateScreenRun(c)
  PROVE  IInv'
<1>1. PICK run \in Run :
           /\ call[c].at = "screen" /\ run.version = call[c].version /\ run.spec = call[c].spec
           /\ run.items = (IF backend = "sql" THEN run.count ELSE 0)
           /\ runs' = Append(runs, run) /\ runs' \in Seq(Run)
           /\ Len(runs) \in Nat /\ Len(runs') = Len(runs) + 1 /\ Len(runs') \in 1..MaxRuns
           /\ DOMAIN runs = 1..Len(runs) /\ DOMAIN runs' = 1..(Len(runs) + 1)
           /\ \A r \in DOMAIN runs : runs'[r] = runs[r]
           /\ runs'[Len(runs')] = run
           /\ \/ /\ run.items = run.count
                 /\ saved' \in {saved, saved \cup {Len(runs')}}
                 /\ call' = [call EXCEPT ![c] = Idle]
              \/ /\ run.items # run.count
                 /\ UNCHANGED saved
                 /\ call' = [call EXCEPT ![c] = [at |-> "items", run |-> Len(runs')]]
  BY NewRun
<1>2. \A r \in DOMAIN runs' : Known(runs'[r].version, runs'[r].spec)
  <2>1. Known(run.version, run.spec)
    BY <1>1 DEF IInv, Screens
  <2>. QED BY <1>1, <2>1 DEF IInv, Screens
<1>3. saved \subseteq DOMAIN runs /\ saved' \subseteq 1..MaxRuns
  BY <1>1 DEF IInv, TypeOK, Items
<1>4. /\ run.items \in 0..MaxRows /\ run.count \in 0..MaxRows
      /\ backend \in {"sql", "mongo"} /\ UNCHANGED <<backend, strategyVars, acked>>
  BY <1>1, StoreAssumption DEF Run, IInv, TypeOK, CreateScreenRun
<1>5. CASE run.items = run.count /\ saved' \in {saved, saved \cup {Len(runs')}}
           /\ call' = [call EXCEPT ![c] = Idle]
  <2>1. \A d \in Clients : call'[d] = IF d = c THEN Idle ELSE call[d]
    BY <1>5 DEF IInv, TypeOK
  <2>2. saved' \subseteq DOMAIN runs'
    BY <1>1, <1>3, <1>5
  <2>3. \A r \in DOMAIN runs' : (r \in saved' \/ backend' = "sql") => runs'[r].items = runs'[r].count
    BY <1>1, <1>4, <1>5 DEF IInv, Items
  <2>4. \A d \in Clients : call'[d].at = "items" =>
          /\ backend' = "mongo" /\ call'[d].run \in DOMAIN runs' \ saved'
          /\ runs'[call'[d].run].items < runs'[call'[d].run].count
    BY <1>1, <1>4, <1>5, <2>1 DEF IInv, Items, Idle
  <2>5. \A d, e \in Clients :
          call'[d].at = "items" /\ call'[e].at = "items" /\ call'[d].run = call'[e].run => d = e
    BY <2>1 DEF IInv, Items, Idle
  <2>6. Items'
    BY <2>2, <2>3, <2>4, <2>5 DEF Items
  <2>7. Idle \in Calls /\ Idle.at \in {"idle", "items"}
    BY DEF Calls, Idle
  <2>. QED BY <1>1, <1>2, <1>3, <1>4, <1>5, <2>6, <2>7, RunStep DEF Goes
<1>6. CASE run.items # run.count /\ UNCHANGED saved
           /\ call' = [call EXCEPT ![c] = [at |-> "items", run |-> Len(runs')]]
  <2>1. PICK m \in 1..MaxRuns : m = Len(runs')
    BY <1>1
  <2>. DEFINE next == [at |-> "items", run |-> m]
  <2>2. \A d \in Clients : call'[d] = IF d = c THEN next ELSE call[d]
    BY <1>6, <2>1 DEF IInv, TypeOK
  <2>3. backend = "mongo" /\ run.items < run.count
    BY <1>1, <1>4, <1>6
  <2>4. saved' \subseteq DOMAIN runs'
    BY <1>1, <1>3, <1>6
  <2>5. \A r \in DOMAIN runs' : (r \in saved' \/ backend' = "sql") => runs'[r].items = runs'[r].count
    BY <1>1, <1>3, <1>4, <1>6, <2>3 DEF IInv, Items
  <2>6. \A d \in Clients : call'[d].at = "items" =>
          /\ backend' = "mongo" /\ call'[d].run \in DOMAIN runs' \ saved'
          /\ runs'[call'[d].run].items < runs'[call'[d].run].count
    BY <1>1, <1>3, <1>4, <1>6, <2>1, <2>2, <2>3 DEF IInv, Items
  <2>7. \A d, e \in Clients :
          call'[d].at = "items" /\ call'[e].at = "items" /\ call'[d].run = call'[e].run => d = e
    BY <1>1, <2>1, <2>2 DEF IInv, Items
  <2>8. Items'
    BY <2>4, <2>5, <2>6, <2>7 DEF Items
  <2>9. next \in Calls /\ next.at \in {"idle", "items"} /\ Goes(c, next)
    BY <1>6, <2>1 DEF Calls, Goes
  <2>. HIDE DEF next
  <2>. QED BY <1>1, <1>2, <1>3, <1>4, <2>8, <2>9, RunStep
<1>. QED BY <1>1, <1>5, <1>6

\* and of one of its rows.
LEMMA InsertItemStep ==
  ASSUME IInv, NEW c \in Clients, InsertItem(c)
  PROVE  IInv'
<1>0. PICK m \in DOMAIN runs : m = call[c].run
  BY DEF InsertItem, IInv, Items
<1>1. /\ runs \in Seq(Run) /\ DOMAIN runs = 1..Len(runs) /\ runs[m] \in Run
      /\ call[c].at = "items" /\ m \notin saved /\ backend = "mongo"
      /\ runs[m].items < runs[m].count
      /\ runs' = [runs EXCEPT ![m].items = @ + 1]
  BY <1>0 DEF InsertItem, IInv, TypeOK, Items
<1>2. /\ runs[m].items \in 0..MaxRows /\ runs[m].count \in 0..MaxRows
      /\ runs[m].items + 1 \in 0..MaxRows
  BY <1>1, StoreAssumption DEF Run
<1>. DEFINE more == [runs[m] EXCEPT !.items = @ + 1]
<1>3. more \in Run /\ more.version = runs[m].version /\ more.spec = runs[m].spec
      /\ more.items = runs[m].items + 1 /\ more.count = runs[m].count
  BY <1>1, <1>2 DEF Run
<1>4. runs' = [runs EXCEPT ![m] = more]
  BY <1>1
<1>. HIDE DEF more
<1>5. /\ runs' \in Seq(Run) /\ DOMAIN runs' = DOMAIN runs
      /\ \A r \in DOMAIN runs : runs'[r] = IF r = m THEN more ELSE runs[r]
  BY <1>1, <1>3, <1>4, ExceptSeq
<1>6. \A r \in DOMAIN runs' : Known(runs'[r].version, runs'[r].spec)
  BY <1>3, <1>5 DEF IInv, Screens
<1>7. UNCHANGED <<backend, strategyVars, acked>> /\ saved \subseteq 1..MaxRuns
      /\ m \in 1..MaxRuns /\ saved \subseteq DOMAIN runs
  BY <1>0, <1>1, CallFields DEF InsertItem, IInv, TypeOK, Items
<1>8. CASE more.items = more.count
  <2>1. saved' \in {saved, saved \cup {m}} /\ Goes(c, Idle)
    BY <1>0, <1>1, <1>3, <1>5, <1>8 DEF InsertItem, Returns
  <2>2. \A d \in Clients : call'[d] = IF d = c THEN Idle ELSE call[d]
    BY <2>1 DEF IInv, TypeOK, Goes
  <2>3. \A d \in Clients : call[d].at = "items" /\ d # c => call[d].run # m
    BY <1>0, <1>1 DEF IInv, Items
  <2>4. /\ saved' \subseteq DOMAIN runs'
        /\ \A r \in DOMAIN runs' : r \in saved' => runs'[r].items = runs'[r].count
    BY <1>5, <1>7, <1>8, <2>1 DEF IInv, Items
  <2>5. \A d \in Clients : call'[d].at = "items" =>
          /\ call'[d].run \in DOMAIN runs' \ saved'
          /\ runs'[call'[d].run].items < runs'[call'[d].run].count
    BY <1>5, <2>1, <2>2, <2>3 DEF IInv, Items, Idle
  <2>6. \A d, e \in Clients :
          call'[d].at = "items" /\ call'[e].at = "items" /\ call'[d].run = call'[e].run => d = e
    BY <2>2 DEF IInv, Items, Idle
  <2>7. Items'
    BY <1>1, <1>7, <2>4, <2>5, <2>6 DEF Items
  <2>8. Idle \in Calls /\ Idle.at \in {"idle", "items"}
    BY DEF Calls, Idle
  <2>. QED BY <1>5, <1>6, <1>7, <2>1, <2>7, <2>8, RunStep
<1>9. CASE more.items # more.count
  <2>1. UNCHANGED <<saved, call>>
    BY <1>0, <1>1, <1>3, <1>5, <1>9 DEF InsertItem
  <2>2. more.items < more.count
    BY <1>1, <1>2, <1>3, <1>9
  <2>3. Items'
    BY <1>1, <1>5, <1>7, <2>1, <2>2 DEF IInv, Items
  <2>4. PICK x \in Calls : x = call[c] /\ x.at = "items"
    BY <1>1, CallsAre
  <2>5. Goes(c, x)
    BY <2>1, <2>4 DEF Goes, IInv, TypeOK
  <2>. QED BY <1>5, <1>6, <1>7, <2>1, <2>3, <2>4, <2>5, RunStep
<1>. QED BY <1>8, <1>9

-----------------------------------------------------------------------------
\* Every step keeps the invariant.
LEMMA NextIInv == IInv /\ [Next]_vars => IInv'
<1>1. ASSUME IInv, NEW c \in Clients, ClientStep(c) PROVE IInv'
  BY <1>1, ReadSteps, LoadStrategyStep, ScreenAndFailSteps, WriteIsAppend, AddsStep,
     CreateScreenRunStep, InsertItemStep DEF ClientStep
<1>2. ASSUME IInv, UNCHANGED vars PROVE IInv'
  BY <1>2 DEF vars, strategyVars, runVars, IInv, TypeOK, NoVersionLost, Chain, Last, Numbers,
     Documents, Screens, Known, Items
<1>. QED BY <1>1, <1>2, ArchiveStep DEF Next

\* The invariant holds in every reachable state.
THEOREM Invariance == Spec => []IInv
BY InitIInv, NextIInv, PTL DEF Spec

\* Every variable keeps its type, for any number of callers.
THEOREM TypeCorrect == Spec => []TypeOK
BY Invariance, PTL DEF IInv

\* No version that a caller was told of is lost or changed, in either backend
\* (AddStrategyVersion).
THEOREM VersionsStay == Spec => []NoVersionLost
BY Invariance, PTL DEF IInv

\* In SQL the versions are numbered without a gap in the order they were written,
\* although the number was read in another transaction (Upsert, Update).
THEOREM NumbersAreInOrder == Spec => []NumberedInOrder
<1>1. IInv => NumberedInOrder
  BY ActiveIsLast DEF IInv, Numbers, NumberedInOrder
<1>. QED BY <1>1, Invariance, PTL

\* The strategy has the engine of its active version (executeStrategyVersion).
THEOREM EngineFits == Spec => []EngineOfActive
<1>1. IInv => EngineOfActive
  BY ActiveIsLast DEF IInv, Chain, Last, EngineOfActive
<1>. QED BY <1>1, Invariance, PTL

\* A run that was returned has all its rows (CreateScreenRun).
THEOREM RunsAreWhole == Spec => []ReturnedRunsAreWhole
<1>1. IInv => ReturnedRunsAreWhole
  BY DEF IInv, Items, ReturnedRunsAreWhole
<1>. QED BY <1>1, Invariance, PTL

-----------------------------------------------------------------------------
(* The promise                                                             *)

History == [i \in DOMAIN versions |-> versions[i].spec]

Report(run) ==
  [of |-> Place(run.version), spec |-> run.spec, rows |-> run.count, stored |-> run.items]

Reports == [r \in DOMAIN runs |-> Report(runs[r])]

\* A version is found under its id,
LEMMA PlaceOfId ==
  ASSUME IInv, NEW i \in DOMAIN versions
  PROVE  Place(versions[i].id) = i
<1>1. \A j \in DOMAIN versions : j \in Nat /\ versions[j].id \in Nat
  <2>1. \A j \in DOMAIN versions : j \in Nat /\ versions[j] \in Version
    BY DEF IInv, TypeOK
  <2>2. \A u \in Version : u.id \in Nat
    BY StoreAssumption DEF Version
  <2>. QED BY <2>1, <2>2
<1>2. \A j \in DOMAIN versions : versions[j].id = versions[i].id => j = i
  BY <1>1 DEF IInv, Chain
<1>. QED BY <1>2 DEF Place

\* after a step too.
LEMMA PlaceOfIdNext ==
  IInv' => \A i \in DOMAIN versions' : Place(versions[i].id)' = i
<1>1. IInv => \A i \in DOMAIN versions : Place(versions[i].id) = i
  BY PlaceOfId
<1>2. IInv' => (\A i \in DOMAIN versions : Place(versions[i].id) = i)'
  BY <1>1, PTL
<1>. QED BY <1>2 DEF Place

\* A place that is known stays when a version is added.
LEMMA PlaceStays ==
  ASSUME IInv, NEW c \in Clients, NEW v \in Version, Adds(c, v),
         NEW id, NEW spec, Known(id, spec)
  PROVE  Place(id)' = Place(id)
<1>1. PICK i \in DOMAIN versions : versions[i].id = id
  BY DEF Known
<1>2. i \in DOMAIN versions' /\ versions'[i].id = id
  BY <1>1, AddsProperty
<1>3. Place(id) = i
  BY <1>1, PlaceOfId
<1>4. Place(id)' = i
  BY <1>2, AddsStep, PlaceOfIdNext DEF Place
<1>. QED BY <1>3, <1>4

\* A version that is added is published in the promise.
LEMMA AddsPublishes ==
  ASSUME IInv, NEW c \in Clients, NEW v \in Version, Adds(c, v)
  PROVE  Promise!Next
<1>1. /\ versions' \in Seq(Version) /\ Len(versions') = Len(versions) + 1 /\ Len(versions) \in Nat
      /\ DOMAIN versions = 1..Len(versions) /\ DOMAIN versions' = 1..(Len(versions) + 1)
      /\ \A i \in DOMAIN versions : versions'[i] = versions[i]
      /\ versions'[Len(versions')] = v /\ versions' # <<>>
  BY AddsProperty
<1>2. v.spec \in Specs /\ \A i \in DOMAIN versions : versions[i].spec \in Specs
  <2>1. \A u \in Version : u.spec \in Specs
    BY DEF Version
  <2>. QED BY <2>1 DEF IInv, TypeOK
<1>3. /\ History \in Seq(Specs) /\ Len(History) = Len(versions)
      /\ History' \in Seq(Specs) /\ Len(History') = Len(versions) + 1
  BY <1>1, <1>2 DEF History
<1>4. History' = Append(History, v.spec)
  <2>1. /\ Append(History, v.spec) \in Seq(Specs)
        /\ Len(Append(History, v.spec)) = Len(History) + 1
        /\ \A i \in 1..Len(History) : Append(History, v.spec)[i] = History[i]
        /\ Append(History, v.spec)[Len(History) + 1] = v.spec
    BY <1>2, <1>3, AppendProperties
  <2>2. \A i \in 1..Len(History') : History'[i] = Append(History, v.spec)[i]
    BY <1>1, <1>3, <2>1 DEF History
  <2>. QED BY <1>3, <2>1, <2>2, SeqEqual
<1>5. Place(active)' = Len(History')
  <2>1. IInv' /\ Len(versions') \in DOMAIN versions'
    BY <1>1, AddsStep
  <2>2. active' = versions'[Len(versions')].id
    BY <1>1 DEF Adds
  <2>3. ASSUME NEW i \in DOMAIN versions', i = Len(versions')
        PROVE  Place(active)' = i
    <3>1. Place(versions[i].id)' = i /\ active' = versions'[i].id
      BY <2>1, <2>2, <2>3, PlaceOfIdNext
    <3>. QED BY <3>1 DEF Place
  <2>. QED BY <1>1, <1>3, <2>1, <2>3
<1>6. Reports' = Reports
  <2>1. \A r \in DOMAIN runs : Place(runs[r].version)' = Place(runs[r].version)
    <3>1. ASSUME NEW r \in DOMAIN runs PROVE Place(runs[r].version)' = Place(runs[r].version)
      <4>1. UNCHANGED runs /\ Known(runs[r].version, runs[r].spec)
        BY DEF Adds, runVars, IInv, Screens
      <4>2. ASSUME NEW id, id = runs[r].version PROVE Place(id)' = Place(id)
        BY <4>1, <4>2, PlaceStays
      <4>. QED BY <4>1, <4>2 DEF Place
    <3>. QED BY <3>1
  <2>. QED BY <2>1 DEF Reports, Report, Adds, runVars
<1>7. UNCHANGED archived
  BY DEF Adds
<1>8. Promise!Publish(v.spec)
  BY <1>4, <1>5, <1>6, <1>7 DEF Promise!Publish, History, Reports, Report
<1>. QED BY <1>2, <1>8 DEF Promise!Next

\* A run is reported with its rows, all or none of them stored.
LEMMA RunIsReported ==
  ASSUME IInv, NEW c \in Clients, CreateScreenRun(c)
  PROVE  Promise!Next
<1>1. PICK run \in Run :
           /\ call[c].at = "screen" /\ run.version = call[c].version /\ run.spec = call[c].spec
           /\ run.items = (IF backend = "sql" THEN run.count ELSE 0)
           /\ runs' \in Seq(Run)
           /\ Len(runs) \in Nat /\ Len(runs') = Len(runs) + 1
           /\ DOMAIN runs = 1..Len(runs) /\ DOMAIN runs' = 1..(Len(runs) + 1)
           /\ \A r \in DOMAIN runs : runs'[r] = runs[r]
           /\ runs'[Len(runs')] = run
  BY NewRun
<1>2. /\ run.count \in 0..MaxRows /\ run.items \in 0..MaxRows /\ run.items <= run.count
  BY <1>1, StoreAssumption DEF Run
<1>3. PICK i \in DOMAIN versions : versions[i].id = run.version /\ versions[i].spec = run.spec
  BY <1>1 DEF IInv, Screens, Known
<1>4. Place(run.version) = i /\ History[i] = run.spec /\ i \in DOMAIN History
  BY <1>3, PlaceOfId DEF History
<1>5. UNCHANGED <<versions, active, archived>>
  BY DEF CreateScreenRun, strategyVars
<1>6. \A id : Place(id)' = Place(id)
  BY <1>5 DEF Place
<1>. DEFINE report == [of |-> i, spec |-> History[i], rows |-> run.count, stored |-> run.items]
<1>7. Reports' = Append(Reports, report)
  <2>. DEFINE All == {Report(q) : q \in Run}
  <2>1. /\ Reports \in Seq(All) /\ Len(Reports) = Len(runs) /\ DOMAIN Reports = 1..Len(runs)
        /\ \A r \in 1..Len(runs) : Reports[r] = Report(runs[r])
    BY <1>1 DEF Reports, IInv, TypeOK
  <2>2. report = Report(run) /\ report \in All
    BY <1>4 DEF Report
  <2>3. \A q : Report(q)' = Report(q)
    BY <1>6 DEF Report
  <2>4. /\ Reports' = [r \in 1..(Len(runs) + 1) |-> IF r = Len(runs) + 1 THEN report ELSE Reports[r]]
    BY <1>1, <1>6, <2>1, <2>2 DEF Reports, Report
  <2>. HIDE DEF All, report
  <2>5. /\ Append(Reports, report) \in Seq(All)
        /\ Len(Append(Reports, report)) = Len(Reports) + 1
        /\ \A r \in 1..Len(Reports) : Append(Reports, report)[r] = Reports[r]
        /\ Append(Reports, report)[Len(Reports) + 1] = report
    BY <2>1, <2>2, AppendProperties
  <2>6. Reports' \in Seq(All) /\ Len(Reports') = Len(runs) + 1
    BY <1>1, <2>1, <2>2, <2>4
  <2>7. \A r \in 1..Len(Reports') : Reports'[r] = Append(Reports, report)[r]
    BY <1>1, <2>1, <2>4, <2>5, <2>6
  <2>. QED BY <2>1, <2>5, <2>6, <2>7, SeqEqual
<1>8. UNCHANGED <<History, Place(active), archived>>
  BY <1>5 DEF History, Place
<1>9. Promise!Report(i, run.count, run.items)
  BY <1>7, <1>8 DEF Promise!Report, History, Reports, Report
<1>. QED BY <1>2, <1>4, <1>9 DEF Promise!Next, History

\* A row arrives.
LEMMA ItemIsStored ==
  ASSUME IInv, NEW c \in Clients, InsertItem(c)
  PROVE  Promise!Next
<1>1. PICK m \in DOMAIN runs : m = call[c].run /\ runs[m].items < runs[m].count
  BY DEF InsertItem, IInv, Items
<1>2. runs' = [runs EXCEPT ![m].items = @ + 1] /\ UNCHANGED <<versions, active, archived>>
  BY <1>1 DEF InsertItem, strategyVars
<1>3. \A id : Place(id)' = Place(id)
  BY <1>2 DEF Place
<1>4. \A r \in DOMAIN runs : runs[r] \in Run
  BY DEF IInv, TypeOK
<1>5. Reports' = [Reports EXCEPT ![m].stored = @ + 1]
  <2>1. DOMAIN runs' = DOMAIN runs
    BY <1>2
  <2>2. ASSUME NEW r \in DOMAIN runs, r # m PROVE runs'[r] = runs[r]
    BY <1>2, <2>2
  <2>3. /\ runs'[m].version = runs[m].version /\ runs'[m].spec = runs[m].spec
        /\ runs'[m].count = runs[m].count /\ runs'[m].items = runs[m].items + 1
    BY <1>1, <1>2, <1>4 DEF Run
  <2>4. ASSUME NEW r \in DOMAIN runs
        PROVE  Report(runs[r])' = IF r = m THEN [Report(runs[m]) EXCEPT !.stored = @ + 1]
                                  ELSE Report(runs[r])
    BY <1>3, <2>2, <2>3 DEF Report
  <2>. QED BY <1>1, <2>1, <2>4 DEF Reports
<1>6. Reports[m].stored < Reports[m].rows /\ m \in DOMAIN Reports
  BY <1>1 DEF Reports, Report
<1>7. UNCHANGED <<History, Place(active), archived>>
  BY <1>2 DEF History, Place
<1>8. Promise!Store(m)
  BY <1>5, <1>6, <1>7 DEF Promise!Store, History, Reports, Report
<1>. QED BY <1>6, <1>8 DEF Promise!Next, Reports, Report

\* Either backend implements the promise: each step is one of it, or none.
THEOREM Implements == Spec => KeepsPromise
<1>1. Init => Promise!Init
  <2>. SUFFICES ASSUME Init PROVE Promise!Init
    OBVIOUS
  <2>1. History = <<>> /\ Reports = <<>> /\ Place(active) = 0 /\ archived = FALSE
    BY DEF Init, History, Reports, Place
  <2>. QED BY <2>1 DEF Promise!Init, History, Reports, Report
<1>2. ASSUME IInv, [Next]_vars PROVE [Promise!Next]_(Promise!vars)
  <2>1. ASSUME UNCHANGED <<versions, active, archived, runs>> PROVE UNCHANGED Promise!vars
    BY <2>1 DEF Promise!vars, Place
  <2>2. ASSUME ArchiveStrategy PROVE Promise!Next
    <3>1. archived' = TRUE /\ UNCHANGED <<versions, active, runs>> /\ versions # <<>>
      BY <2>2 DEF ArchiveStrategy, Exists, runVars
    <3>2. History # <<>> /\ UNCHANGED <<History, Reports, Place(active)>>
      BY <3>1 DEF History, Reports, Report, Place, IInv, TypeOK
    <3>3. Promise!Delete
      BY <3>1, <3>2 DEF Promise!Delete, History, Reports, Report
    <3>. QED BY <3>3 DEF Promise!Next
  <2>3. ASSUME NEW c \in Clients, NEW spec \in Specs,
               Create(c, spec) \/ Upsert(c, spec) \/ Update(c, spec)
        PROVE  UNCHANGED <<versions, active, archived, runs>>
    BY <2>3 DEF Create, Upsert, Update, strategyVars, runVars
  <2>4. ASSUME NEW c \in Clients, LoadStrategy(c) \/ Screen(c) \/ Fail(c)
        PROVE  UNCHANGED <<versions, active, archived, runs>>
    BY <2>4 DEF LoadStrategy, Screen, Fail, strategyVars, runVars
  <2>5. ASSUME NEW c \in Clients,
               CreateStrategyWithVersion(c) \/ CommitVersion(c) \/ ReplaceDocument(c)
        PROVE  Promise!Next
    BY <1>2, <2>5, WriteIsAppend, AddsPublishes
  <2>6. ASSUME UNCHANGED vars PROVE UNCHANGED <<versions, active, archived, runs>>
    BY <2>6 DEF vars, strategyVars, runVars
  <2>. QED BY <1>2, <2>1, <2>2, <2>3, <2>4, <2>5, <2>6, RunIsReported, ItemIsStored
           DEF Next, ClientStep
<1>. QED BY <1>1, <1>2, Invariance, PTL DEF Spec, KeepsPromise, Promise!Spec
=============================================================================
