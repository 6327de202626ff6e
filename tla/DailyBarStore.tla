---------------------------- MODULE DailyBarStore ----------------------------
(***************************************************************************)
(* The daily bars of one symbol from one source in the SQL database, while *)
(* commands run on it: Ensure and Sync (service/daily), which fetch bars   *)
(* from the provider and store them, and the migrations (migration,        *)
(* storage/migration), which copy the table of version 1 into that of      *)
(* version 2 and then tidy up the extensions of version 2.                 *)
(*                                                                         *)
(* The clients are commands, in one process or in several; a command takes *)
(* a step where it reads, writes or asks the provider, and may end before  *)
(* any of them. A bar is the number of its edition: 0 for none, 1 for the  *)
(* first, more for a later correction.                                     *)
(***************************************************************************)
EXTENDS Integers, FiniteSets, FiniteSetsExt

CONSTANTS
  Clients, \* commands that may run at the same time
  Dates,   \* trading dates
  Latest   \* bound: editions of a bar

ASSUME DailyAssumption == Dates \subseteq Nat /\ Latest \in Nat

Editions   == 0..Latest
Migrations == {"copy", "cleanup"} \* in this order

VARIABLES
  source,   \* the provider's bars
  old,      \* table daily_bar, which nothing writes any more
  bars,     \* table daily_bar_v2
  promoted, \* the dates with rows of promoted keys in daily_bar_extension_v2
  index,    \* idx_daily_bar_extension_v2_bar is there
  recorded, \* the migrations with a row in migration_run
  call      \* what each client is doing

storeVars == <<source, old, bars, promoted, index, recorded, call>>

Idle == [at |-> "idle"]

\* An Ensure knows the symbol of the bars, or asks by another name that the
\* provider resolves. due is history: the dates whose bars the provider or the
\* store had when the call began.
Calls ==
  {Idle}
  \cup [at : {"collect"}, named : BOOLEAN, missing : SUBSET Dates, got : SUBSET Dates, due : SUBSET Dates]
  \cup [at : {"store"}, named : BOOLEAN, missing : SUBSET Dates, got : SUBSET Dates, due : SUBSET Dates,
        date : Dates, bar : Editions]
  \cup [at : {"ensured"}, answer : SUBSET Dates, due : SUBSET Dates]
  \cup [at : {"store sync"}, date : Dates, bar : Editions]
  \cup [at : {"look", "apply", "drop", "record"}, migration : Migrations]

StoreTypeOK ==
  /\ source \in [Dates -> Editions] /\ old \in [Dates -> Editions] /\ bars \in [Dates -> Editions]
  /\ promoted \subseteq Dates /\ index \in BOOLEAN
  /\ recorded \subseteq Migrations
  /\ call \in [Clients -> Calls]

\* The database may be new, hold only version 1, or rows of version 2 that were
\* written before the promoted keys had columns.
StoreInit ==
  /\ source \in [Dates -> Editions]
  /\ old \in [Dates -> {0, 1}] /\ bars \in [Dates -> {0, 1}]
  /\ \A d \in Dates : old[d] <= source[d] /\ bars[d] <= source[d]
  /\ promoted \in SUBSET {d \in Dates : bars[d] # 0}
  /\ index \in BOOLEAN
  /\ recorded = {}
  /\ call = [c \in Clients |-> Idle]

Goes(c, then) == call' = [call EXCEPT ![c] = then]

Stored    == {d \in Dates : bars[d] # 0}
Published == {d \in Dates : source[d] # 0}

\* Slip: the extension rows of every key are written.
UpsertsAllKeys(dates, edition) ==
  /\ bars' = [d \in Dates |-> IF d \in dates THEN edition[d] ELSE bars[d]]
  /\ promoted' = promoted \cup dates

\* UpsertDailyBars in its transaction: the bars of these dates are there, in the
\* edition given, and their extension rows are written again, the promoted keys
\* left out.
Upserts(dates, edition) ==
  /\ bars' = [d \in Dates |-> IF d \in dates THEN edition[d] ELSE bars[d]]
  /\ promoted' = promoted \ dates

-----------------------------------------------------------------------------
(* Ensure and Sync                                                         *)

\* datesWithoutSymbol; bars of another symbol do not count.
Missing(named) == IF named THEN Dates ELSE Dates \ Stored

\* Ensure begins: it reads what there is, and will fetch what is missing.
Ensure(c, named) ==
  /\ call[c] = Idle
  /\ Goes(c, [at |-> "collect", named |-> named, missing |-> Missing(named), got |-> {},
              due |-> Stored \cup Published])
  /\ UNCHANGED <<source, old, bars, promoted, index, recorded>>

\* collectDate for the next missing date: the bar of the provider, if it has one.
FetchDate(c) ==
  /\ call[c].at = "collect" /\ call[c].missing # {}
  /\ LET date == Min(call[c].missing) IN
     Goes(c, [at |-> "store", named |-> call[c].named, missing |-> call[c].missing \ {date},
              got |-> call[c].got, due |-> call[c].due, date |-> date, bar |-> source[date]])
  /\ UNCHANGED <<source, old, bars, promoted, index, recorded>>

\* What was fetched, or was not there, for a date.
Bar(date, edition) == IF edition = 0 THEN {} ELSE {date}

\* Slip: a failed upsert is passed over.
StoreOrNot(c) ==
  /\ call[c].at = "store"
  /\ LET date == call[c].date
         new  == Bar(date, call[c].bar)
     IN /\ \/ Upserts(new, [d \in Dates |-> call[c].bar])
           \/ UNCHANGED <<bars, promoted>>
        /\ Goes(c, [at |-> "collect", named |-> call[c].named, missing |-> call[c].missing,
                    got |-> call[c].got, due |-> call[c].due])
  /\ UNCHANGED <<source, old, index, recorded>>

\* storeCollection, before the next date is fetched.
StoreDate(c) ==
  /\ call[c].at = "store"
  /\ LET date == call[c].date
         new  == Bar(date, call[c].bar)
     IN /\ Upserts(new, [d \in Dates |-> call[c].bar])
        /\ Goes(c, [at |-> "collect", named |-> call[c].named, missing |-> call[c].missing,
                    got |-> call[c].got \cup new, due |-> call[c].due])
  /\ UNCHANGED <<source, old, index, recorded>>

\* Ensure reads again, by the symbol of what it has collected if it was asked by
\* another name; it fails if it finds nothing.
AnswerEnsure(c) ==
  /\ call[c].at = "collect" /\ call[c].missing = {}
  /\ LET answer == IF call[c].named /\ call[c].got = {} THEN {} ELSE Stored IN
     Goes(c, IF answer = {} THEN Idle
             ELSE [at |-> "ensured", answer |-> answer, due |-> call[c].due])
  /\ UNCHANGED <<source, old, bars, promoted, index, recorded>>

\* Sync fetches the bar of a date, whether it is stored or not, and stores it.
Sync(c, date) ==
  /\ call[c] = Idle
  /\ Goes(c, [at |-> "store sync", date |-> date, bar |-> source[date]])
  /\ UNCHANGED <<source, old, bars, promoted, index, recorded>>

StoreSync(c) ==
  /\ call[c].at = "store sync"
  /\ Upserts(Bar(call[c].date, call[c].bar), [d \in Dates |-> call[c].bar])
  /\ Goes(c, Idle)
  /\ UNCHANGED <<source, old, index, recorded>>

\* The provider has the bar of a date, or a correction of it (external).
Publish(date) ==
  /\ source[date] < Latest
  /\ source' = [source EXCEPT ![date] = @ + 1]
  /\ UNCHANGED <<old, bars, promoted, index, recorded, call>>

-----------------------------------------------------------------------------
(* Migrations                                                              *)

Migrate(c) ==
  /\ call[c] = Idle
  /\ Goes(c, [at |-> "look", migration |-> "copy"])
  /\ UNCHANGED <<source, old, bars, promoted, index, recorded>>

\* After a migration comes the next one, or the end.
After(migration) ==
  IF migration = "copy" THEN [at |-> "look", migration |-> "cleanup"] ELSE Idle

\* GetRun: a recorded migration is skipped.
LookUp(c) ==
  /\ call[c].at = "look"
  /\ LET m == call[c].migration IN
     Goes(c, IF m \in recorded THEN After(m) ELSE [at |-> "apply", migration |-> m])
  /\ UNCHANGED <<source, old, bars, promoted, index, recorded>>

\* DailyBarV1ToV2Executor: one upsert of all rows of version 1, over those of
\* version 2.
Copy(c) ==
  /\ call[c].at = "apply" /\ call[c].migration = "copy"
  /\ Upserts({d \in Dates : old[d] # 0}, old)
  /\ Goes(c, [at |-> "record", migration |-> "copy"])
  /\ UNCHANGED <<source, old, index, recorded>>

\* DailyBarV2ExtensionCleanupExecutor: first the rows, ...
DeletePromoted(c) ==
  /\ call[c].at = "apply" /\ call[c].migration = "cleanup"
  /\ promoted' = {}
  /\ Goes(c, [at |-> "drop", migration |-> "cleanup"])
  /\ UNCHANGED <<source, old, bars, index, recorded>>

\* ... then the index.
DropIndex(c) ==
  /\ call[c].at = "drop"
  /\ index' = FALSE
  /\ Goes(c, [at |-> "record", migration |-> "cleanup"])
  /\ UNCHANGED <<source, old, bars, promoted, recorded>>

\* RecordApplied.
Record(c) ==
  /\ call[c].at = "record"
  /\ recorded' = recorded \cup {call[c].migration}
  /\ Goes(c, After(call[c].migration))
  /\ UNCHANGED <<source, old, bars, promoted, index>>

\* A command ends: with its answer, or early, by an error, a cancelled context or
\* the death of the process. What is written stays, but for an open transaction.
End(c) ==
  /\ call[c] # Idle
  /\ Goes(c, Idle)
  /\ UNCHANGED <<source, old, bars, promoted, index, recorded>>

-----------------------------------------------------------------------------
ClientStep(c) ==
  \/ \E named \in BOOLEAN : Ensure(c, named)
  \/ FetchDate(c) \/ StoreDate(c) \/ AnswerEnsure(c)
  \/ \E date \in Dates : Sync(c, date)
  \/ StoreSync(c)
  \/ Migrate(c) \/ LookUp(c) \/ Copy(c) \/ DeletePromoted(c) \/ DropIndex(c) \/ Record(c)
  \/ End(c)

StoreNext ==
  \/ \E c \in Clients : ClientStep(c)
  \/ \E date \in Dates : Publish(date)

StoreSpec == StoreInit /\ [][StoreNext]_storeVars

-----------------------------------------------------------------------------
\* A migration that is recorded, and so is never applied again, has done its work,
\* and no command that writes bars meanwhile or later undoes it: every bar of
\* version 1 is there in version 2; no promoted key is an extension, the index is
\* gone; and the migrations were done in their order (Runner.Apply).
RecordedIsDone ==
  /\ "copy" \in recorded => \A d \in Dates : old[d] # 0 => bars[d] # 0
  /\ "cleanup" \in recorded => "copy" \in recorded /\ promoted = {} /\ ~index

\* The answer of Ensure has no hole: it has the bar of every date for which the
\* provider or the store had one when the call began, also when an earlier call
\* failed halfway, the symbol goes by another name, or others write too (Ensure).
EnsureLeavesNoHole ==
  \A c \in Clients : call[c].at = "ensured" => call[c].due \subseteq call[c].answer
=============================================================================
