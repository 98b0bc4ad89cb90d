------------------------------- MODULE Store -------------------------------
(* The market-data store and the commands that fill and read it, one         *)
(* process each: data backfill, update-data and the fetch of a backtest.     *)
(* All share one table and, with a SQL backend, one temporary table; with    *)
(* the parquet backend the table is a file that is read, merged and          *)
(* rewritten.                                                                *)
(*                                                                           *)
(* A bar is a pair <<day, slot>>.  Prices are left out: a row is there or    *)
(* not.  Time is counted in slots of a day; now is what the provider has     *)
(* published.                                                                *)
EXTENDS Integers, FiniteSets

CONSTANTS
    Clients,       \* processes that run commands
    NumDays,       \* days 0..NumDays-1 of the configured range
    SlotsPerDay,
    Chunks,        \* lengths of a backfill window, in slots (--chunk)
    MaxRetries,    \* --max-retries
    Page,          \* bars of one answer (max_count of the Futu provider)
    Databases,     \* SQL databases to start with: <<cols, extension>>
    MaxRuns,       \* bound: commands started
    MaxCrashes     \* bound: processes killed

ASSUME StoreAssumption ==
    /\ NumDays \in Nat \ {0} /\ SlotsPerDay \in Nat \ {0}
    /\ Chunks \subseteq Nat \ {0}
    /\ MaxRetries \in Nat \ {0} /\ Page \in Nat \ {0}
    /\ Databases \subseteq BOOLEAN \X BOOLEAN
    /\ MaxRuns \in Nat /\ MaxCrashes \in Nat

VARIABLES
    backend,       \* "sql" or "parquet"
    extension,     \* is TimescaleDB enabled in PostgreSQL, or not used at all?
    cols,          \* does market_data have trade_count and vwap?
    rows,          \* bars in the table
    torn,          \* is the parquet file cut short, now unreadable?
    temp,          \* rows of temp_market_data_upload, {} when there is none
    cache,         \* cached answer of each range, {} when there is no file
    now,           \* slots the provider has published; day 0 is over
    proc,          \* the process of each client, or Idle
    acked,         \* history: bars of saves that returned
    overlapped,    \* history: has a save started during another one?
    runs, crashes

setup == <<backend, extension>>
db    == <<cols, rows, torn, temp>>
hist  == <<acked, overlapped>>
vars  == <<setup, db, cache, now, proc, hist, runs, crashes>>

Days   == 0..(NumDays - 1)
Bars   == Days \X (0..(SlotsPerDay - 1))
End    == NumDays * SlotsPerDay
Ranges == {r \in Days \X Days : r[1] = r[2] \/ r = <<0, NumDays - 1>>}

DayOf(t)        == t \div SlotsPerDay
Pos(b)          == b[1] * SlotsPerDay + b[2]
Published(t)    == {b \in Bars : Pos(b) < t}
DayBars(lo, hi) == {b \in Bars : lo <= b[1] /\ b[1] <= hi}

SqlSave == {"replace", "upsert", "dropOk", "dropErr"}
PCs == {"idle", "open", "enable", "alter", "window", "lookup", "load",
        "cached", "report", "read", "write", "mixed"} \cup SqlSave

\* kind, range, chunk: the command; skipped: history, did its process go
\* past the check of the columns; cur: start of the window; batch: the
\* bars to be saved or reported; seen: the file as read; asof and missed:
\* history, what was published when a backfill started and what it did not get.
Process == [pc : PCs, kind : {"none", "backfill", "update", "fetch"},
            range : Ranges, chunk : Chunks \cup {0}, hasDb : BOOLEAN,
            skipped : BOOLEAN, cur : 0..End, tries : 0..MaxRetries,
            batch : SUBSET Bars, seen : SUBSET Bars,
            asof : 0..End, missed : SUBSET Bars]

Idle == [pc |-> "idle", kind |-> "none", range |-> <<0, 0>>, chunk |-> 0,
         hasDb |-> TRUE, skipped |-> FALSE, cur |-> 0, tries |-> 0,
         batch |-> {}, seen |-> {}, asof |-> 0, missed |-> {}]

At(c, l)   == proc[c].pc = l
Writing(c) == proc[c].pc \in {"write", "mixed"}
Saving(c)  == proc[c].pc \in {"upsert", "dropOk", "dropErr"} \/ Writing(c)

Init ==
    /\ \/ /\ backend = "sql"
          /\ \E d \in Databases : cols = d[1] /\ extension = d[2]
       \/ backend = "parquet" /\ cols = TRUE /\ extension = TRUE
    /\ rows = {} /\ torn = FALSE /\ temp = {}
    /\ cache = [r \in Ranges |-> {}] /\ now = SlotsPerDay
    /\ proc = [c \in Clients |-> Idle]
    /\ acked = {} /\ overlapped = FALSE
    /\ runs = 0 /\ crashes = 0

Goto(c, l) == proc' = [proc EXCEPT ![c].pc = l]
Quit(c)    == proc' = [proc EXCEPT ![c] = Idle]
GotoWith(c, l, S) == proc' = [proc EXCEPT ![c].pc = l, ![c].batch = S]

----------------------------------------------------------------------------
(* Commands *)

\* A command starts: its process opens the store.
Start(c, kind, range, chunk, asof) ==
    /\ At(c, "idle") /\ runs < MaxRuns /\ runs' = runs + 1
    /\ proc' = [proc EXCEPT ![c] =
                [Idle EXCEPT !.pc = "open", !.kind = kind, !.range = range,
                             !.chunk = chunk, !.asof = asof]]
    /\ UNCHANGED <<setup, db, cache, now, hist, crashes>>

\* intraday data backfill
StartBackfill(c) ==
    \E k \in Chunks : Start(c, "backfill", <<0, NumDays - 1>>, k, now)

\* intraday update-data, for yesterday
StartUpdate(c) ==
    \E d \in Days : DayOf(now) = d + 1 /\ Start(c, "update", <<d, d>>, 0, 0)

\* The price frame of a backtest
StartFetch(c) == Start(c, "fetch", <<0, NumDays - 1>>, 0, 0)

FirstStep(c) == IF proc[c].kind = "backfill" THEN "window" ELSE "lookup"

\* mutant: the columns are taken to be there
OpenUnchecked(c) ==
    /\ At(c, "open") /\ Goto(c, IF extension THEN FirstStep(c) ELSE "enable")
    /\ UNCHANGED <<setup, db, cache, now, hist, runs, crashes>>

\* initialize_db: tables, hypertables, which raises without the extension,
\* and the check for the two late columns
Open(c) ==
    /\ At(c, "open")
    /\ Goto(c, IF ~extension THEN "enable"
               ELSE IF cols THEN FirstStep(c) ELSE "alter")
    /\ UNCHANGED <<setup, db, cache, now, hist, runs, crashes>>

\* The handler of that error enables the extension and makes the hypertables.
\* It does not go back to the check: the columns may still be missing.
EnableTimescale(c) ==
    /\ At(c, "enable")
    /\ extension' = TRUE
    /\ proc' = [proc EXCEPT ![c].pc = FirstStep(c), ![c].skipped = TRUE]
    /\ UNCHANGED <<backend, db, cache, now, hist, runs, crashes>>

\* ALTER TABLE raises when another process has added the columns since.
AlterTable(c) ==
    /\ At(c, "alter") /\ ~cols
    /\ cols' = TRUE /\ Goto(c, FirstStep(c))
    /\ UNCHANGED <<setup, rows, torn, temp, cache, now, hist, runs, crashes>>

\* The database is away, or a statement raises, before or after the extension
\* was enabled: a backtest goes on without a database, the others end.
OpenFails(c) ==
    /\ proc[c].pc \in {"open", "enable", "alter"} /\ backend = "sql"
    /\ extension' \in (IF At(c, "enable") THEN {extension, TRUE}
                                          ELSE {extension})
    /\ IF proc[c].kind = "fetch"
       THEN proc' = [proc EXCEPT ![c].hasDb = FALSE, ![c].pc = "load"]
       ELSE Quit(c)
    /\ UNCHANGED <<backend, db, cache, now, hist, runs, crashes>>

----------------------------------------------------------------------------
(* The provider *)

\* The first page of an answer
FirstPage(S) ==
    {b \in S : Cardinality({a \in S : Pos(a) < Pos(b)}) < Page}

\* get_bars: None (here {}) on any error, the bars of the days otherwise
Answers(lo, hi) == {{}, FirstPage(DayBars(lo, hi) \cap Published(now))}

SaveStep == IF backend = "sql" THEN "replace" ELSE "read"

----------------------------------------------------------------------------
(* Backfill: one window after the other, each tried MaxRetries times *)

\* mutant: the last window is not cut at the end of the range
ChunkUncut(c) == proc[c].cur + proc[c].chunk

ChunkEnd(c) == IF proc[c].cur + proc[c].chunk < End
               THEN proc[c].cur + proc[c].chunk ELSE End

\* mutant: a window starts with its first whole day
FirstWholeDay(c) == DayOf(proc[c].cur + SlotsPerDay - 1)

WindowLo(c) == DayOf(proc[c].cur)
WindowHi(c) == DayOf(ChunkEnd(c)) - 1

\* The window's answer goes to the store.
WindowGot(c) ==
    /\ At(c, "window") /\ proc[c].cur < End
    /\ \E a \in Answers(WindowLo(c), WindowHi(c)) \ {{}} :
        proc' = [proc EXCEPT ![c].batch = a, ![c].pc = SaveStep,
                    ![c].missed =
                        @ \cup (DayBars(WindowLo(c), WindowHi(c)) \ a)]
    /\ UNCHANGED <<setup, db, cache, now, hist, runs, crashes>>

GivesUp(c) == proc[c].tries + 1 >= MaxRetries

\* mutant: attempts are not counted
WindowEmptyUncounted(c) ==
    /\ At(c, "window") /\ proc[c].cur < End
    /\ UNCHANGED <<proc, setup, db, cache, now, hist, runs, crashes>>

\* No data: the next attempt follows at once, the last one skips the window.
WindowEmpty(c) ==
    /\ At(c, "window") /\ proc[c].cur < End
    /\ proc' = IF GivesUp(c)
               THEN [proc EXCEPT ![c].tries = 0, ![c].cur = ChunkEnd(c),
                        ![c].missed =
                            @ \cup DayBars(WindowLo(c), WindowHi(c))]
               ELSE [proc EXCEPT ![c].tries = @ + 1]
    /\ UNCHANGED <<setup, db, cache, now, hist, runs, crashes>>

\* "Backfill complete", whatever was missed
BackfillEnds(c) ==
    /\ At(c, "window") /\ proc[c].cur = End /\ Quit(c)
    /\ UNCHANGED <<setup, db, cache, now, hist, runs, crashes>>

----------------------------------------------------------------------------
(* fetch_historical_data: database, then cache, then provider *)

\* mutant: an unreadable file is taken for an empty one
AlwaysReadable == {TRUE}

\* A file that is being written may or may not be readable.
Readable == IF torn THEN {FALSE}
            ELSE IF \E d \in Clients : Writing(d) THEN BOOLEAN ELSE {TRUE}

\* What reading the table may give: a SQL error reads as no rows.
DbAnswers(range) ==
    {DayBars(range[1], range[2]) \cap rows}
        \cup (IF backend = "sql" THEN {{}} ELSE {})

\* With the answer at hand, update-data checks it and a backtest uses it.
Deliver(c, a) ==
    IF proc[c].kind = "update" THEN GotoWith(c, "report", a) ELSE Quit(c)

\* Any row in the range is a hit.
Lookup(c) ==
    /\ At(c, "lookup") /\ TRUE \in Readable
    /\ \E a \in DbAnswers(proc[c].range) :
            IF a = {} THEN Goto(c, "load") ELSE Deliver(c, a)
    /\ UNCHANGED <<setup, db, cache, now, hist, runs, crashes>>

\* An unreadable file raises, from a read or a save: the command ends.
ReadFails(c) ==
    /\ proc[c].pc \in {"lookup", "read"} /\ FALSE \in Readable /\ Quit(c)
    /\ UNCHANGED <<setup, db, cache, now, hist, runs, crashes>>

Cached(c) == cache[proc[c].range]

\* A cached answer is used as it is and not saved to the database.
LoadCached(c) ==
    /\ At(c, "load") /\ Cached(c) # {} /\ Deliver(c, Cached(c))
    /\ UNCHANGED <<setup, db, cache, now, hist, runs, crashes>>

\* The provider's answer goes to the store, then to the cache.
LoadRemote(c) ==
    /\ At(c, "load") /\ Cached(c) = {}
    /\ \E a \in Answers(proc[c].range[1], proc[c].range[2]) :
        IF a = {} THEN Quit(c)
        ELSE GotoWith(c, IF proc[c].hasDb THEN SaveStep ELSE "cached", a)
    /\ UNCHANGED <<setup, db, cache, now, hist, runs, crashes>>

\* A failed write is only logged; the file is as it was, or unreadable, which
\* _load_from_cache takes for none.
WriteCache(c) ==
    /\ At(c, "cached")
    /\ \E file \in {proc[c].batch, Cached(c), {}} :
            cache' = [cache EXCEPT ![proc[c].range] = file]
    /\ Deliver(c, proc[c].batch)
    /\ UNCHANGED <<setup, db, now, hist, runs, crashes>>

\* The quality checks look at the answer and leave a report; whatever they
\* find, the command is over.
WriteReport(c) ==
    /\ At(c, "report") /\ Quit(c)
    /\ UNCHANGED <<setup, db, cache, now, hist, runs, crashes>>

----------------------------------------------------------------------------
(* save_market_data *)

\* A save enters: with another one on its way the two overlap.
Entering(c) ==
    overlapped' = (overlapped \/ \E d \in Clients \ {c} : Saving(d))

\* The command goes on after a save that returned.
Saved(c) ==
    /\ acked' = acked \cup proc[c].batch
    /\ proc' = IF proc[c].kind = "backfill"
               THEN [proc EXCEPT ![c].pc = "window", ![c].tries = 0,
                        ![c].cur = ChunkEnd(c), ![c].batch = {},
                        ![c].seen = {}]
               ELSE [proc EXCEPT ![c].pc = "cached", ![c].seen = {}]

\* to_sql(if_exists="replace"): the temporary table is ours from here on.
ReplaceTemp(c) ==
    /\ At(c, "replace")
    /\ temp' = proc[c].batch /\ Goto(c, "upsert") /\ Entering(c)
    /\ UNCHANGED <<setup, cols, rows, torn, cache, now, acked, runs,
                   crashes>>

\* The database refuses it: the save raises and the command ends.
ReplaceFails(c) ==
    /\ At(c, "replace") /\ Quit(c)
    /\ UNCHANGED <<setup, db, cache, now, hist, runs, crashes>>

\* mutant: the upload replaces the table
UpsertReplaces(c) ==
    /\ At(c, "upsert") /\ temp # {} /\ cols
    /\ rows' = temp /\ Goto(c, "dropOk")
    /\ UNCHANGED <<setup, cols, torn, temp, cache, now, hist, runs, crashes>>

\* Whatever the temporary table holds is merged.
Upsert(c) ==
    /\ At(c, "upsert") /\ temp # {} /\ cols
    /\ rows' = rows \cup temp /\ Goto(c, "dropOk")
    /\ UNCHANGED <<setup, cols, torn, temp, cache, now, hist, runs, crashes>>

\* Without a temporary table, or on a database error, it raises.
UpsertFails(c) ==
    /\ At(c, "upsert") /\ Goto(c, "dropErr")
    /\ UNCHANGED <<setup, db, cache, now, hist, runs, crashes>>

\* The finally clause, after an upsert that worked.  A DROP that fails ends
\* the command as Crash does.
DropOk(c) ==
    /\ At(c, "dropOk") /\ temp' = {} /\ Saved(c)
    /\ UNCHANGED <<setup, cols, rows, torn, cache, now, overlapped, runs,
                   crashes>>

\* The finally clause, after one that raised: the command ends.
DropErr(c) ==
    /\ At(c, "dropErr") /\ temp' = {} /\ Quit(c)
    /\ UNCHANGED <<setup, cols, rows, torn, cache, now, hist, runs, crashes>>

\* mutant: the file is rewritten with the batch only
BatchOnly(c) == proc[c].batch

\* What the rewritten file holds: all that was read, and the batch
Merged(c) == proc[c].seen \cup proc[c].batch

\* The file is read; from here on it may be open for writing, which empties
\* it, until the writer is done.  Writers that meet mix their contents.
ReadFile(c) ==
    /\ At(c, "read") /\ TRUE \in Readable
    /\ proc' = [d \in Clients |->
            IF d = c THEN [proc[d] EXCEPT !.seen = rows,
                !.pc = IF \E e \in Clients : Writing(e)
                       THEN "mixed" ELSE "write"]
            ELSE IF Writing(d) THEN [proc[d] EXCEPT !.pc = "mixed"]
            ELSE proc[d]]
    /\ Entering(c)
    /\ UNCHANGED <<setup, db, cache, now, acked, runs, crashes>>

FinishWrite(c) ==
    /\ Writing(c)
    /\ rows' = Merged(c)
    /\ torn' \in (IF At(c, "mixed") THEN BOOLEAN ELSE {FALSE})
    /\ Saved(c)
    /\ UNCHANGED <<setup, cols, temp, cache, now, overlapped, runs,
                   crashes>>

----------------------------------------------------------------------------

\* The process is killed; a file it was writing is cut short.
Crash(c) ==
    /\ ~At(c, "idle") /\ crashes < MaxCrashes /\ crashes' = crashes + 1
    /\ torn' \in (IF Writing(c) THEN {torn, TRUE} ELSE {torn})
    /\ Quit(c)
    /\ UNCHANGED <<setup, cols, rows, temp, cache, now, hist, runs>>

\* The provider publishes the next bar.
Publish ==
    /\ now < End /\ now' = now + 1
    /\ UNCHANGED <<setup, db, cache, proc, hist, runs, crashes>>

Step(c) ==
    \/ Open(c) \/ EnableTimescale(c) \/ AlterTable(c) \/ OpenFails(c)
    \/ WindowGot(c) \/ WindowEmpty(c) \/ BackfillEnds(c)
    \/ Lookup(c) \/ ReadFails(c) \/ LoadCached(c) \/ LoadRemote(c)
    \/ WriteCache(c) \/ WriteReport(c)
    \/ ReplaceTemp(c) \/ ReplaceFails(c) \/ Upsert(c) \/ UpsertFails(c)
    \/ DropOk(c) \/ DropErr(c) \/ ReadFile(c) \/ FinishWrite(c)

Next ==
    \/ Publish
    \/ \E c \in Clients : \/ StartBackfill(c) \/ StartUpdate(c)
                          \/ StartFetch(c) \/ Crash(c) \/ Step(c)

Spec == Init /\ [][Next]_vars

\* A process that runs is scheduled.
FairSpec == Spec /\ \A c \in Clients : WF_vars(Step(c))

----------------------------------------------------------------------------
(* Properties *)

TypeOK ==
    /\ backend \in {"sql", "parquet"} /\ cols \in BOOLEAN
    /\ extension \in BOOLEAN
    /\ rows \in SUBSET Bars /\ torn \in BOOLEAN /\ temp \in SUBSET Bars
    /\ cache \in [Ranges -> SUBSET Bars] /\ now \in 0..End
    /\ proc \in [Clients -> Process]
    /\ acked \in SUBSET Bars /\ overlapped \in BOOLEAN
    /\ runs \in 0..MaxRuns /\ crashes \in 0..MaxCrashes

(* As long as no two saves overlapped, the bars of every save that returned  *)
(* are in the table, whatever was killed, refused or retried in between:     *)
(* the merge of save_market_data loses nothing and a left-over temporary     *)
(* table is not taken for a later one.                                       *)
AckedStored == ~overlapped => acked \subseteq rows

(* A backfill that is through with some windows, of any length, has asked    *)
(* for every bar before them: what was published when it started is in the   *)
(* table, except for what the provider did not return.  Windows are cut into *)
(* days (_backfill_window), which must neither leave a gap between two of    *)
(* them nor skip the last day.                                               *)
BackfillFills ==
    \A c \in Clients :
        At(c, "window") /\ ~overlapped =>
            {b \in Published(proc[c].asof) : b[1] < DayOf(proc[c].cur)}
                \subseteq rows \cup proc[c].missed

(* A save never finds the table without the two columns it names, although   *)
(* each process checks for them and adds them in two steps, and a backtest   *)
(* goes on after a failed check (initialize_db, _ensure_market_data_columns).*)
(* The one way past the check is the handler that enables TimescaleDB: a     *)
(* process that went there may save into a table without them and fail, and  *)
(* no other one does.                                                        *)
SavesFindColumns ==
    \A c \in Clients : proc[c].pc \in SqlSave => cols \/ proc[c].skipped

\* The parquet file is cut short and nobody is about to rewrite it.
Ruined == torn /\ \A c \in Clients : ~Writing(c)

(* No command mends a file that a killed writer has cut short: every later   *)
(* save and every later read of every process raises (save_market_data and   *)
(* get_market_data of ParquetStore), until somebody removes it.              *)
RuinedForGood == [][Ruined => Ruined']_vars

(* Every command ends: retries are bounded and the windows of a backfill     *)
(* advance whatever their length.                                            *)
CommandsEnd == \A c \in Clients : ~At(c, "idle") ~> At(c, "idle")

\* How many steps a command still has ahead of it in its window, at most
Ahead == [open |-> 9, enable |-> 8, alter |-> 8, window |-> 7, lookup |-> 7,
          load |-> 6, replace |-> 5, read |-> 5, upsert |-> 4, write |-> 4,
          mixed |-> 4, dropOk |-> 3, dropErr |-> 3, cached |-> 2,
          report |-> 1, idle |-> 0]

\* q is further than p: in a later window, at a later attempt on the same
\* one, or with fewer steps ahead of it.
Further(q, p) ==
    \/ q.cur > p.cur
    \/ q.cur = p.cur /\ q.tries > p.tries
    \/ q.cur = p.cur /\ q.tries = p.tries /\ Ahead[q.pc] < Ahead[p.pc]

(* Why commands end: each step of one takes it further, through a bounded    *)
(* number of windows, attempts and steps, or ends it, and what another       *)
(* process does sets it back by nothing.                                     *)
CommandsAdvance ==
    [][\A c \in Clients :
         /\ Step(c) => At(c, "idle")' \/ Further(proc'[c], proc[c])
         /\ \/ At(c, "idle") \/ At(c, "idle")'
            \/ Further(proc'[c], proc[c])
            \/ /\ proc'[c].cur = proc[c].cur
               /\ proc'[c].tries = proc[c].tries
               /\ Ahead[proc'[c].pc] = Ahead[proc[c].pc]]_vars

Promise == INSTANCE BarPromise WITH shared <- overlapped

(* The store, with either backend, keeps what BarPromise promises.           *)
KeepsPromise == Promise!Spec
=============================================================================
