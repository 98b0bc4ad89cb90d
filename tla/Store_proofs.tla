---------------------------- MODULE Store_proofs ----------------------------
(***************************************************************************)
(* Proofs about Store, for any number of processes, days, slots, windows,  *)
(* retries and crashes, and for both backends.                             *)
(***************************************************************************)
EXTENDS Store, TLAPS

USE StoreAssumption DEF setup

----------------------------------------------------------------------------
(* Types *)

LEMMA EndType == End \in Nat /\ SlotsPerDay <= End
<1>1. \A n, s \in Nat \ {0} : n * s \in Nat /\ s <= n * s
  OBVIOUS
<1> QED
  BY <1>1 DEF End

LEMMA RangeTypes ==
  /\ <<0, NumDays - 1>> \in Ranges
  /\ \A d \in Days : <<d, d>> \in Ranges
  /\ <<0, 0>> \in Ranges
  BY DEF Ranges, Days

LEMMA IdleType == Idle \in Process
  BY RangeTypes, EndType DEF Idle, Process, PCs

LEMMA PcNames ==
  /\ {"idle", "open", "enable", "alter"} \subseteq PCs
  /\ {"window", "lookup", "load", "cached"} \subseteq PCs
  /\ {"report", "read", "write", "mixed"} \subseteq PCs
  /\ {"replace", "upsert", "dropOk", "dropErr"} \subseteq PCs
  BY DEF PCs, SqlSave

LEMMA ProcType ==
  ASSUME TypeOK, NEW c \in Clients
  PROVE  proc[c] \in Process
  BY DEF TypeOK

LEMMA ChunkEndType ==
  ASSUME TypeOK, NEW c \in Clients
  PROVE  /\ ChunkEnd(c) \in 0..End
         /\ WindowLo(c) = DayOf(proc[c].cur)
         /\ WindowHi(c) = DayOf(ChunkEnd(c)) - 1
<1>1. proc[c].cur \in 0..End /\ proc[c].chunk \in Nat
  <2>1. proc[c].cur \in 0..End /\ proc[c].chunk \in Chunks \cup {0}
    BY ProcType DEF Process
  <2>2. Chunks \cup {0} \subseteq Nat
    OBVIOUS
  <2> QED
    BY <2>1, <2>2
<1> QED
  BY <1>1, EndType DEF ChunkEnd, WindowLo, WindowHi

LEMMA AnswerType ==
  ASSUME NEW lo, NEW hi, NEW a \in Answers(lo, hi) PROVE a \in SUBSET Bars
  BY DEF Answers, FirstPage, DayBars

\* One process takes a step, the others stay where they are.
LEMMA Moved ==
  ASSUME proc \in [Clients -> Process], NEW c \in Clients, NEW p \in Process,
         proc' = [proc EXCEPT ![c] = p]
  PROVE  /\ proc' \in [Clients -> Process]
         /\ proc'[c] = p
         /\ \A d \in Clients \ {c} : proc'[d] = proc[d]
  OBVIOUS

\* What no move changes but a start and an end: the command
Like(q, p) ==
  /\ q.kind = p.kind /\ q.chunk = p.chunk /\ q.asof = p.asof
  /\ q.skipped = p.skipped

Stay(c) == \A d \in Clients \ {c} : proc'[d] = proc[d]

LEMMA PcFields ==
  ASSUME NEW p \in Process, NEW l
  PROVE  LET q == [p EXCEPT !.pc = l]
         IN  /\ q.pc = l /\ Like(q, p) /\ q.cur = p.cur
             /\ q.tries = p.tries /\ q.batch = p.batch
             /\ q.missed = p.missed
  BY DEF Process, Like

LEMMA BatchFields ==
  ASSUME NEW p \in Process, NEW l, NEW S
  PROVE  LET q == [p EXCEPT !.pc = l, !.batch = S]
         IN  /\ q.pc = l /\ Like(q, p) /\ q.cur = p.cur
             /\ q.tries = p.tries /\ q.batch = S
             /\ q.missed = p.missed
  BY DEF Process, Like

LEMMA SavedFields ==
  ASSUME NEW p \in Process, NEW e
  PROVE  LET q == [p EXCEPT !.pc = "window", !.tries = 0, !.cur = e,
                            !.batch = {}, !.seen = {}]
             r == [p EXCEPT !.pc = "cached", !.seen = {}]
         IN  /\ q.pc = "window" /\ Like(q, p) /\ q.cur = e
             /\ q.missed = p.missed
             /\ r.pc = "cached" /\ Like(r, p) /\ r.cur = p.cur
             /\ r.tries = p.tries
             /\ r.missed = p.missed
  BY DEF Process, Like

LEMMA GotFields ==
  ASSUME NEW p \in Process, NEW a, NEW l, NEW S
  PROVE  LET q == [p EXCEPT !.batch = a, !.pc = l, !.missed = @ \cup S]
         IN  /\ q.pc = l /\ Like(q, p) /\ q.cur = p.cur
             /\ q.tries = p.tries /\ q.batch = a
             /\ q.missed = p.missed \cup S
  BY DEF Process, Like

LEMMA SkippedFields ==
  ASSUME NEW p \in Process, NEW S, NEW e
  PROVE  LET r == [p EXCEPT !.tries = 0, !.cur = e, !.missed = @ \cup S]
         IN  /\ r.pc = p.pc /\ Like(r, p) /\ r.cur = e
             /\ r.missed = p.missed \cup S
  BY DEF Process, Like

LEMMA TriedFields ==
  ASSUME NEW p \in Process, NEW n
  PROVE  LET t == [p EXCEPT !.tries = n]
         IN  /\ t.pc = p.pc /\ Like(t, p) /\ t.cur = p.cur
             /\ t.tries = n /\ t.missed = p.missed
  BY DEF Process, Like

LEMMA GotoType ==
  ASSUME TypeOK, NEW c \in Clients, NEW l \in PCs, Goto(c, l)
  PROVE  /\ proc' \in [Clients -> Process] /\ Stay(c)
         /\ proc'[c].pc = l /\ Like(proc'[c], proc[c])
         /\ proc'[c].cur = proc[c].cur
         /\ proc'[c].tries = proc[c].tries /\ proc'[c].batch = proc[c].batch
         /\ proc'[c].missed = proc[c].missed
<1>1. [proc[c] EXCEPT !.pc = l] \in Process
  BY ProcType DEF Process
<1>2. proc'[c] = [proc[c] EXCEPT !.pc = l] /\ proc' \in [Clients -> Process]
         /\ Stay(c)
  BY <1>1, Moved DEF Goto, TypeOK, Stay
<1> DEFINE q == [proc[c] EXCEPT !.pc = l]
<1>3. /\ q.pc = l /\ Like(q, proc[c]) /\ q.cur = proc[c].cur
      /\ q.tries = proc[c].tries /\ q.batch = proc[c].batch
      /\ q.missed = proc[c].missed
  BY ProcType, PcFields
<1> HIDE DEF q
<1> QED
  BY <1>2, <1>3 DEF q

LEMMA QuitType ==
  ASSUME TypeOK, NEW c \in Clients, Quit(c)
  PROVE  proc' \in [Clients -> Process] /\ proc'[c] = Idle /\ Stay(c)
  BY IdleType, Moved DEF Quit, TypeOK, Stay

LEMMA GotoWithType ==
  ASSUME TypeOK, NEW c \in Clients, NEW l \in PCs, NEW S \in SUBSET Bars,
         GotoWith(c, l, S)
  PROVE  /\ proc' \in [Clients -> Process] /\ Stay(c)
         /\ proc'[c].pc = l /\ Like(proc'[c], proc[c]) /\ proc'[c].batch = S
         /\ proc'[c].cur = proc[c].cur
         /\ proc'[c].tries = proc[c].tries /\ proc'[c].missed = proc[c].missed
<1>1. [proc[c] EXCEPT !.pc = l, !.batch = S] \in Process
  BY ProcType DEF Process
<1>2. /\ proc'[c] = [proc[c] EXCEPT !.pc = l, !.batch = S]
      /\ proc' \in [Clients -> Process] /\ Stay(c)
  BY <1>1, Moved DEF GotoWith, TypeOK, Stay
<1>3. LET q == [proc[c] EXCEPT !.pc = l, !.batch = S]
      IN  /\ q.pc = l /\ Like(q, proc[c]) /\ q.cur = proc[c].cur
          /\ q.tries = proc[c].tries
          /\ q.batch = S /\ q.missed = proc[c].missed
  BY ProcType DEF Process, Like
<1> QED
  BY <1>2, <1>3

\* A command with its answer: to the report, or to the end
LEMMA DeliverType ==
  ASSUME TypeOK, NEW c \in Clients, NEW S \in SUBSET Bars, Deliver(c, S)
  PROVE  /\ proc' \in [Clients -> Process] /\ Stay(c)
         /\ \/ /\ proc[c].kind = "update" /\ proc'[c].pc = "report"
               /\ Like(proc'[c], proc[c]) /\ proc'[c].cur = proc[c].cur
               /\ proc'[c].tries = proc[c].tries
               /\ proc'[c].missed = proc[c].missed
            \/ proc'[c] = Idle
<1>1. "report" \in PCs
  BY PcNames
<1>2. CASE proc[c].kind = "update" /\ GotoWith(c, "report", S)
  BY <1>1, <1>2, GotoWithType
<1>3. CASE Quit(c)
  BY <1>3, QuitType
<1> QED
  BY <1>2, <1>3 DEF Deliver

LEMMA StartType ==
  ASSUME TypeOK, NEW c \in Clients, NEW kind \in {"backfill", "update", "fetch"},
         NEW range \in Ranges, NEW chunk \in Chunks \cup {0},
         NEW asof \in 0..End, Start(c, kind, range, chunk, asof)
  PROVE  /\ proc' \in [Clients -> Process] /\ Stay(c)
         /\ proc'[c].pc = "open" /\ proc'[c].cur = 0
         /\ proc'[c].kind = kind /\ proc'[c].chunk = chunk
<1> DEFINE p == [Idle EXCEPT !.pc = "open", !.kind = kind,
                    !.range = range, !.chunk = chunk, !.asof = asof]
<1>1. /\ p \in Process /\ p.pc = "open" /\ p.cur = 0
      /\ p.kind = kind /\ p.chunk = chunk
  <2>1. "open" \in PCs /\ Idle \in Process /\ Idle.cur = 0
    BY PcNames, IdleType DEF Idle
  <2> QED
    BY <2>1 DEF Process
<1>2. proc' = [proc EXCEPT ![c] = p]
  BY DEF Start
<1> HIDE DEF p
<1> QED
  BY <1>1, <1>2, Moved DEF TypeOK, Stay

LEMMA StartsType ==
  ASSUME TypeOK, NEW c \in Clients,
         StartBackfill(c) \/ StartUpdate(c) \/ StartFetch(c)
  PROVE  /\ proc' \in [Clients -> Process] /\ Stay(c)
         /\ proc'[c].pc = "open" /\ proc'[c].cur = 0
         /\ proc'[c].kind = "backfill" => proc'[c].chunk \in Chunks
         /\ UNCHANGED <<setup, db, cache, now, hist, crashes>>
         /\ runs' \in 0..MaxRuns
<1>1. now \in 0..End /\ 0 \in 0..End /\ runs \in 0..MaxRuns
  BY EndType DEF TypeOK
<1>2. PICK kind \in {"backfill", "update", "fetch"}, range \in Ranges,
           chunk \in Chunks \cup {0}, asof \in 0..End :
             /\ Start(c, kind, range, chunk, asof)
             /\ kind = "backfill" => chunk \in Chunks
  BY <1>1, RangeTypes DEF StartBackfill, StartUpdate, StartFetch
<1>3. runs' \in 0..MaxRuns /\ UNCHANGED <<setup, db, cache, now, hist, crashes>>
  BY <1>1, <1>2 DEF Start
<1> QED
  BY <1>2, <1>3, StartType

LEMMA SavedType ==
  ASSUME TypeOK, NEW c \in Clients, Saved(c)
  PROVE  /\ proc' \in [Clients -> Process] /\ Stay(c)
         /\ Like(proc'[c], proc[c]) /\ proc'[c].missed = proc[c].missed
         /\ \/ /\ proc[c].kind = "backfill" /\ proc'[c].pc = "window"
               /\ proc'[c].cur = ChunkEnd(c)
            \/ /\ proc[c].kind # "backfill" /\ proc'[c].pc = "cached"
               /\ proc'[c].cur = proc[c].cur
               /\ proc'[c].tries = proc[c].tries
         /\ acked' = acked \cup proc[c].batch /\ acked' \in SUBSET Bars
<1> DEFINE p == [proc[c] EXCEPT !.pc = "window", !.tries = 0,
                   !.cur = ChunkEnd(c), !.batch = {}, !.seen = {}]
           q == [proc[c] EXCEPT !.pc = "cached", !.seen = {}]
<1>1. p \in Process
  <2>1. "window" \in PCs /\ ChunkEnd(c) \in 0..End /\ 0 \in 0..MaxRetries
    BY PcNames, ChunkEndType
  <2>2. ASSUME NEW S, NEW e \in S, NEW R, 0 \in R, NEW r,
               r \in [pc : PCs, kind : {"none", "backfill", "update", "fetch"},
                  range : Ranges, chunk : Chunks \cup {0}, hasDb : BOOLEAN,
                  skipped : BOOLEAN, cur : S, tries : R, batch : SUBSET Bars,
                  seen : SUBSET Bars, asof : 0..End, missed : SUBSET Bars]
        PROVE  [r EXCEPT !.pc = "window", !.tries = 0, !.cur = e,
                         !.batch = {}, !.seen = {}] \in
                 [pc : PCs, kind : {"none", "backfill", "update", "fetch"},
                  range : Ranges, chunk : Chunks \cup {0}, hasDb : BOOLEAN,
                  skipped : BOOLEAN, cur : S, tries : R, batch : SUBSET Bars,
                  seen : SUBSET Bars, asof : 0..End, missed : SUBSET Bars]
    BY <2>1, <2>2
  <2>3. proc[c] \in Process
    BY ProcType
  <2> QED
    BY <2>1, <2>2, <2>3 DEF Process
<1>2. q \in Process
  BY ProcType, PcNames DEF Process
<1>3. proc[c].batch \in SUBSET Bars /\ proc[c] \in Process
  BY ProcType DEF Process
<1>4. /\ p.pc = "window" /\ Like(p, proc[c]) /\ p.cur = ChunkEnd(c)
      /\ p.missed = proc[c].missed
      /\ q.pc = "cached" /\ Like(q, proc[c]) /\ q.cur = proc[c].cur
      /\ q.tries = proc[c].tries
      /\ q.missed = proc[c].missed
  BY <1>3, SavedFields
<1>5. \/ proc[c].kind = "backfill" /\ proc' = [proc EXCEPT ![c] = p]
      \/ proc[c].kind # "backfill" /\ proc' = [proc EXCEPT ![c] = q]
  BY DEF Saved
<1>6. acked' = acked \cup proc[c].batch /\ acked' \in SUBSET Bars
  BY <1>3 DEF Saved, TypeOK
<1> HIDE DEF p, q
<1> QED
  BY <1>1, <1>2, <1>4, <1>5, <1>6, Moved DEF TypeOK, Stay

LEMMA WindowGotType ==
  ASSUME TypeOK, NEW c \in Clients, WindowGot(c)
  PROVE  /\ proc' \in [Clients -> Process] /\ Stay(c)
         /\ proc'[c].pc = SaveStep /\ Like(proc'[c], proc[c])
         /\ proc'[c].cur = proc[c].cur
         /\ proc'[c].tries = proc[c].tries
         /\ proc'[c].missed = proc[c].missed \cup
               (DayBars(WindowLo(c), WindowHi(c)) \ proc'[c].batch)
<1>1. PICK a \in Answers(WindowLo(c), WindowHi(c)) :
        proc' = [proc EXCEPT ![c].batch = a, ![c].pc = SaveStep,
                    ![c].missed =
                        @ \cup (DayBars(WindowLo(c), WindowHi(c)) \ a)]
  BY DEF WindowGot
<1> DEFINE M == DayBars(WindowLo(c), WindowHi(c)) \ a
           p == [proc[c] EXCEPT !.batch = a, !.pc = SaveStep,
                                !.missed = @ \cup M]
<1>2. a \in SUBSET Bars /\ SaveStep \in PCs /\ M \in SUBSET Bars
  BY AnswerType, PcNames DEF SaveStep, DayBars
<1>3. proc' = [proc EXCEPT ![c] = p]
  BY <1>1
<1> HIDE DEF M
<1>4. p \in Process
  BY <1>2, ProcType DEF Process
<1>5. /\ p.pc = SaveStep /\ Like(p, proc[c]) /\ p.cur = proc[c].cur
      /\ p.tries = proc[c].tries
      /\ p.batch = a /\ p.missed = proc[c].missed \cup M
  <2>1. \A r \in Process :
          LET q == [r EXCEPT !.batch = a, !.pc = SaveStep, !.missed = @ \cup M]
          IN  /\ q.pc = SaveStep /\ Like(q, r) /\ q.cur = r.cur
              /\ q.tries = r.tries /\ q.batch = a
              /\ q.missed = r.missed \cup M
    BY DEF Process, Like
  <2> QED
    BY <2>1, ProcType
<1> HIDE DEF p
<1> QED
  BY <1>3, <1>4, <1>5, Moved DEF TypeOK, Stay, M

LEMMA WindowEmptyType ==
  ASSUME TypeOK, NEW c \in Clients, WindowEmpty(c)
  PROVE  /\ proc' \in [Clients -> Process] /\ Stay(c)
         /\ proc'[c].pc = "window" /\ Like(proc'[c], proc[c])
         /\ \/ /\ proc'[c].cur = ChunkEnd(c)
               /\ proc'[c].missed = proc[c].missed \cup
                     DayBars(WindowLo(c), WindowHi(c))
            \/ /\ proc'[c].cur = proc[c].cur
               /\ proc'[c].tries = proc[c].tries + 1
               /\ proc'[c].missed = proc[c].missed
<1> DEFINE D == DayBars(WindowLo(c), WindowHi(c))
           p == [proc[c] EXCEPT !.tries = 0, !.cur = ChunkEnd(c),
                                !.missed = @ \cup D]
           q == [proc[c] EXCEPT !.tries = @ + 1]
<1>1. D \in SUBSET Bars
  BY DEF DayBars
<1>2. proc[c] \in Process /\ proc[c].pc = "window"
  BY ProcType DEF WindowEmpty, At
<1>3. \/ GivesUp(c) /\ proc' = [proc EXCEPT ![c] = p]
      \/ ~GivesUp(c) /\ proc' = [proc EXCEPT ![c] = q]
  BY DEF WindowEmpty
<1> HIDE DEF D
<1>4. p \in Process
  <2>2. ASSUME NEW S, ChunkEnd(c) \in S, NEW R, 0 \in R, NEW M,
               M \in SUBSET Bars, NEW r,
               r \in [pc : PCs, kind : {"none", "backfill", "update", "fetch"},
                  range : Ranges, chunk : Chunks \cup {0}, hasDb : BOOLEAN,
                  skipped : BOOLEAN, cur : S, tries : R, batch : SUBSET Bars,
                  seen : SUBSET Bars, asof : 0..End, missed : SUBSET Bars]
        PROVE  [r EXCEPT !.tries = 0, !.cur = ChunkEnd(c), !.missed = @ \cup M]
              \in [pc : PCs, kind : {"none", "backfill", "update", "fetch"},
                  range : Ranges, chunk : Chunks \cup {0}, hasDb : BOOLEAN,
                  skipped : BOOLEAN, cur : S, tries : R, batch : SUBSET Bars,
                  seen : SUBSET Bars, asof : 0..End, missed : SUBSET Bars]
    BY <2>2
  <2>3. ChunkEnd(c) \in 0..End /\ 0 \in 0..MaxRetries
    BY ChunkEndType
  <2> QED
    BY <1>1, <1>2, <2>2, <2>3 DEF Process
<1>5. ~GivesUp(c) => q \in Process
  <2>1. ASSUME ~GivesUp(c)
        PROVE  proc[c].tries \in 0..MaxRetries /\ proc[c].tries + 1 < MaxRetries
    BY <1>2, <2>1 DEF Process, GivesUp
  <2> QED
    BY <1>2, <2>1 DEF Process
<1>6. /\ p.pc = "window" /\ Like(p, proc[c]) /\ p.cur = ChunkEnd(c)
      /\ p.missed = proc[c].missed \cup D
      /\ q.pc = "window" /\ Like(q, proc[c]) /\ q.cur = proc[c].cur
      /\ q.tries = proc[c].tries + 1
      /\ q.missed = proc[c].missed
  <2>1. \A r \in Process :
          LET t == [r EXCEPT !.tries = 0, !.cur = ChunkEnd(c), !.missed = @ \cup D]
          IN  /\ t.pc = r.pc /\ Like(t, r) /\ t.cur = ChunkEnd(c)
              /\ t.missed = r.missed \cup D
    BY DEF Process, Like
  <2>2. \A r \in Process : \A n :
          LET t == [r EXCEPT !.tries = n]
          IN  /\ t.pc = r.pc /\ Like(t, r) /\ t.cur = r.cur
              /\ t.tries = n /\ t.missed = r.missed
    BY TriedFields, Zenon
  <2> QED
    BY <1>2, <2>1, <2>2
<1> HIDE DEF p, q
<1> QED
  BY <1>3, <1>4, <1>5, <1>6, Moved DEF TypeOK, Stay, D

LEMMA LoadRemoteType ==
  ASSUME TypeOK, NEW c \in Clients, LoadRemote(c)
  PROVE  /\ proc' \in [Clients -> Process] /\ Stay(c)
         /\ \/ /\ proc'[c].pc = IF proc[c].hasDb THEN SaveStep ELSE "cached"
               /\ Like(proc'[c], proc[c]) /\ proc'[c].cur = proc[c].cur
               /\ proc'[c].tries = proc[c].tries
               /\ proc'[c].missed = proc[c].missed
            \/ proc'[c] = Idle
<1> DEFINE l == IF proc[c].hasDb THEN SaveStep ELSE "cached"
<1>1. PICK a \in Answers(proc[c].range[1], proc[c].range[2]) :
        Quit(c) \/ GotoWith(c, l, a)
  BY DEF LoadRemote
<1>2. l \in PCs
  BY PcNames DEF SaveStep
<1> HIDE DEF l
<1>3. a \in SUBSET Bars
  BY AnswerType
<1>4. CASE GotoWith(c, l, a)
  BY <1>2, <1>3, <1>4, GotoWithType DEF l
<1>5. CASE Quit(c)
  BY <1>5, QuitType
<1> QED
  BY <1>1, <1>4, <1>5

LEMMA OpenFailsType ==
  ASSUME TypeOK, NEW c \in Clients, OpenFails(c)
  PROVE  /\ proc' \in [Clients -> Process] /\ Stay(c)
         /\ \/ /\ proc[c].kind = "fetch" /\ proc'[c].pc = "load"
               /\ ~proc'[c].hasDb
               /\ Like(proc'[c], proc[c]) /\ proc'[c].cur = proc[c].cur
               /\ proc'[c].tries = proc[c].tries
               /\ proc'[c].missed = proc[c].missed
            \/ proc'[c] = Idle
<1> DEFINE p == [proc[c] EXCEPT !.hasDb = FALSE, !.pc = "load"]
<1>1. /\ p \in Process /\ p.pc = "load" /\ ~p.hasDb /\ Like(p, proc[c])
      /\ p.cur = proc[c].cur
      /\ p.tries = proc[c].tries /\ p.missed = proc[c].missed
  BY ProcType, PcNames DEF Process, Like
<1>2. CASE proc[c].kind = "fetch" /\ proc' = [proc EXCEPT ![c] = p]
  <2> HIDE DEF p
  <2> QED
    BY <1>1, <1>2, Moved DEF TypeOK, Stay
<1>3. CASE Quit(c)
  BY <1>3, QuitType
<1> QED
  BY <1>2, <1>3 DEF OpenFails

LEMMA EnableType ==
  ASSUME TypeOK, NEW c \in Clients, EnableTimescale(c)
  PROVE  /\ proc' \in [Clients -> Process] /\ Stay(c)
         /\ proc'[c].pc = FirstStep(c) /\ proc'[c].skipped
         /\ proc'[c].kind = proc[c].kind /\ proc'[c].chunk = proc[c].chunk
         /\ proc'[c].asof = proc[c].asof /\ proc'[c].cur = proc[c].cur
         /\ proc'[c].tries = proc[c].tries
         /\ proc'[c].missed = proc[c].missed
<1> DEFINE l == FirstStep(c)
           p == [proc[c] EXCEPT !.pc = l, !.skipped = TRUE]
<1>1. l \in PCs
  BY PcNames DEF FirstStep
<1>2. proc' = [proc EXCEPT ![c] = p]
  BY DEF EnableTimescale
<1> HIDE DEF l
<1>3. /\ p \in Process /\ p.pc = l /\ p.skipped /\ p.kind = proc[c].kind
      /\ p.chunk = proc[c].chunk /\ p.asof = proc[c].asof
      /\ p.cur = proc[c].cur /\ p.tries = proc[c].tries
      /\ p.missed = proc[c].missed
  BY <1>1, ProcType DEF Process
<1> HIDE DEF p
<1> QED
  BY <1>2, <1>3, Moved DEF TypeOK, Stay, l

\* The answer a command gets is made of bars.
LEMMA ReadTypes ==
  ASSUME TypeOK, NEW c \in Clients
  PROVE  /\ Cached(c) \in SUBSET Bars /\ proc[c].batch \in SUBSET Bars
         /\ \A a \in DbAnswers(proc[c].range) : a \in SUBSET Bars
         /\ "load" \in PCs
<1>1. proc[c].range \in Ranges /\ proc[c].batch \in SUBSET Bars
  BY ProcType DEF Process
<1> QED
  BY <1>1, PcNames DEF Cached, TypeOK, DbAnswers, DayBars

LEMMA ReadFileType ==
  ASSUME TypeOK, NEW c \in Clients, ReadFile(c)
  PROVE  /\ proc' \in [Clients -> Process]
         /\ proc'[c].seen = rows
         /\ proc'[c].pc = IF \E e \in Clients : Writing(e) THEN "mixed"
                          ELSE "write"
         /\ \A d \in Clients \ {c} :
               proc'[d] = IF Writing(d) THEN [proc[d] EXCEPT !.pc = "mixed"]
                          ELSE proc[d]
         /\ \A d \in Clients :
               /\ proc'[d].kind = proc[d].kind /\ proc'[d].cur = proc[d].cur
               /\ proc'[d].tries = proc[d].tries
               /\ proc'[d].batch = proc[d].batch /\ proc'[d].asof = proc[d].asof
               /\ proc'[d].missed = proc[d].missed
               /\ proc'[d].chunk = proc[d].chunk
               /\ proc'[d].skipped = proc[d].skipped
<1> DEFINE l == IF \E e \in Clients : Writing(e) THEN "mixed" ELSE "write"
           mine == [proc[c] EXCEPT !.seen = rows, !.pc = l]
<1>1. mine \in Process
  <2>1. rows \in SUBSET Bars
    BY DEF TypeOK
  <2> QED
    BY <2>1, ProcType, PcNames DEF Process
<1>2. \A d \in Clients : /\ [proc[d] EXCEPT !.pc = "mixed"] \in Process
                         /\ proc[d] \in Process
  BY ProcType, PcNames DEF Process
<1>3. proc' = [d \in Clients |-> IF d = c THEN mine
                  ELSE IF Writing(d) THEN [proc[d] EXCEPT !.pc = "mixed"]
                  ELSE proc[d]]
  BY DEF ReadFile
<1>4. proc'[c] = mine /\ mine.seen = rows /\ mine.pc = l
  BY <1>1, <1>3 DEF TypeOK, Process
<1>5. proc' \in [Clients -> Process]
  BY <1>1, <1>2, <1>3
<1>6. \A d \in Clients \ {c} :
        proc'[d] = IF Writing(d) THEN [proc[d] EXCEPT !.pc = "mixed"]
                   ELSE proc[d]
  BY <1>3
<1>7. ASSUME NEW d \in Clients
      PROVE  /\ proc'[d].kind = proc[d].kind /\ proc'[d].cur = proc[d].cur
             /\ proc'[d].tries = proc[d].tries
             /\ proc'[d].batch = proc[d].batch
             /\ proc'[d].asof = proc[d].asof
             /\ proc'[d].missed = proc[d].missed
             /\ proc'[d].chunk = proc[d].chunk
             /\ proc'[d].skipped = proc[d].skipped
  <2>1. proc[d] \in Process
    BY <1>2
  <2>2. CASE proc'[d] = [proc[d] EXCEPT !.seen = rows, !.pc = l]
    BY <2>1, <2>2 DEF Process
  <2>3. CASE proc'[d] = [proc[d] EXCEPT !.pc = "mixed"]
    BY <2>1, <2>3 DEF Process
  <2> QED
    BY <1>3, <2>2, <2>3
<1> QED
  BY <1>4, <1>5, <1>6, <1>7

LEMMA StoreTypeInit == Init => TypeOK
<1> SUFFICES ASSUME Init PROVE TypeOK
  OBVIOUS
<1>1. proc \in [Clients -> Process]
  BY IdleType DEF Init
<1>2. cache \in [Ranges -> SUBSET Bars]
  BY DEF Init
<1>3. now \in 0..End
  BY EndType DEF Init
<1>4. /\ backend \in {"sql", "parquet"} /\ rows = {} /\ temp = {} /\ acked = {}
      /\ runs = 0 /\ crashes = 0
  BY DEF Init
<1>5. torn \in BOOLEAN /\ overlapped \in BOOLEAN
  BY Zenon DEF Init
<1>7. cols \in BOOLEAN /\ extension \in BOOLEAN
  <2>1. \A d \in Databases : d[1] \in BOOLEAN /\ d[2] \in BOOLEAN
    OBVIOUS
  <2> QED
    BY <2>1, Zenon DEF Init
<1>6. runs \in 0..MaxRuns /\ crashes \in 0..MaxCrashes
  BY <1>4
<1> QED
  BY <1>1, <1>2, <1>3, <1>4, <1>5, <1>6, <1>7 DEF TypeOK

\* Steps that move a process and touch nothing else but the counters.
LEMMA MovesType ==
  ASSUME TypeOK, proc' \in [Clients -> Process],
         UNCHANGED <<setup, db, cache, now, hist>>,
         runs' \in 0..MaxRuns, crashes' \in 0..MaxCrashes
  PROVE  TypeOK'
  BY DEF TypeOK, db, hist

LEMMA StoreTypeStep == TypeOK /\ [Next]_vars => TypeOK'
<1> SUFFICES ASSUME TypeOK, [Next]_vars PROVE TypeOK'
  OBVIOUS
<1> USE DEF db, hist
<1>1. ASSUME NEW c \in Clients, StartBackfill(c) \/ StartUpdate(c) \/ StartFetch(c)
      PROVE  TypeOK'
  BY <1>1, StartsType, MovesType DEF TypeOK
<1>2. ASSUME NEW c \in Clients,
             Open(c) \/ EnableTimescale(c) \/ AlterTable(c) \/ OpenFails(c)
      PROVE  TypeOK'
  <2>1. {FirstStep(c), "enable", "alter", "load"} \subseteq PCs
    BY PcNames DEF FirstStep
  <2>2. CASE Open(c)
    <3>1. PICK l \in PCs : Goto(c, l)
      BY <2>1, <2>2 DEF Open
    <3> QED
      BY <2>2, <3>1, GotoType, MovesType DEF Open, TypeOK
  <2>3. CASE AlterTable(c)
    <3>1. proc' \in [Clients -> Process]
      BY <2>1, <2>3, GotoType DEF AlterTable
    <3> QED
      BY <2>3, <3>1 DEF AlterTable, TypeOK
  <2>4. CASE OpenFails(c)
    <3>1. extension' \in BOOLEAN
      BY <2>4 DEF OpenFails, TypeOK
    <3> QED
      BY <2>4, <3>1, OpenFailsType DEF OpenFails, TypeOK
  <2>5. CASE EnableTimescale(c)
    <3>1. extension' \in BOOLEAN
      BY <2>5 DEF EnableTimescale
    <3> QED
      BY <2>5, <3>1, EnableType DEF EnableTimescale, TypeOK
  <2> QED
    BY <1>2, <2>2, <2>3, <2>4, <2>5
<1>3. ASSUME NEW c \in Clients, WindowGot(c) \/ WindowEmpty(c) \/ BackfillEnds(c)
      PROVE  TypeOK'
  BY <1>3, WindowGotType, WindowEmptyType, QuitType, MovesType
  DEF WindowGot, WindowEmpty, BackfillEnds, TypeOK
<1>4. ASSUME NEW c \in Clients, Lookup(c) \/ ReadFails(c) \/ LoadCached(c)
      PROVE  TypeOK'
  <2>1. CASE Lookup(c)
    <3>1. PICK a \in DbAnswers(proc[c].range) :
            Goto(c, "load") \/ Deliver(c, a)
      BY <2>1 DEF Lookup
    <3>2. a \in SUBSET Bars /\ "load" \in PCs
      BY PcNames DEF DbAnswers, DayBars
    <3>3. proc' \in [Clients -> Process]
      BY <3>1, <3>2, GotoType, DeliverType
    <3> QED
      BY <2>1, <3>3, MovesType DEF Lookup, TypeOK
  <2>2. CASE ReadFails(c)
    BY <2>2, QuitType, MovesType DEF ReadFails, TypeOK
  <2>3. CASE LoadCached(c)
    <3>1. Cached(c) \in SUBSET Bars
      BY ProcType DEF Cached, TypeOK, Process
    <3> QED
      BY <2>3, <3>1, DeliverType, MovesType DEF LoadCached, TypeOK
  <2> QED
    BY <1>4, <2>1, <2>2, <2>3
<1>5. ASSUME NEW c \in Clients, LoadRemote(c) PROVE TypeOK'
  BY <1>5, LoadRemoteType, MovesType DEF LoadRemote, TypeOK
<1>6. ASSUME NEW c \in Clients, WriteCache(c) PROVE TypeOK'
  <2>1. proc[c].batch \in SUBSET Bars
    BY ProcType DEF Process
  <2>2. proc' \in [Clients -> Process]
    BY <1>6, <2>1, DeliverType DEF WriteCache
  <2>3. Cached(c) \in SUBSET Bars
    BY ProcType DEF Cached, TypeOK, Process
  <2>4. cache' \in [Ranges -> SUBSET Bars]
    <3>1. PICK file \in {proc[c].batch, Cached(c), {}} :
              cache' = [cache EXCEPT ![proc[c].range] = file]
      BY <1>6 DEF WriteCache
    <3>2. file \in SUBSET Bars /\ cache \in [Ranges -> SUBSET Bars]
      BY <2>1, <2>3 DEF TypeOK
    <3> QED
      BY <3>1, <3>2
  <2> QED
    BY <1>6, <2>2, <2>4 DEF WriteCache, TypeOK
<1>7. ASSUME NEW c \in Clients, WriteReport(c) PROVE TypeOK'
  BY <1>7, QuitType, MovesType DEF WriteReport, TypeOK
<1>8. ASSUME NEW c \in Clients, ReplaceTemp(c) PROVE TypeOK'
  <2>1. proc' \in [Clients -> Process]
    BY <1>8, PcNames, GotoType DEF ReplaceTemp
  <2>2. temp' \in SUBSET Bars
    BY <1>8, ProcType DEF ReplaceTemp, Process
  <2>3. overlapped' \in BOOLEAN
    BY <1>8 DEF ReplaceTemp, Entering
  <2> QED
    BY <1>8, <2>1, <2>2, <2>3 DEF ReplaceTemp, TypeOK
<1>9. ASSUME NEW c \in Clients, ReplaceFails(c) PROVE TypeOK'
  BY <1>9, QuitType, MovesType DEF ReplaceFails, TypeOK
<1>10. ASSUME NEW c \in Clients, Upsert(c) PROVE TypeOK'
  <2>1. proc' \in [Clients -> Process]
    BY <1>10, PcNames, GotoType DEF Upsert
  <2> QED
    BY <1>10, <2>1 DEF Upsert, TypeOK
<1>11. ASSUME NEW c \in Clients, UpsertFails(c) PROVE TypeOK'
  <2>1. proc' \in [Clients -> Process]
    BY <1>11, PcNames, GotoType DEF UpsertFails
  <2> QED
    BY <1>11, <2>1, MovesType DEF UpsertFails, TypeOK
<1>12. ASSUME NEW c \in Clients, DropOk(c) \/ DropErr(c) PROVE TypeOK'
  BY <1>12, SavedType, QuitType DEF DropOk, DropErr, TypeOK
<1>13. ASSUME NEW c \in Clients, ReadFile(c) PROVE TypeOK'
  <2>1. proc' \in [Clients -> Process]
    BY <1>13, ReadFileType
  <2>2. overlapped' \in BOOLEAN
    BY <1>13 DEF ReadFile, Entering
  <2> QED
    BY <1>13, <2>1, <2>2 DEF ReadFile, TypeOK
<1>14. ASSUME NEW c \in Clients, FinishWrite(c) PROVE TypeOK'
  <2>1. Merged(c) \in SUBSET Bars
    BY ProcType DEF Merged, Process
  <2> QED
    BY <1>14, <2>1, SavedType DEF FinishWrite, TypeOK
<1>15. ASSUME NEW c \in Clients, Crash(c) PROVE TypeOK'
  <2>1. torn' \in BOOLEAN
    BY <1>15 DEF Crash, TypeOK
  <2>2. crashes' \in 0..MaxCrashes
    BY <1>15 DEF Crash, TypeOK
  <2>3. proc' \in [Clients -> Process]
    BY <1>15, QuitType DEF Crash
  <2> QED
    BY <1>15, <2>1, <2>2, <2>3 DEF Crash, TypeOK
<1>16. CASE Publish
  BY <1>16, EndType DEF Publish, TypeOK
<1>17. CASE UNCHANGED vars
  BY <1>17 DEF TypeOK, vars
<1> QED
  BY <1>1, <1>2, <1>3, <1>4, <1>5, <1>6, <1>7, <1>8, <1>9, <1>10, <1>11, <1>12,
     <1>13, <1>14, <1>15, <1>16, <1>17 DEF Next, Step

\* Every variable of the store and its commands stays in its type.
THEOREM StoreTypes == Spec => []TypeOK
  BY StoreTypeInit, StoreTypeStep, PTL DEF Spec

(***************************************************************************)
(* Why a save finds its columns: a process gets past the check only with   *)
(* the columns there, by the handler that goes around it, or without a     *)
(* database, and then it never saves.                                      *)
(***************************************************************************)
Early == {"idle", "open", "enable", "alter", "load", "cached", "report"}

HasCols(p, there) ==
  p.pc \notin Early \/ (p.pc = "load" /\ p.hasDb) => there \/ p.skipped

Upgraded ==
    /\ backend = "parquet" => cols
    /\ \A c \in Clients : HasCols(proc[c], cols)

LEMMA UpgradedMoves ==
  ASSUME Upgraded, NEW c \in Clients, cols => cols', backend' = backend,
         Stay(c), HasCols(proc'[c], cols')
  PROVE  Upgraded'
  BY DEF Upgraded, HasCols, Stay

LEMMA IdleHasCols == \A there : HasCols(Idle, there)
  BY DEF HasCols, Idle, Early

LEMMA GotoHasCols ==
  ASSUME TypeOK, Upgraded, NEW c \in Clients, NEW l \in PCs, Goto(c, l),
         cols => cols', backend' = backend,
         l \in Early \ {"load"} \/ cols' \/ proc[c].skipped
  PROVE  Upgraded'
<1>1. proc'[c].pc = l /\ Stay(c) /\ Like(proc'[c], proc[c])
  BY GotoType
<1> QED
  BY <1>1, UpgradedMoves DEF HasCols, Like

LEMMA QuitHasCols ==
  ASSUME TypeOK, Upgraded, NEW c \in Clients, Quit(c),
         cols => cols', backend' = backend
  PROVE  Upgraded'
<1>1. proc'[c] = Idle /\ Stay(c)
  BY QuitType
<1> QED
  BY <1>1, IdleHasCols, UpgradedMoves

LEMMA DeliverHasCols ==
  ASSUME TypeOK, Upgraded, NEW c \in Clients, NEW S \in SUBSET Bars,
         Deliver(c, S), UNCHANGED <<cols, backend>>
  PROVE  Upgraded'
<1>1. (proc'[c].pc = "report" \/ proc'[c] = Idle) /\ Stay(c)
  BY DeliverType
<1>2. HasCols(proc'[c], cols')
  BY <1>1, IdleHasCols DEF HasCols, Early
<1> QED
  BY <1>1, <1>2, UpgradedMoves

LEMMA SavedHasCols ==
  ASSUME TypeOK, Upgraded, NEW c \in Clients, Saved(c),
         cols \/ proc[c].skipped, UNCHANGED <<cols, backend>>
  PROVE  Upgraded'
<1>1. Stay(c) /\ Like(proc'[c], proc[c])
  BY SavedType
<1> QED
  BY <1>1, UpgradedMoves DEF HasCols, Like

\* A writer the reader meets is mixed up with it, the others stay.
LEMMA ReadFilePlaces ==
  ASSUME TypeOK, NEW c \in Clients, ReadFile(c), NEW d \in Clients \ {c}
  PROVE  \/ proc'[d] = proc[d]
         \/ proc'[d].pc = "mixed" /\ Writing(d)
<1>1. proc[d] \in Process
  BY ProcType
<1>2. [proc[d] EXCEPT !.pc = "mixed"].pc = "mixed"
  BY <1>1 DEF Process
<1> QED
  BY <1>2, ReadFileType

LEMMA UpgradedStep == TypeOK /\ Upgraded /\ [Next]_vars => Upgraded'
<1> SUFFICES ASSUME TypeOK, Upgraded, [Next]_vars PROVE Upgraded'
  OBVIOUS
<1> USE DEF db
<1>1. ASSUME NEW c \in Clients, StartBackfill(c) \/ StartUpdate(c) \/ StartFetch(c)
      PROVE  Upgraded'
  <2>1. proc'[c].pc = "open" /\ Stay(c) /\ UNCHANGED <<cols, backend>>
    BY <1>1, StartsType
  <2> QED
    BY <2>1, UpgradedMoves DEF HasCols, Early
<1>2. ASSUME NEW c \in Clients, Open(c) \/ AlterTable(c) PROVE Upgraded'
  <2>1. {FirstStep(c), "enable", "alter"} \subseteq PCs
    BY PcNames DEF FirstStep
  <2>2. CASE Open(c) /\ extension /\ cols
    BY <2>1, <2>2, GotoHasCols DEF Open
  <2>3. CASE Open(c) /\ (~extension \/ ~cols)
    <3>1. PICK l \in {"enable", "alter"} : Goto(c, l)
      BY <2>3 DEF Open
    <3> QED
      BY <2>1, <2>3, <3>1, GotoHasCols DEF Open, Early
  <2>4. CASE AlterTable(c)
    BY <2>1, <2>4, GotoHasCols DEF AlterTable
  <2> QED
    BY <1>2, <2>2, <2>3, <2>4
<1>3. ASSUME NEW c \in Clients, OpenFails(c) PROVE Upgraded'
  <2>1. /\ Stay(c) /\ UNCHANGED <<cols, backend>>
        /\ (proc'[c].pc = "load" /\ ~proc'[c].hasDb) \/ proc'[c] = Idle
    BY <1>3, OpenFailsType DEF OpenFails
  <2>2. HasCols(proc'[c], cols')
    BY <2>1, IdleHasCols DEF HasCols, Early
  <2> QED
    BY <2>1, <2>2, UpgradedMoves
<1>4. ASSUME NEW c \in Clients, WindowGot(c) \/ WindowEmpty(c) PROVE Upgraded'
  <2>1. (cols \/ proc[c].skipped) /\ UNCHANGED <<cols, backend>>
    BY <1>4 DEF WindowGot, WindowEmpty, At, Upgraded, HasCols, Early
  <2>2. Stay(c) /\ Like(proc'[c], proc[c])
    BY <1>4, WindowGotType, WindowEmptyType
  <2> QED
    BY <2>1, <2>2, UpgradedMoves DEF HasCols, Like
<1>5. ASSUME NEW c \in Clients, BackfillEnds(c) \/ ReadFails(c) \/ WriteReport(c)
        \/ ReplaceFails(c) \/ DropErr(c) \/ Crash(c)
      PROVE  Upgraded'
  <2>1. Quit(c) /\ UNCHANGED <<cols, backend>>
    BY <1>5
    DEF BackfillEnds, ReadFails, WriteReport, ReplaceFails, DropErr, Crash
  <2> QED
    BY <2>1, QuitHasCols
<1>6. ASSUME NEW c \in Clients, Lookup(c) PROVE Upgraded'
  <2>1. PICK a \in DbAnswers(proc[c].range) : Goto(c, "load") \/ Deliver(c, a)
    BY <1>6 DEF Lookup
  <2>2. a \in SUBSET Bars /\ "load" \in PCs
    BY ReadTypes
  <2>3. (cols \/ proc[c].skipped) /\ UNCHANGED <<cols, backend>>
    BY <1>6 DEF Lookup, At, Upgraded, HasCols, Early
  <2> QED
    BY <2>1, <2>2, <2>3, GotoHasCols, DeliverHasCols
<1>7. ASSUME NEW c \in Clients, LoadCached(c) \/ WriteCache(c) PROVE Upgraded'
  <2>1. UNCHANGED <<cols, backend>>
    BY <1>7 DEF LoadCached, WriteCache
  <2> QED
    BY <1>7, <2>1, ReadTypes, DeliverHasCols DEF LoadCached, WriteCache
<1>8. ASSUME NEW c \in Clients, LoadRemote(c) PROVE Upgraded'
  <2>1. proc[c].hasDb => cols \/ proc[c].skipped
    BY <1>8 DEF LoadRemote, At, Upgraded, HasCols
  <2>2. UNCHANGED <<cols, backend>>
    BY <1>8 DEF LoadRemote
  <2>3. /\ Stay(c)
        /\ \/ /\ proc'[c].pc = IF proc[c].hasDb THEN SaveStep ELSE "cached"
              /\ Like(proc'[c], proc[c])
           \/ proc'[c] = Idle
    BY <1>8, LoadRemoteType
  <2>4. HasCols(proc'[c], cols')
    BY <2>1, <2>2, <2>3, IdleHasCols DEF HasCols, Early, Like
  <2> QED
    BY <2>2, <2>3, <2>4, UpgradedMoves
<1>9. ASSUME NEW c \in Clients, ReplaceTemp(c) \/ Upsert(c) \/ UpsertFails(c)
      PROVE  Upgraded'
  <2>1. (cols \/ proc[c].skipped) /\ UNCHANGED <<cols, backend>>
    BY <1>9 DEF ReplaceTemp, Upsert, UpsertFails, At, Upgraded, HasCols, Early
  <2>2. PICK l \in PCs : Goto(c, l)
    BY <1>9, PcNames DEF ReplaceTemp, Upsert, UpsertFails
  <2> QED
    BY <2>1, <2>2, GotoHasCols
<1>10. ASSUME NEW c \in Clients, DropOk(c) \/ FinishWrite(c) PROVE Upgraded'
  <2>1. (cols \/ proc[c].skipped) /\ UNCHANGED <<cols, backend>>
    BY <1>10 DEF DropOk, FinishWrite, At, Writing, Upgraded, HasCols, Early
  <2> QED
    BY <1>10, <2>1, SavedHasCols DEF DropOk, FinishWrite
<1>11. ASSUME NEW c \in Clients, ReadFile(c) PROVE Upgraded'
  <2>1. (cols \/ proc[c].skipped) /\ UNCHANGED <<cols, backend>>
    BY <1>11 DEF ReadFile, At, Upgraded, HasCols, Early
  <2>2. \A d \in Clients \ {c} :
          /\ proc'[d].skipped = proc[d].skipped
          /\ \/ proc'[d].pc = proc[d].pc /\ proc'[d].hasDb = proc[d].hasDb
             \/ proc'[d].pc = "mixed" /\ Writing(d)
    BY <1>11, ReadFileType, ReadFilePlaces
  <2>3. proc'[c].skipped = proc[c].skipped
    BY <1>11, ReadFileType
  <2>4. \A d \in Clients \ {c} : HasCols(proc'[d], cols')
    BY <2>1, <2>2 DEF Upgraded, HasCols, Early, Writing
  <2> QED
    BY <2>1, <2>3, <2>4 DEF Upgraded, HasCols
<1>12. CASE Publish \/ UNCHANGED vars
  BY <1>12 DEF Publish, vars, Upgraded, HasCols
<1>13. ASSUME NEW c \in Clients, EnableTimescale(c) PROVE Upgraded'
  <2>1. Stay(c) /\ proc'[c].skipped /\ UNCHANGED <<cols, backend>>
    BY <1>13, EnableType DEF EnableTimescale
  <2> QED
    BY <2>1, UpgradedMoves DEF HasCols
<1> QED
  BY <1>1, <1>2, <1>3, <1>4, <1>5, <1>6, <1>7, <1>8, <1>9, <1>10, <1>11, <1>12,
     <1>13
  DEF Next, Step

LEMMA UpgradedInit == Init => Upgraded
<1> SUFFICES ASSUME Init PROVE Upgraded
  OBVIOUS
<1>1. \A c \in Clients : proc[c] = Idle
  BY DEF Init
<1>2. backend = "parquet" => cols
  BY DEF Init
<1> QED
  BY <1>1, <1>2, IdleHasCols DEF Upgraded

\* No save runs into a table without the late columns, whichever processes
\* check for them, add them or fail to at the same time, but for a process
\* that enabled TimescaleDB on its way in and so went around the check.
THEOREM ColumnsAreThere == Spec => []SavesFindColumns
<1>1. Spec => [](TypeOK /\ Upgraded)
  BY StoreTypeInit, StoreTypeStep, UpgradedInit, UpgradedStep, PTL DEF Spec
<1>2. Upgraded => SavesFindColumns
  BY DEF Upgraded, HasCols, Early, SavesFindColumns, SqlSave
<1> QED
  BY <1>1, <1>2, PTL

(***************************************************************************)
(* What the steps of a command touch: the table, what was saved and who    *)
(* overlaps change in the steps of a save only.                            *)
(***************************************************************************)
LEMMA StepTouches ==
  ASSUME NEW c \in Clients, Step(c)
  PROVE  /\ torn' = torn \/ FinishWrite(c)
         /\ rows' = rows \/ Upsert(c) \/ FinishWrite(c)
         /\ acked' = acked \/ DropOk(c) \/ FinishWrite(c)
         /\ overlapped' = overlapped \/ ReplaceTemp(c) \/ ReadFile(c)
<1> DEFINE Nothing == UNCHANGED <<rows, torn, acked, overlapped>>
<1> USE DEF db, hist
<1>1. Open(c) \/ EnableTimescale(c) \/ AlterTable(c) \/ OpenFails(c) => Nothing
  BY DEF Open, EnableTimescale, AlterTable, OpenFails
<1>2. WindowGot(c) \/ WindowEmpty(c) \/ BackfillEnds(c) => Nothing
  BY DEF WindowGot, WindowEmpty, BackfillEnds
<1>3. Lookup(c) \/ ReadFails(c) \/ LoadCached(c) \/ LoadRemote(c) => Nothing
  BY DEF Lookup, ReadFails, LoadCached, LoadRemote
<1>4. WriteCache(c) \/ WriteReport(c) \/ ReplaceFails(c) => Nothing
  BY DEF WriteCache, WriteReport, ReplaceFails
<1>5. UpsertFails(c) \/ DropErr(c) => Nothing
  BY DEF UpsertFails, DropErr
<1>6. ReplaceTemp(c) \/ ReadFile(c) => UNCHANGED <<rows, torn, acked>>
  BY DEF ReplaceTemp, ReadFile
<1>7. Upsert(c) => UNCHANGED <<torn, acked, overlapped>>
  BY DEF Upsert
<1>8. DropOk(c) => UNCHANGED <<rows, torn, overlapped>>
  BY DEF DropOk
<1>9. FinishWrite(c) => UNCHANGED overlapped
  BY DEF FinishWrite
<1> QED
  BY <1>1, <1>2, <1>3, <1>4, <1>5, <1>6, <1>7, <1>8, <1>9 DEF Step

\* Nor do a start, a kill or the provider touch them.
LEMMA RestTouches ==
  ASSUME NEW c \in Clients,
         \/ StartBackfill(c) \/ StartUpdate(c) \/ StartFetch(c) \/ Crash(c)
         \/ Publish \/ UNCHANGED vars
  PROVE  UNCHANGED <<rows, acked, overlapped>>
  BY DEF StartBackfill, StartUpdate, StartFetch, Start, Crash, Publish, vars,
         db, hist

(***************************************************************************)
(* Who starts to save: a process gets into a save by one of its two first  *)
(* steps only.                                                             *)
(***************************************************************************)
LEMMA NewSaver ==
  ASSUME TypeOK, [Next]_vars, NEW d \in Clients
  PROVE  /\ Writing(d)' => Writing(d) \/ ReadFile(d)
         /\ Saving(d)' => Saving(d) \/ ReadFile(d) \/ ReplaceTemp(d)
<1> DEFINE W(p) == p.pc \in {"write", "mixed"}
           S(p) == p.pc \in {"upsert", "dropOk", "dropErr"} \/ W(p)
           Fine == \/ proc'[d] = proc[d] \/ ~S(proc'[d])
                   \/ S(proc[d]) /\ (W(proc'[d]) => W(proc[d]))
<1>1. ~S(Idle)
  BY DEF Idle
<1>2. ASSUME NEW c \in Clients, Quit(c) PROVE Fine
  BY <1>1, <1>2, QuitType DEF Stay
<1>3. ASSUME NEW c \in Clients, NEW l \in PCs, Goto(c, l),
             l \notin {"write", "mixed"},
             Saving(c) \/ l \notin {"upsert", "dropOk", "dropErr"}
      PROVE  Fine
  <2>1. proc'[c].pc = l /\ Stay(c)
    BY <1>3, GotoType
  <2> QED
    BY <1>3, <2>1 DEF Stay, Saving, Writing
<1>4. ASSUME NEW c \in Clients, NEW B \in SUBSET Bars, Deliver(c, B) PROVE Fine
  <2>1. (proc'[c].pc = "report" \/ proc'[c] = Idle) /\ Stay(c)
    BY <1>4, DeliverType
  <2> QED
    BY <1>1, <2>1 DEF Stay
<1>5. ASSUME NEW c \in Clients, StartBackfill(c) \/ StartUpdate(c) \/ StartFetch(c)
      PROVE  Fine
  <2>1. proc'[c].pc = "open" /\ Stay(c)
    BY <1>5, StartsType
  <2> QED
    BY <2>1 DEF Stay
<1>6. ASSUME NEW c \in Clients, Open(c) \/ AlterTable(c) PROVE Fine
  <2>1. PICK l \in {"enable", "alter", "window", "lookup"} : Goto(c, l)
    BY <1>6 DEF Open, AlterTable, FirstStep
  <2> QED
    BY <1>3, <2>1, PcNames
<1>7. ASSUME NEW c \in Clients, Upsert(c) \/ UpsertFails(c) PROVE Fine
  <2>1. PICK l \in {"dropOk", "dropErr"} : Goto(c, l)
    BY <1>7 DEF Upsert, UpsertFails
  <2>2. Saving(c)
    BY <1>7 DEF Upsert, UpsertFails, At, Saving
  <2> QED
    BY <1>3, <2>1, <2>2, PcNames
<1>8. ASSUME NEW c \in Clients, BackfillEnds(c) \/ ReadFails(c) \/ WriteReport(c)
               \/ ReplaceFails(c) \/ DropErr(c) \/ Crash(c)
      PROVE  Fine
  BY <1>8, <1>2
  DEF BackfillEnds, ReadFails, WriteReport, ReplaceFails, DropErr, Crash
<1>9. ASSUME NEW c \in Clients, OpenFails(c) PROVE Fine
  <2>1. (proc'[c].pc = "load" \/ proc'[c] = Idle) /\ Stay(c)
    BY <1>9, OpenFailsType
  <2> QED
    BY <1>1, <2>1 DEF Stay
<1>19. ASSUME NEW c \in Clients, EnableTimescale(c) PROVE Fine
  <2>1. proc'[c].pc \in {"window", "lookup"} /\ Stay(c)
    BY <1>19, EnableType DEF FirstStep
  <2> QED
    BY <2>1 DEF Stay
<1>10. ASSUME NEW c \in Clients, WindowGot(c) \/ WindowEmpty(c) PROVE Fine
  <2>1. proc'[c].pc \in {"window", "replace", "read"} /\ Stay(c)
    BY <1>10, WindowGotType, WindowEmptyType DEF SaveStep
  <2> QED
    BY <2>1 DEF Stay
<1>11. ASSUME NEW c \in Clients, Lookup(c) \/ LoadCached(c) \/ WriteCache(c)
       PROVE  Fine
  <2>1. Goto(c, "load") \/ \E B \in SUBSET Bars : Deliver(c, B)
    BY <1>11, ReadTypes DEF Lookup, LoadCached, WriteCache
  <2> QED
    BY <1>3, <1>4, <2>1, PcNames
<1>12. ASSUME NEW c \in Clients, LoadRemote(c) PROVE Fine
  <2>1. /\ Stay(c)
        /\ proc'[c].pc \in {"replace", "read", "cached"} \/ proc'[c] = Idle
    BY <1>12, LoadRemoteType DEF SaveStep
  <2> QED
    BY <1>1, <2>1 DEF Stay
<1>13. ASSUME NEW c \in Clients, DropOk(c) \/ FinishWrite(c) PROVE Fine
  <2>1. proc'[c].pc \in {"window", "cached"} /\ Stay(c)
    BY <1>13, SavedType DEF DropOk, FinishWrite
  <2> QED
    BY <2>1 DEF Stay
<1>14. Publish \/ UNCHANGED vars => Fine
  <2>1. Publish \/ UNCHANGED vars => proc' = proc
    BY DEF Publish, vars
  <2> QED
    BY <2>1
<1>15. ASSUME NEW c \in Clients, ReplaceTemp(c) PROVE Fine \/ ReplaceTemp(d)
  <2>1. Stay(c)
    BY <1>15, PcNames, GotoType DEF ReplaceTemp
  <2> QED
    BY <1>15, <2>1 DEF Stay
<1>16. ASSUME NEW c \in Clients, ReadFile(c) PROVE Fine \/ ReadFile(d)
  <2>1. c # d => proc'[d] = proc[d] \/ (W(proc[d]) /\ W(proc'[d]))
    <3>1. proc[d] \in Process
      BY ProcType
    <3>2. c # d => proc'[d] = IF Writing(d)
                              THEN [proc[d] EXCEPT !.pc = "mixed"] ELSE proc[d]
      BY <1>16 DEF ReadFile
    <3>3. [proc[d] EXCEPT !.pc = "mixed"].pc = "mixed"
      BY <3>1 DEF Process
    <3> QED
      BY <3>2, <3>3 DEF Writing
  <2> QED
    BY <1>16, <2>1
<1>17. Fine \/ ReadFile(d) \/ ReplaceTemp(d)
  <2> HIDE DEF Fine
  <2> QED
    BY <1>5, <1>6, <1>7, <1>8, <1>9, <1>10, <1>11, <1>12, <1>13, <1>14, <1>15,
       <1>16, <1>19 DEF Next, Step
<1>18. ReplaceTemp(d) => ~Writing(d)'
  <2>1. ReplaceTemp(d) => proc'[d].pc = "upsert"
    BY PcNames, GotoType DEF ReplaceTemp
  <2> QED
    BY <2>1 DEF Writing
<1> QED
  BY <1>17, <1>18 DEF Writing, Saving

(***************************************************************************)
(* A file cut short stays so: it cannot be read, and a save has to read it *)
(* before it writes.                                                       *)
(***************************************************************************)
LEMMA RuinedStep == TypeOK /\ [Next]_vars /\ Ruined => Ruined'
<1> SUFFICES ASSUME TypeOK, [Next]_vars, Ruined PROVE Ruined'
  OBVIOUS
<1>1. torn /\ Readable = {FALSE} /\ \A c \in Clients : ~Writing(c)
  BY DEF Ruined, Readable
<1>2. \A c \in Clients : ~FinishWrite(c) /\ ~ReadFile(c)
  BY <1>1 DEF FinishWrite, ReadFile
<1>3. torn' = torn
  <2>1. ASSUME NEW c \in Clients, Step(c) PROVE torn' = torn
    BY <1>2, <2>1, StepTouches
  <2>2. ASSUME NEW c \in Clients,
               StartBackfill(c) \/ StartUpdate(c) \/ StartFetch(c) \/ Crash(c)
        PROVE  torn' = torn
    BY <1>1, <2>2
    DEF StartBackfill, StartUpdate, StartFetch, Start, Crash, db
  <2>3. CASE Publish \/ UNCHANGED vars
    BY <2>3 DEF Publish, vars, db
  <2> QED
    BY <2>1, <2>2, <2>3 DEF Next
<1>4. \A d \in Clients : ~Writing(d)'
  BY <1>1, <1>2, NewSaver
<1> QED
  BY <1>1, <1>3, <1>4 DEF Ruined

\* Once a killed writer has cut the file short and no other is at it, no
\* command of any process makes it readable again.
THEOREM RuinStays == Spec => RuinedForGood
<1>1. TypeOK /\ [Next]_vars => [Ruined => Ruined']_vars
  BY RuinedStep
<1> QED
  BY <1>1, StoreTypes, PTL DEF Spec, RuinedForGood

(***************************************************************************)
(* What a single save keeps.  As long as no two of them overlap, a process *)
(* that saves finds in the temporary table what it put there, and in the   *)
(* file what it read from it; and every window a backfill leaves behind is *)
(* in the table or was missed.                                             *)
(***************************************************************************)
EndOf(p) == IF p.cur + p.chunk < End THEN p.cur + p.chunk ELSE End

Due(p, t) == {b \in Published(p.asof) : b[1] < DayOf(t)}

Covered(p, r) == Due(p, p.cur) \subseteq r \cup p.missed

Staged(p, r, t) ==
    /\ p.pc = "upsert" => t = p.batch
    /\ p.pc = "dropOk" => p.batch \subseteq r
    /\ p.pc = "write" => p.seen = r
    /\ p.pc # "mixed"

SaveStates == {"replace", "upsert", "dropOk", "read", "write"}

Asked(p) ==
    /\ p.kind = "backfill" /\ p.pc \in SaveStates =>
          DayBars(DayOf(p.cur), DayOf(EndOf(p)) - 1) \subseteq p.batch \cup p.missed
    /\ p.pc \in {"lookup", "load"} => p.kind # "backfill"

Kept(p, r, t) == Covered(p, r) /\ Staged(p, r, t) /\ Asked(p)

OneSaver == \A c, d \in Clients : Saving(c) /\ Saving(d) => c = d

SafeInv ==
    ~overlapped =>
        /\ OneSaver
        /\ acked \subseteq rows
        /\ \A c \in Clients : Kept(proc[c], rows, temp)

\* The windows of a backfill leave no gap.
LEMMA NoGap ==
  ASSUME NEW p \in Process
  PROVE  Due(p, EndOf(p)) \subseteq
            Due(p, p.cur) \cup DayBars(DayOf(p.cur), DayOf(EndOf(p)) - 1)
<1>1. p.cur \in 0..End /\ p.chunk \in Chunks \cup {0}
  BY DEF Process
<1>2. p.cur \in Nat /\ p.chunk \in Nat /\ EndOf(p) \in Nat
  <2>1. \A e \in Nat : \A n \in 0..e : n \in Nat
    OBVIOUS
  <2>2. Chunks \cup {0} \subseteq Nat
    OBVIOUS
  <2>3. p.cur \in Nat /\ p.chunk \in Nat
    BY <1>1, <2>1, <2>2, EndType, Zenon
  <2> QED
    BY <2>3, EndType DEF EndOf
<1>3. \A n \in Nat : n \div SlotsPerDay \in Int
  OBVIOUS
<1>4. DayOf(p.cur) \in Int /\ DayOf(EndOf(p)) \in Int
  BY <1>2, <1>3 DEF DayOf
<1>5. \A b \in Bars : b[1] \in Int
  BY DEF Bars, Days
<1>6. \A x, y \in Int : \A b \in Bars :
        b[1] < y => b[1] < x \/ (x <= b[1] /\ b[1] <= y - 1)
  BY <1>5
<1> HIDE DEF EndOf
<1> QED
  BY <1>4, <1>6 DEF Due, DayBars, Published

LEMMA NothingDue ==
  ASSUME NEW p \in Process, p.cur = 0 PROVE Due(p, p.cur) = {}
<1>1. DayOf(0) = 0
  BY DEF DayOf
<1>2. \A b \in Bars : ~(b[1] < 0)
  BY DEF Bars, Days
<1> QED
  BY <1>1, <1>2 DEF Due, Published

LEMMA KeptIdle == \A r, t : Kept(Idle, r, t)
<1>1. Idle.pc = "idle" /\ Idle.cur = 0 /\ Due(Idle, Idle.cur) = {}
  BY IdleType, NothingDue DEF Idle
<1> QED
  BY <1>1 DEF Kept, Covered, Staged, Asked, SaveStates

\* A process that stands still is not disturbed.
LEMMA KeptStays ==
  ASSUME NEW p, NEW r, NEW t, NEW r2, NEW t2, Kept(p, r, t), r \subseteq r2,
         t2 = t \/ p.pc # "upsert", r2 = r \/ p.pc # "write"
  PROVE  Kept(p, r2, t2)
  BY DEF Kept, Covered, Staged, Asked

\* A process that goes on with its window where it was
LEMMA CoveredLike ==
  ASSUME NEW p, NEW q, NEW r, NEW r2, Covered(p, r), r \subseteq r2,
         Like(q, p), q.cur = p.cur, p.missed \subseteq q.missed
  PROVE  Covered(q, r2) /\ EndOf(q) = EndOf(p)
  BY DEF Covered, Like, Due, EndOf

\* A second saver is noticed when it enters.
LEMMA OneSaverStep ==
  ASSUME TypeOK, OneSaver, [Next]_vars, ~overlapped' PROVE OneSaver'
<1>1. ASSUME NEW d \in Clients, ReadFile(d) \/ ReplaceTemp(d)
      PROVE  \A e \in Clients \ {d} : ~Saving(e) /\ ~Saving(e)'
  <2>1. \A e \in Clients \ {d} : ~Saving(e)
    BY <1>1 DEF ReadFile, ReplaceTemp, Entering
  <2>2. CASE ReplaceTemp(d)
    <3>1. Stay(d)
      BY <2>2, PcNames, GotoType DEF ReplaceTemp
    <3> QED
      BY <2>1, <3>1 DEF Stay, Saving, Writing
  <2>3. CASE ReadFile(d)
    <3>1. \A e \in Clients \ {d} : proc'[e] = proc[e]
      BY <2>1, <2>3, ReadFileType DEF Saving
    <3> QED
      BY <2>1, <3>1 DEF Saving, Writing
  <2> QED
    BY <1>1, <2>2, <2>3
<1>2. ASSUME NEW c \in Clients, NEW d \in Clients, Saving(c)', Saving(d)'
      PROVE  c = d
  <2>1. \A e \in {c, d} : Saving(e) \/ ReadFile(e) \/ ReplaceTemp(e)
    BY <1>2, NewSaver
  <2> QED
    BY <1>1, <1>2, <2>1 DEF OneSaver
<1> QED
  BY <1>2 DEF OneSaver

\* A step of c that tells the whole story: the others stay where they are
LEMMA SafeMoves ==
  ASSUME TypeOK, SafeInv, [Next]_vars, ~overlapped, ~overlapped',
         NEW c \in Clients, Stay(c), rows \subseteq rows', acked' \subseteq rows',
         Kept(proc'[c], rows', temp'),
         UNCHANGED <<rows, temp>> \/ \A d \in Clients \ {c} : ~Saving(d)
  PROVE  SafeInv'
<1>1. OneSaver'
  BY OneSaverStep DEF SafeInv
<1>2. ASSUME NEW d \in Clients PROVE Kept(proc'[d], rows', temp')
  <2>1. CASE d # c
    <3>1. proc'[d] = proc[d] /\ Kept(proc[d], rows, temp)
      BY <2>1 DEF Stay, SafeInv
    <3>2. /\ temp' = temp \/ proc[d].pc # "upsert"
          /\ rows' = rows \/ proc[d].pc # "write"
      BY <2>1 DEF Saving, Writing
    <3> QED
      BY <3>1, <3>2, KeptStays
  <2> QED
    BY <2>1
<1> QED
  BY <1>1, <1>2 DEF SafeInv
\* The same for a step that leaves the store alone
LEMMA SafeGoes ==
  ASSUME TypeOK, SafeInv, [Next]_vars, NEW c \in Clients, Stay(c),
         UNCHANGED <<db, hist>>,
         ~overlapped /\ Kept(proc[c], rows, temp) => Kept(proc'[c], rows, temp)
  PROVE  SafeInv'
<1>1. CASE overlapped
  BY <1>1 DEF SafeInv, hist
<1>2. CASE ~overlapped
  <2>1. UNCHANGED <<rows, temp, acked, overlapped>>
    BY DEF db, hist
  <2>2. acked \subseteq rows /\ Kept(proc[c], rows, temp)
    BY <1>2 DEF SafeInv
  <2> QED
    BY <1>2, <2>1, <2>2, SafeMoves
<1> QED
  BY <1>1, <1>2

LEMMA SafeInvInit == Init => SafeInv
<1> SUFFICES ASSUME Init PROVE SafeInv
  OBVIOUS
<1>1. \A c \in Clients : proc[c] = Idle /\ ~Saving(c)
  BY DEF Init, Saving, Writing, Idle
<1> QED
  BY <1>1, KeptIdle DEF SafeInv, OneSaver, Init

LEMMA SafeInvStep == TypeOK /\ SafeInv /\ [Next]_vars => SafeInv'
<1> SUFFICES ASSUME TypeOK, SafeInv, [Next]_vars PROVE SafeInv'
  OBVIOUS
<1> DEFINE Goes(c) == Kept(proc[c], rows, temp) => Kept(proc'[c], rows, temp)
<1>1. ASSUME NEW c \in Clients, StartBackfill(c) \/ StartUpdate(c) \/ StartFetch(c)
      PROVE  SafeInv'
  <2>1. /\ proc'[c] \in Process /\ Stay(c)
        /\ proc'[c].pc = "open" /\ proc'[c].cur = 0
        /\ UNCHANGED <<db, hist>>
    BY <1>1, StartsType
  <2>2. Kept(proc'[c], rows, temp)
    BY <2>1, NothingDue DEF Kept, Covered, Staged, Asked, SaveStates
  <2> QED
    BY <2>1, <2>2, SafeGoes
<1>2. ASSUME NEW c \in Clients, Quit(c), UNCHANGED <<db, hist>> PROVE SafeInv'
  BY <1>2, QuitType, KeptIdle, SafeGoes
<1>3. ASSUME NEW c \in Clients, NEW l \in PCs, Goto(c, l), UNCHANGED <<db, hist>>,
             l \notin SaveStates \cup {"mixed"},
             l \in {"lookup", "load"} =>
               proc[c].kind # "backfill" \/ At(c, "lookup")
      PROVE  SafeInv'
  <2>1. /\ Stay(c) /\ proc'[c].pc = l /\ Like(proc'[c], proc[c])
        /\ proc'[c].cur = proc[c].cur /\ proc'[c].missed = proc[c].missed
    BY <1>3, GotoType
  <2>2. ASSUME Kept(proc[c], rows, temp) PROVE Kept(proc'[c], rows, temp)
    <3>1. Covered(proc'[c], rows)
      BY <2>1, <2>2, CoveredLike DEF Kept
    <3>2. l \in {"lookup", "load"} => proc'[c].kind # "backfill"
      BY <1>3, <2>1, <2>2 DEF Kept, Asked, At, Like
    <3> QED
      BY <1>3, <2>1, <3>1, <3>2 DEF Kept, Staged, Asked, SaveStates
  <2> QED
    BY <1>3, <2>1, <2>2, SafeGoes
<1>4. ASSUME NEW c \in Clients, NEW B \in SUBSET Bars, Deliver(c, B),
             UNCHANGED <<db, hist>>
      PROVE  SafeInv'
  <2>1. CASE proc'[c] = Idle
    BY <1>4, <2>1, DeliverType, KeptIdle, SafeGoes
  <2>2. CASE proc'[c] # Idle
    <3>1. /\ Stay(c) /\ proc'[c].pc = "report" /\ Like(proc'[c], proc[c])
          /\ proc'[c].cur = proc[c].cur /\ proc'[c].missed = proc[c].missed
      BY <1>4, <2>2, DeliverType
    <3>2. ASSUME Kept(proc[c], rows, temp) PROVE Kept(proc'[c], rows, temp)
      <4>1. Covered(proc'[c], rows)
        BY <3>1, <3>2, CoveredLike DEF Kept
      <4> QED
        BY <3>1, <4>1 DEF Kept, Staged, Asked, SaveStates
    <3> QED
      BY <1>4, <3>1, <3>2, SafeGoes
  <2> QED
    BY <2>1, <2>2
<1>5. ASSUME NEW c \in Clients, Open(c) PROVE SafeInv'
  <2>1. PICK l \in {"enable", "alter", FirstStep(c)} : Goto(c, l)
    BY <1>5 DEF Open
  <2>2. /\ l \in {"enable", "alter", "window", "lookup"}
        /\ l = "lookup" => proc[c].kind # "backfill"
    BY <2>1 DEF FirstStep
  <2> QED
    BY <1>3, <1>5, <2>1, <2>2, PcNames DEF Open, SaveStates
<1>6. ASSUME NEW c \in Clients, AlterTable(c) PROVE SafeInv'
  <2>1. PICK l \in {"window", "lookup"} : Goto(c, l)
    BY <1>6 DEF AlterTable, FirstStep
  <2>2. Goto(c, FirstStep(c)) /\ FirstStep(c) \in PCs
    BY <1>6, PcNames DEF AlterTable, FirstStep
  <2>3. /\ Stay(c) /\ proc'[c].pc = FirstStep(c) /\ Like(proc'[c], proc[c])
        /\ proc'[c].cur = proc[c].cur /\ proc'[c].missed = proc[c].missed
    BY <2>2, GotoType
  <2>4. ASSUME Kept(proc[c], rows, temp) PROVE Kept(proc'[c], rows, temp)
    <3>1. Covered(proc'[c], rows)
      BY <2>3, <2>4, CoveredLike DEF Kept
    <3> QED
      BY <2>3, <3>1 DEF Kept, Staged, Asked, SaveStates, FirstStep, Like
  <2>5. UNCHANGED <<rows, temp, acked, overlapped>>
    BY <1>6 DEF AlterTable, hist
  <2>6. CASE overlapped
    BY <2>5, <2>6 DEF SafeInv
  <2>7. CASE ~overlapped
    <3>1. acked \subseteq rows /\ Kept(proc[c], rows, temp)
      BY <2>7 DEF SafeInv
    <3> QED
      BY <2>3, <2>4, <2>5, <2>7, <3>1, SafeMoves
  <2> QED
    BY <2>6, <2>7
<1>7. ASSUME NEW c \in Clients, OpenFails(c) PROVE SafeInv'
  <2>1. UNCHANGED <<db, hist>>
    BY <1>7 DEF OpenFails
  <2>2. CASE proc'[c] = Idle
    BY <1>7, <2>1, <2>2, OpenFailsType, KeptIdle, SafeGoes
  <2>3. CASE proc'[c] # Idle
    <3>1. /\ Stay(c) /\ proc'[c].pc = "load" /\ Like(proc'[c], proc[c])
          /\ proc[c].kind = "fetch"
          /\ proc'[c].cur = proc[c].cur /\ proc'[c].missed = proc[c].missed
      BY <1>7, <2>3, OpenFailsType
    <3>2. ASSUME Kept(proc[c], rows, temp) PROVE Kept(proc'[c], rows, temp)
      <4>1. Covered(proc'[c], rows)
        BY <3>1, <3>2, CoveredLike DEF Kept
      <4> QED
        BY <3>1, <4>1 DEF Kept, Staged, Asked, SaveStates, Like
    <3> QED
      BY <2>1, <3>1, <3>2, SafeGoes
  <2> QED
    BY <2>2, <2>3
<1>8. ASSUME NEW c \in Clients, WindowGot(c) PROVE SafeInv'
  <2>1. UNCHANGED <<db, hist>>
    BY <1>8 DEF WindowGot
  <2>2. /\ Stay(c) /\ proc'[c].pc = SaveStep /\ Like(proc'[c], proc[c])
        /\ proc'[c].cur = proc[c].cur /\ proc[c].missed \subseteq proc'[c].missed
        /\ DayBars(WindowLo(c), WindowHi(c)) \subseteq
              proc'[c].batch \cup proc'[c].missed
    BY <1>8, WindowGotType
  <2>3. /\ WindowLo(c) = DayOf(proc[c].cur)
        /\ WindowHi(c) = DayOf(EndOf(proc[c])) - 1
    BY ChunkEndType DEF ChunkEnd, EndOf
  <2>4. ASSUME Kept(proc[c], rows, temp) PROVE Kept(proc'[c], rows, temp)
    <3>1. Covered(proc'[c], rows) /\ EndOf(proc'[c]) = EndOf(proc[c])
      BY <2>2, <2>4, CoveredLike DEF Kept
    <3>2. Asked(proc'[c])
      BY <2>2, <2>3, <3>1 DEF Asked, SaveStep
    <3> QED
      BY <2>2, <3>1, <3>2 DEF Kept, Staged, SaveStep
  <2> QED
    BY <2>1, <2>2, <2>4, SafeGoes
<1>9. ASSUME NEW c \in Clients, WindowEmpty(c) PROVE SafeInv'
  <2>1. UNCHANGED <<db, hist>>
    BY <1>9 DEF WindowEmpty
  <2>2. /\ Stay(c) /\ proc'[c].pc = "window" /\ Like(proc'[c], proc[c])
        /\ \/ /\ proc'[c].cur = EndOf(proc[c])
              /\ proc'[c].missed = proc[c].missed \cup
                    DayBars(DayOf(proc[c].cur), DayOf(EndOf(proc[c])) - 1)
           \/ /\ proc'[c].cur = proc[c].cur
              /\ proc'[c].missed = proc[c].missed
    BY <1>9, WindowEmptyType, ChunkEndType DEF ChunkEnd, EndOf
  <2>3. ASSUME Kept(proc[c], rows, temp) PROVE Covered(proc'[c], rows)
    <3>1. CASE proc'[c].cur = proc[c].cur /\ proc'[c].missed = proc[c].missed
      BY <2>2, <2>3, <3>1, CoveredLike DEF Kept
    <3>2. CASE /\ proc'[c].cur = EndOf(proc[c])
               /\ proc'[c].missed = proc[c].missed \cup
                    DayBars(DayOf(proc[c].cur), DayOf(EndOf(proc[c])) - 1)
      <4>1. Due(proc'[c], proc'[c].cur) = Due(proc[c], EndOf(proc[c]))
        BY <2>2, <3>2 DEF Due, Like
      <4> QED
        BY <2>3, <3>2, <4>1, NoGap, ProcType DEF Kept, Covered
    <3> QED
      BY <2>2, <3>1, <3>2
  <2>4. ASSUME Kept(proc[c], rows, temp) PROVE Kept(proc'[c], rows, temp)
    BY <2>2, <2>3, <2>4 DEF Kept, Staged, Asked, SaveStates
  <2> QED
    BY <2>1, <2>2, <2>4, SafeGoes
<1>10. ASSUME NEW c \in Clients, BackfillEnds(c) \/ ReadFails(c) \/ WriteReport(c)
               \/ ReplaceFails(c)
       PROVE  SafeInv'
  BY <1>2, <1>10 DEF BackfillEnds, ReadFails, WriteReport, ReplaceFails
<1>11. ASSUME NEW c \in Clients, Crash(c) PROVE SafeInv'
  <2>1. UNCHANGED <<rows, temp, acked, overlapped>> /\ Quit(c)
    BY <1>11 DEF Crash, hist
  <2>2. Stay(c) /\ Kept(proc'[c], rows, temp)
    BY <2>1, QuitType, KeptIdle
  <2> QED
    BY <2>1, <2>2, SafeMoves DEF SafeInv
<1>12. ASSUME NEW c \in Clients, Lookup(c) PROVE SafeInv'
  <2>1. PICK a \in DbAnswers(proc[c].range) : Goto(c, "load") \/ Deliver(c, a)
    BY <1>12 DEF Lookup
  <2>2. a \in SUBSET Bars /\ "load" \in PCs /\ "load" \notin SaveStates \cup {"mixed"}
    BY ReadTypes DEF SaveStates
  <2>3. At(c, "lookup") /\ UNCHANGED <<db, hist>>
    BY <1>12 DEF Lookup
  <2> QED
    BY <1>3, <1>4, <2>1, <2>2, <2>3
<1>13. ASSUME NEW c \in Clients, LoadCached(c) \/ WriteCache(c) PROVE SafeInv'
  <2>1. UNCHANGED <<db, hist>>
    BY <1>13 DEF LoadCached, WriteCache
  <2> QED
    BY <1>4, <1>13, <2>1, ReadTypes DEF LoadCached, WriteCache
<1>14. ASSUME NEW c \in Clients, LoadRemote(c) PROVE SafeInv'
  <2>1. UNCHANGED <<db, hist>> /\ At(c, "load")
    BY <1>14 DEF LoadRemote
  <2>2. CASE proc'[c] = Idle
    BY <1>14, <2>1, <2>2, LoadRemoteType, KeptIdle, SafeGoes
  <2>3. CASE proc'[c] # Idle
    <3>1. /\ Stay(c) /\ proc'[c].pc \in {"replace", "read", "cached"}
          /\ Like(proc'[c], proc[c])
          /\ proc'[c].cur = proc[c].cur /\ proc'[c].missed = proc[c].missed
      BY <1>14, <2>3, LoadRemoteType DEF SaveStep
    <3>2. ASSUME Kept(proc[c], rows, temp) PROVE Kept(proc'[c], rows, temp)
      <4>1. Covered(proc'[c], rows)
        BY <3>1, <3>2, CoveredLike DEF Kept
      <4>2. proc'[c].kind # "backfill"
        BY <2>1, <3>1, <3>2 DEF Kept, Asked, At, Like
      <4> QED
        BY <3>1, <4>1, <4>2 DEF Kept, Staged, Asked
    <3> QED
      BY <2>1, <3>1, <3>2, SafeGoes
  <2> QED
    BY <2>2, <2>3
<1>15. ASSUME NEW c \in Clients, ReplaceTemp(c) \/ ReadFile(c), overlapped'
       PROVE  SafeInv'
  BY <1>15 DEF SafeInv
<1>16. ASSUME NEW c \in Clients, ReplaceTemp(c), ~overlapped' PROVE SafeInv'
  <2>1. /\ At(c, "replace") /\ Goto(c, "upsert") /\ temp' = proc[c].batch
        /\ UNCHANGED <<rows, acked>>
        /\ ~overlapped /\ \A d \in Clients \ {c} : ~Saving(d)
    BY <1>16 DEF ReplaceTemp, Entering
  <2>2. /\ Stay(c) /\ proc'[c].pc = "upsert" /\ Like(proc'[c], proc[c])
        /\ proc'[c].cur = proc[c].cur /\ proc'[c].batch = proc[c].batch
        /\ proc'[c].missed = proc[c].missed
    BY <2>1, PcNames, GotoType
  <2>3. acked \subseteq rows /\ Kept(proc[c], rows, temp)
    BY <2>1 DEF SafeInv
  <2>4. Covered(proc'[c], rows) /\ EndOf(proc'[c]) = EndOf(proc[c])
    BY <2>2, <2>3, CoveredLike DEF Kept
  <2>5. Asked(proc'[c])
    BY <2>1, <2>2, <2>3, <2>4 DEF Kept, Asked, SaveStates, At, Like
  <2>6. Kept(proc'[c], rows', temp')
    BY <2>1, <2>2, <2>4, <2>5 DEF Kept, Staged
  <2> QED
    BY <1>16, <2>1, <2>2, <2>3, <2>6, SafeMoves
<1>17. ASSUME NEW c \in Clients, ReadFile(c), ~overlapped' PROVE SafeInv'
  <2>1. /\ At(c, "read") /\ UNCHANGED <<rows, temp, acked>>
        /\ ~overlapped /\ \A d \in Clients \ {c} : ~Saving(d)
    BY <1>17 DEF ReadFile, Entering, db
  <2>2. \A e \in Clients : ~Writing(e)
    BY <2>1 DEF Saving, Writing, At
  <2>3. /\ Stay(c) /\ proc'[c].pc = "write" /\ proc'[c].seen = rows
        /\ Like(proc'[c], proc[c])
        /\ proc'[c].cur = proc[c].cur /\ proc'[c].batch = proc[c].batch
        /\ proc'[c].missed = proc[c].missed
    BY <1>17, <2>2, ReadFileType DEF Stay, Like
  <2>4. acked \subseteq rows /\ Kept(proc[c], rows, temp)
    BY <2>1 DEF SafeInv
  <2>5. Covered(proc'[c], rows) /\ EndOf(proc'[c]) = EndOf(proc[c])
    BY <2>3, <2>4, CoveredLike DEF Kept
  <2>6. Asked(proc'[c])
    BY <2>1, <2>3, <2>4, <2>5 DEF Kept, Asked, SaveStates, At, Like
  <2>7. Kept(proc'[c], rows', temp')
    BY <2>1, <2>3, <2>5, <2>6 DEF Kept, Staged
  <2> QED
    BY <1>17, <2>1, <2>3, <2>4, <2>7, SafeMoves
<1>18. ASSUME NEW c \in Clients, overlapped,
              Upsert(c) \/ UpsertFails(c) \/ DropOk(c) \/ DropErr(c) \/ FinishWrite(c)
       PROVE  SafeInv'
  BY <1>18
  DEF Upsert, UpsertFails, DropOk, DropErr, FinishWrite, hist, SafeInv
<1>19. ASSUME NEW c \in Clients, Saving(c), ~overlapped
       PROVE  /\ \A d \in Clients \ {c} : ~Saving(d)
              /\ acked \subseteq rows /\ Kept(proc[c], rows, temp)
  BY <1>19 DEF SafeInv, OneSaver
<1>20. ASSUME NEW c \in Clients, Upsert(c) \/ UpsertFails(c), ~overlapped
       PROVE  SafeInv'
  <2>1. /\ At(c, "upsert") /\ UNCHANGED <<temp, acked, overlapped>>
        /\ \/ rows' = rows \cup temp /\ Goto(c, "dropOk")
           \/ rows' = rows /\ Goto(c, "dropErr")
    BY <1>20 DEF Upsert, UpsertFails, hist, db
  <2>2. /\ \A d \in Clients \ {c} : ~Saving(d)
        /\ acked \subseteq rows /\ Kept(proc[c], rows, temp)
    BY <1>19, <1>20, <2>1 DEF At, Saving
  <2>3. /\ Stay(c) /\ Like(proc'[c], proc[c])
        /\ proc'[c].cur = proc[c].cur /\ proc'[c].batch = proc[c].batch
        /\ proc'[c].missed = proc[c].missed
        /\ \/ proc'[c].pc = "dropOk" /\ rows' = rows \cup temp
           \/ proc'[c].pc = "dropErr"
    BY <2>1, PcNames, GotoType
  <2>4. rows \subseteq rows'
    BY <2>1
  <2>5. Covered(proc'[c], rows') /\ EndOf(proc'[c]) = EndOf(proc[c])
    BY <2>2, <2>3, <2>4, CoveredLike DEF Kept
  <2>6. Asked(proc'[c])
    BY <2>1, <2>2, <2>3, <2>5 DEF Kept, Asked, SaveStates, At, Like
  <2>7. temp = proc[c].batch
    BY <2>1, <2>2 DEF Kept, Staged, At
  <2>8. Kept(proc'[c], rows', temp')
    BY <2>3, <2>5, <2>6, <2>7 DEF Kept, Staged
  <2> QED
    BY <1>20, <2>1, <2>2, <2>3, <2>4, <2>8, SafeMoves
<1>21. ASSUME NEW c \in Clients, DropErr(c), ~overlapped PROVE SafeInv'
  <2>1. /\ At(c, "dropErr") /\ Quit(c) /\ UNCHANGED <<rows, acked, overlapped>>
    BY <1>21 DEF DropErr, hist
  <2>2. /\ \A d \in Clients \ {c} : ~Saving(d)
        /\ acked \subseteq rows
    BY <1>19, <1>21, <2>1 DEF At, Saving
  <2>3. Stay(c) /\ Kept(proc'[c], rows', temp')
    BY <2>1, QuitType, KeptIdle
  <2> QED
    BY <1>21, <2>1, <2>2, <2>3, SafeMoves
<1>22. ASSUME NEW c \in Clients, DropOk(c) \/ FinishWrite(c), ~overlapped
       PROVE  SafeInv'
  <2>1. /\ \/ At(c, "dropOk") /\ rows' = rows
           \/ Writing(c) /\ rows' = proc[c].seen \cup proc[c].batch
        /\ Saved(c) /\ UNCHANGED overlapped
    BY <1>22 DEF DropOk, FinishWrite, Merged
  <2>2. Saving(c)
    BY <2>1 DEF At, Saving
  <2>3. /\ \A d \in Clients \ {c} : ~Saving(d)
        /\ acked \subseteq rows /\ Kept(proc[c], rows, temp)
    BY <1>19, <1>22, <2>2
  <2>4. rows' = rows \cup proc[c].batch
    BY <2>1, <2>3 DEF Kept, Staged, At, Writing
  <2>5. /\ Stay(c) /\ Like(proc'[c], proc[c]) /\ proc'[c].missed = proc[c].missed
        /\ \/ /\ proc[c].kind = "backfill" /\ proc'[c].pc = "window"
              /\ proc'[c].cur = EndOf(proc[c])
           \/ /\ proc[c].kind # "backfill" /\ proc'[c].pc = "cached"
              /\ proc'[c].cur = proc[c].cur
        /\ acked' = acked \cup proc[c].batch
    BY <2>1, SavedType DEF ChunkEnd, EndOf
  <2>6. Covered(proc'[c], rows')
    <3>1. CASE proc'[c].cur = proc[c].cur
      BY <2>3, <2>4, <2>5, <3>1, CoveredLike DEF Kept
    <3>2. CASE proc[c].kind = "backfill" /\ proc'[c].cur = EndOf(proc[c])
      <4>1. Due(proc'[c], proc'[c].cur) = Due(proc[c], EndOf(proc[c]))
        BY <2>5, <3>2 DEF Due, Like
      <4>2. DayBars(DayOf(proc[c].cur), DayOf(EndOf(proc[c])) - 1)
              \subseteq proc[c].batch \cup proc[c].missed
        <5>1. proc[c].pc \in {"dropOk", "write"}
          BY <2>1, <2>3 DEF Kept, Staged, At, Writing
        <5> QED
          BY <2>3, <3>2, <5>1 DEF Kept, Asked, SaveStates
      <4> QED
        BY <2>3, <2>4, <2>5, <4>1, <4>2, NoGap, ProcType DEF Kept, Covered
    <3> QED
      BY <2>5, <3>1, <3>2
  <2>7. Kept(proc'[c], rows', temp')
    BY <2>5, <2>6 DEF Kept, Staged, Asked, SaveStates
  <2> QED
    BY <1>22, <2>1, <2>3, <2>4, <2>5, <2>7, SafeMoves
<1>23. CASE Publish \/ UNCHANGED vars
  <2>1. UNCHANGED <<proc, db, hist>>
    BY <1>23 DEF Publish, vars
  <2> QED
    BY <2>1 DEF SafeInv, OneSaver, Saving, Writing, db, hist
<1>24. ASSUME NEW c \in Clients, EnableTimescale(c) PROVE SafeInv'
  <2>1. /\ Stay(c) /\ proc'[c].pc = FirstStep(c)
        /\ proc'[c].kind = proc[c].kind /\ proc'[c].asof = proc[c].asof
        /\ proc'[c].cur = proc[c].cur /\ proc'[c].missed = proc[c].missed
        /\ UNCHANGED <<db, hist>>
    BY <1>24, EnableType DEF EnableTimescale
  <2>2. ASSUME Kept(proc[c], rows, temp) PROVE Kept(proc'[c], rows, temp)
    <3>1. Covered(proc'[c], rows)
      BY <2>1, <2>2 DEF Kept, Covered, Due
    <3> QED
      BY <2>1, <3>1 DEF Kept, Staged, Asked, SaveStates, FirstStep
  <2> QED
    BY <2>1, <2>2, SafeGoes
<1> QED
  <2>1. ASSUME NEW c \in Clients, ReplaceTemp(c) \/ ReadFile(c) PROVE SafeInv'
    BY <1>15, <1>16, <1>17, <2>1
  <2>2. ASSUME NEW c \in Clients, Upsert(c) \/ UpsertFails(c) \/ DropOk(c)
                 \/ DropErr(c) \/ FinishWrite(c)
        PROVE  SafeInv'
    BY <1>18, <1>20, <1>21, <1>22, <2>2
  <2> QED
    BY <1>1, <1>5, <1>6, <1>7, <1>8, <1>9, <1>10, <1>11, <1>12, <1>13, <1>14,
       <1>23, <1>24, <2>1, <2>2 DEF Next, Step

LEMMA StoreSafe == Spec => [](TypeOK /\ SafeInv)
  BY StoreTypeInit, StoreTypeStep, SafeInvInit, SafeInvStep, PTL DEF Spec

\* With saves that do not overlap, no bar of a save that returned is lost,
\* whatever is killed, refused or retried, with either backend.
THEOREM NoSaveIsLost == Spec => []AckedStored
<1>1. SafeInv => AckedStored
  BY DEF SafeInv, AckedStored
<1> QED
  BY <1>1, StoreSafe, PTL

\* A backfill leaves no bar behind that it did not report as missing, for
\* every length of a window.
THEOREM NothingSkipped == Spec => []BackfillFills
<1>1. SafeInv => BackfillFills
  <2> SUFFICES ASSUME SafeInv, ~overlapped, NEW c \in Clients
               PROVE  Covered(proc[c], rows)
    BY DEF BackfillFills, Covered, Due
  <2> QED
    BY DEF SafeInv, Kept
<1> QED
  BY <1>1, StoreSafe, PTL

(***************************************************************************)
(* Commands advance.  What makes the windows of a backfill go forward: it  *)
(* has a window of some length, and saves only what lies before the end of *)
(* the range; the other commands have none to come back to.                *)
(***************************************************************************)
Busy(p) == p.pc \in SaveStates \cup {"mixed"}

Going(p) ==
    /\ p.kind = "backfill" => p.chunk \in Chunks
    /\ p.kind = "backfill" /\ Busy(p) => p.cur < End
    /\ p.pc = "window" => p.kind = "backfill"
    /\ p.pc \in {"lookup", "load"} => p.kind # "backfill"

AllGoing == \A c \in Clients : Going(proc[c])

LEMMA NumbersOf ==
  ASSUME NEW p \in Process
  PROVE  p.cur \in Nat /\ p.cur <= End /\ p.tries \in Nat
<1>1. p.cur \in 0..End /\ p.tries \in 0..MaxRetries
  BY DEF Process
<1> QED
  BY <1>1, EndType

LEMMA GoingIdle == Going(Idle)
  BY DEF Going, Idle, Busy, SaveStates

\* The end of a window is after its start.
LEMMA WindowAdvances ==
  ASSUME TypeOK, NEW c \in Clients, Going(proc[c]),
         proc[c].kind = "backfill", proc[c].cur < End
  PROVE  ChunkEnd(c) > proc[c].cur
<1>1. proc[c].chunk \in Nat /\ proc[c].chunk > 0
  <2>1. proc[c].chunk \in Chunks
    BY DEF Going
  <2>2. \A k \in Chunks : k \in Nat /\ k > 0
    OBVIOUS
  <2> QED
    BY <2>1, <2>2
<1>2. proc[c].cur \in Nat /\ End \in Nat
  BY ProcType, NumbersOf, EndType
<1> QED
  BY <1>1, <1>2 DEF ChunkEnd

\* Fewer steps ahead in the same window, at the same attempt
LEMMA FewerAhead ==
  ASSUME NEW p \in Process, NEW q \in Process,
         q.cur = p.cur, q.tries = p.tries, Ahead[q.pc] < Ahead[p.pc]
  PROVE  Further(q, p)
  BY DEF Further

Goes(c) ==
  /\ Stay(c) /\ Going(proc'[c])
  /\ proc'[c].pc = "idle" \/ Further(proc'[c], proc[c])

\* A step to another label
LEMMA GotoGoes ==
  ASSUME TypeOK, NEW c \in Clients, NEW l \in PCs, Goto(c, l),
         Ahead[l] < Ahead[proc[c].pc], Going(proc[c]),
         l \in SaveStates \cup {"mixed"} => Busy(proc[c]),
         l = "window" => proc[c].kind = "backfill",
         l \in {"lookup", "load"} => proc[c].kind # "backfill"
  PROVE  Goes(c)
<1>1. /\ Stay(c) /\ proc'[c].pc = l /\ Like(proc'[c], proc[c])
      /\ proc'[c].cur = proc[c].cur /\ proc'[c].tries = proc[c].tries
      /\ proc'[c] \in Process /\ proc[c] \in Process
  BY GotoType, ProcType
<1>2. Further(proc'[c], proc[c])
  BY <1>1, FewerAhead
<1>3. Going(proc'[c])
  BY <1>1 DEF Going, Like, Busy
<1> QED
  BY <1>1, <1>2, <1>3 DEF Goes

LEMMA QuitGoes ==
  ASSUME TypeOK, NEW c \in Clients, Quit(c) PROVE Goes(c)
  BY QuitType, GoingIdle DEF Goes, Idle

LEMMA DeliverGoes ==
  ASSUME TypeOK, NEW c \in Clients, NEW S \in SUBSET Bars, Deliver(c, S),
         Going(proc[c]), proc[c].pc \in {"lookup", "load", "cached"}
  PROVE  Goes(c)
<1>1. CASE proc'[c] = Idle
  BY <1>1, DeliverType, GoingIdle DEF Goes, Idle
<1>2. CASE proc'[c] # Idle
  <2>1. /\ Stay(c) /\ proc'[c].pc = "report" /\ Like(proc'[c], proc[c])
        /\ proc'[c].cur = proc[c].cur /\ proc'[c].tries = proc[c].tries
        /\ proc'[c] \in Process /\ proc[c] \in Process
    BY <1>2, DeliverType, ProcType
  <2>2. Ahead[proc'[c].pc] < Ahead[proc[c].pc]
    BY <2>1 DEF Ahead
  <2>3. Going(proc'[c])
    BY <2>1 DEF Going, Like, Busy, SaveStates
  <2> QED
    BY <2>1, <2>2, <2>3, FewerAhead DEF Goes
<1> QED
  BY <1>1, <1>2

LEMMA SavedGoes ==
  ASSUME TypeOK, NEW c \in Clients, Saved(c), Going(proc[c]),
         proc[c].pc \in {"dropOk", "write", "mixed"}
  PROVE  Goes(c)
<1>1. /\ Stay(c) /\ Like(proc'[c], proc[c])
      /\ proc'[c] \in Process /\ proc[c] \in Process
  BY SavedType, ProcType
<1>2. CASE /\ proc[c].kind = "backfill" /\ proc'[c].pc = "window"
           /\ proc'[c].cur = ChunkEnd(c)
  <2>1. proc[c].cur < End
    BY <1>2 DEF Going, Busy, SaveStates
  <2>2. Further(proc'[c], proc[c])
    BY <1>2, <2>1, WindowAdvances DEF Further
  <2>3. Going(proc'[c])
    BY <1>1, <1>2 DEF Going, Like, Busy, SaveStates
  <2> QED
    BY <1>1, <2>2, <2>3 DEF Goes
<1>3. CASE /\ proc[c].kind # "backfill" /\ proc'[c].pc = "cached"
           /\ proc'[c].cur = proc[c].cur /\ proc'[c].tries = proc[c].tries
  <2>1. Ahead[proc'[c].pc] < Ahead[proc[c].pc]
    BY <1>3 DEF Ahead
  <2>2. Going(proc'[c])
    BY <1>1, <1>3 DEF Going, Like, Busy, SaveStates
  <2> QED
    BY <1>1, <1>3, <2>1, <2>2, FewerAhead DEF Goes
<1> QED
  BY <1>2, <1>3, SavedType

\* Every step but reading the file moves its own process only, and further.
LEMMA StepGoes ==
  ASSUME TypeOK, NEW c \in Clients, Going(proc[c]), Step(c), ~ReadFile(c)
  PROVE  Goes(c)
<1>1. CASE Open(c)
  <2>1. PICK l \in {"enable", "alter", FirstStep(c)} : Goto(c, l)
    BY <1>1 DEF Open
  <2>2. /\ l \in {"enable", "alter", "window", "lookup"}
        /\ l = "window" => proc[c].kind = "backfill"
        /\ l = "lookup" => proc[c].kind # "backfill"
    BY <2>1 DEF FirstStep
  <2>3. Ahead[l] < Ahead[proc[c].pc]
    BY <1>1, <2>2 DEF Open, At, Ahead
  <2> QED
    BY <2>1, <2>2, <2>3, GotoGoes, PcNames DEF SaveStates
<1>2. CASE AlterTable(c)
  <2>1. PICK l : l = FirstStep(c)
    OBVIOUS
  <2>2. Goto(c, l)
    BY <1>2, <2>1 DEF AlterTable
  <2>3. /\ l \in {"window", "lookup"}
        /\ l = "window" => proc[c].kind = "backfill"
        /\ l = "lookup" => proc[c].kind # "backfill"
    BY <2>1 DEF FirstStep
  <2>4. Ahead[l] < Ahead[proc[c].pc]
    BY <1>2, <2>3 DEF AlterTable, At, Ahead
  <2> QED
    BY <2>2, <2>3, <2>4, GotoGoes, PcNames DEF SaveStates
<1>3. CASE OpenFails(c)
  <2>1. CASE proc'[c] = Idle
    BY <1>3, <2>1, OpenFailsType, GoingIdle DEF Goes, Idle
  <2>2. CASE proc'[c] # Idle
    <3>1. /\ Stay(c) /\ proc'[c].pc = "load" /\ proc[c].kind = "fetch"
          /\ Like(proc'[c], proc[c])
          /\ proc'[c].cur = proc[c].cur /\ proc'[c].tries = proc[c].tries
          /\ proc'[c] \in Process /\ proc[c] \in Process
      BY <1>3, <2>2, OpenFailsType, ProcType
    <3>2. Ahead[proc'[c].pc] < Ahead[proc[c].pc]
      BY <1>3, <3>1 DEF OpenFails, Ahead
    <3>3. Going(proc'[c])
      BY <3>1 DEF Going, Like, Busy, SaveStates
    <3> QED
      BY <3>1, <3>2, <3>3, FewerAhead DEF Goes
  <2> QED
    BY <2>1, <2>2
<1>4. CASE WindowGot(c)
  <2>1. /\ Stay(c) /\ proc'[c].pc = SaveStep /\ Like(proc'[c], proc[c])
        /\ proc'[c].cur = proc[c].cur /\ proc'[c].tries = proc[c].tries
        /\ proc'[c] \in Process /\ proc[c] \in Process
    BY <1>4, WindowGotType, ProcType
  <2>2. At(c, "window") /\ proc[c].cur < End
    BY <1>4 DEF WindowGot
  <2>3. Ahead[proc'[c].pc] < Ahead[proc[c].pc]
    BY <2>1, <2>2 DEF At, SaveStep, Ahead
  <2>4. Going(proc'[c])
    BY <2>1, <2>2 DEF Going, Like, SaveStep
  <2> QED
    BY <2>1, <2>3, <2>4, FewerAhead DEF Goes
<1>5. CASE WindowEmpty(c)
  <2>1. /\ Stay(c) /\ proc'[c].pc = "window" /\ Like(proc'[c], proc[c])
        /\ \/ proc'[c].cur = ChunkEnd(c)
           \/ /\ proc'[c].cur = proc[c].cur
              /\ proc'[c].tries = proc[c].tries + 1
        /\ proc[c] \in Process
    BY <1>5, WindowEmptyType, ProcType
  <2>2. proc[c].pc = "window" /\ proc[c].cur < End /\ proc[c].kind = "backfill"
    BY <1>5 DEF WindowEmpty, At, Going
  <2>3. ChunkEnd(c) > proc[c].cur
    BY <2>2, WindowAdvances
  <2>4. proc[c].tries + 1 > proc[c].tries
    BY <2>1, NumbersOf
  <2>5. Further(proc'[c], proc[c])
    BY <2>1, <2>3, <2>4 DEF Further
  <2>6. Going(proc'[c])
    BY <2>1, <2>2 DEF Going, Like, Busy, SaveStates
  <2> QED
    BY <2>1, <2>5, <2>6 DEF Goes
<1>6. CASE BackfillEnds(c) \/ ReadFails(c) \/ WriteReport(c) \/ ReplaceFails(c)
             \/ DropErr(c)
  BY <1>6, QuitGoes
  DEF BackfillEnds, ReadFails, WriteReport, ReplaceFails, DropErr
<1>7. CASE Lookup(c)
  <2>1. PICK a \in DbAnswers(proc[c].range) : Goto(c, "load") \/ Deliver(c, a)
    BY <1>7 DEF Lookup
  <2>2. a \in SUBSET Bars /\ "load" \in PCs
    BY ReadTypes
  <2>3. proc[c].pc = "lookup" /\ proc[c].kind # "backfill"
    BY <1>7 DEF Lookup, At, Going
  <2>4. Ahead["load"] < Ahead[proc[c].pc]
    BY <2>3 DEF Ahead
  <2>5. CASE Goto(c, "load")
    BY <2>2, <2>3, <2>4, <2>5, GotoGoes DEF SaveStates
  <2>6. CASE Deliver(c, a)
    BY <2>2, <2>3, <2>6, DeliverGoes
  <2> QED
    BY <2>1, <2>5, <2>6
<1>8. CASE LoadCached(c) \/ WriteCache(c)
  <2>1. proc[c].pc \in {"load", "cached"}
    BY <1>8 DEF LoadCached, WriteCache, At
  <2>2. PICK B \in SUBSET Bars : Deliver(c, B)
    BY <1>8, ReadTypes DEF LoadCached, WriteCache
  <2> QED
    BY <2>1, <2>2, DeliverGoes
<1>9. CASE LoadRemote(c)
  <2>1. CASE proc'[c] = Idle
    BY <1>9, <2>1, LoadRemoteType, GoingIdle DEF Goes, Idle
  <2>2. CASE proc'[c] # Idle
    <3>1. /\ Stay(c) /\ proc'[c].pc \in {"replace", "read", "cached"}
          /\ Like(proc'[c], proc[c])
          /\ proc'[c].cur = proc[c].cur /\ proc'[c].tries = proc[c].tries
          /\ proc'[c] \in Process /\ proc[c] \in Process
      BY <1>9, <2>2, LoadRemoteType, ProcType DEF SaveStep
    <3>2. proc[c].pc = "load" /\ proc[c].kind # "backfill"
      BY <1>9 DEF LoadRemote, At, Going
    <3>3. Ahead[proc'[c].pc] < Ahead[proc[c].pc]
      BY <3>1, <3>2 DEF Ahead
    <3>4. Going(proc'[c])
      BY <3>1, <3>2 DEF Going, Like
    <3> QED
      BY <3>1, <3>3, <3>4, FewerAhead DEF Goes
  <2> QED
    BY <2>1, <2>2
<1>10. CASE ReplaceTemp(c) \/ Upsert(c) \/ UpsertFails(c)
  <2>1. PICK l \in {"upsert", "dropOk", "dropErr"} :
          /\ Goto(c, l)
          /\ proc[c].pc = IF l = "upsert" THEN "replace" ELSE "upsert"
    BY <1>10 DEF ReplaceTemp, Upsert, UpsertFails, At
  <2>2. Ahead[l] < Ahead[proc[c].pc]
    BY <2>1 DEF Ahead
  <2>3. Busy(proc[c])
    BY <2>1 DEF Busy, SaveStates
  <2> QED
    BY <2>1, <2>2, <2>3, GotoGoes, PcNames DEF SaveStates
<1>11. CASE DropOk(c) \/ FinishWrite(c)
  <2>1. Saved(c) /\ proc[c].pc \in {"dropOk", "write", "mixed"}
    BY <1>11 DEF DropOk, FinishWrite, At, Writing
  <2> QED
    BY <2>1, SavedGoes
<1>12. CASE EnableTimescale(c)
  <2>1. /\ Stay(c) /\ proc'[c].pc = FirstStep(c)
        /\ proc'[c].kind = proc[c].kind /\ proc'[c].chunk = proc[c].chunk
        /\ proc'[c].cur = proc[c].cur /\ proc'[c].tries = proc[c].tries
        /\ proc'[c] \in Process /\ proc[c] \in Process
    BY <1>12, EnableType, ProcType
  <2>2. Ahead[proc'[c].pc] < Ahead[proc[c].pc]
    BY <1>12, <2>1 DEF EnableTimescale, At, FirstStep, Ahead
  <2>3. Going(proc'[c])
    BY <2>1 DEF Going, Busy, SaveStates, FirstStep
  <2> QED
    BY <2>1, <2>2, <2>3, FewerAhead DEF Goes
<1> QED
  BY <1>1, <1>2, <1>3, <1>4, <1>5, <1>6, <1>7, <1>8, <1>9, <1>10, <1>11, <1>12
  DEF Step

\* Where a process is, to within the two ways to be writing
Abreast(q, p) ==
  q.cur = p.cur /\ q.tries = p.tries /\ Ahead[q.pc] = Ahead[p.pc]

\* Reading the file takes the reader further; a writer it meets stays abreast.
LEMMA ReadFileGoes ==
  ASSUME TypeOK, AllGoing, NEW c \in Clients, ReadFile(c)
  PROVE  /\ AllGoing' /\ Further(proc'[c], proc[c])
         /\ \A d \in Clients \ {c} : Abreast(proc'[d], proc[d])
<1>1. /\ proc' \in [Clients -> Process] /\ proc \in [Clients -> Process]
      /\ proc'[c].pc \in {"write", "mixed"} /\ proc[c].pc = "read"
  BY ReadFileType DEF TypeOK, ReadFile, At
<1>2. \A d \in Clients : /\ Like(proc'[d], proc[d])
                         /\ proc'[d].cur = proc[d].cur
                         /\ proc'[d].tries = proc[d].tries
  BY ReadFileType DEF Like
<1>3. Ahead[proc'[c].pc] < Ahead[proc[c].pc]
  BY <1>1 DEF Ahead
<1>4. ASSUME NEW d \in Clients \ {c}
      PROVE  \/ proc'[d].pc = proc[d].pc
             \/ proc'[d].pc = "mixed" /\ Writing(d)
  <2>1. [proc[d] EXCEPT !.pc = "mixed"].pc = "mixed"
    BY <1>1 DEF Process
  <2> QED
    BY <2>1, ReadFileType
<1>5. Further(proc'[c], proc[c])
  BY <1>1, <1>2, <1>3, FewerAhead
<1>6. ASSUME NEW d \in Clients \ {c} PROVE Abreast(proc'[d], proc[d])
  BY <1>2, <1>4 DEF Abreast, Writing, Ahead
<1>7. ASSUME NEW d \in Clients PROVE Going(proc'[d])
  <2>1. Busy(proc'[d]) => Busy(proc[d])
    BY <1>1, <1>4 DEF Busy, SaveStates, Writing
  <2>2. proc'[d].pc \in {"window", "lookup", "load"} => proc'[d].pc = proc[d].pc
    BY <1>1, <1>4
  <2> QED
    BY <1>2, <2>1, <2>2 DEF AllGoing, Going, Like
<1> QED
  BY <1>5, <1>6, <1>7 DEF AllGoing

\* One process goes, the others stand.
LEMMA OneGoes ==
  ASSUME AllGoing, NEW c \in Clients, Stay(c), Going(proc'[c])
  PROVE  AllGoing' /\ \A d \in Clients \ {c} : Abreast(proc'[d], proc[d])
  BY DEF AllGoing, Stay, Abreast

LEMMA AdvanceStep ==
  ASSUME TypeOK, AllGoing, [Next]_vars
  PROVE  /\ AllGoing'
         /\ \A c \in Clients :
              /\ Step(c) => At(c, "idle")' \/ Further(proc'[c], proc[c])
              /\ \/ At(c, "idle") \/ At(c, "idle")'
                 \/ Further(proc'[c], proc[c])
                 \/ Abreast(proc'[c], proc[c])
<1> DEFINE Fine(c) == \/ proc[c].pc = "idle" \/ proc'[c].pc = "idle"
                      \/ Further(proc'[c], proc[c])
                      \/ Abreast(proc'[c], proc[c])
           AllFine == AllGoing' /\ \A c \in Clients : Fine(c)
<1>1. ASSUME NEW c \in Clients, Step(c)
      PROVE  AllFine /\ (proc'[c].pc = "idle" \/ Further(proc'[c], proc[c]))
  <2>1. CASE ReadFile(c)
    BY <2>1, ReadFileGoes
  <2>2. CASE ~ReadFile(c)
    <3>1. Goes(c)
      BY <1>1, <2>2, StepGoes DEF AllGoing
    <3> QED
      BY <3>1, OneGoes DEF Goes
  <2> QED
    BY <2>1, <2>2
<1>2. ASSUME NEW c \in Clients,
             StartBackfill(c) \/ StartUpdate(c) \/ StartFetch(c)
      PROVE  AllFine
  <2>1. /\ Stay(c) /\ proc'[c].pc = "open"
        /\ proc'[c].kind = "backfill" => proc'[c].chunk \in Chunks
    BY <1>2, StartsType
  <2>2. proc[c].pc = "idle"
    BY <1>2 DEF StartBackfill, StartUpdate, StartFetch, Start, At
  <2>3. Going(proc'[c])
    BY <2>1 DEF Going, Busy, SaveStates
  <2> QED
    BY <2>1, <2>2, <2>3, OneGoes
<1>3. ASSUME NEW c \in Clients, Crash(c) PROVE AllFine
  <2>1. Goes(c) /\ proc'[c].pc = "idle"
    BY <1>3, QuitGoes, QuitType DEF Crash, Idle
  <2> QED
    BY <2>1, OneGoes DEF Goes
<1>4. ASSUME Publish \/ UNCHANGED vars PROVE AllFine
  <2>1. UNCHANGED proc
    BY <1>4 DEF Publish, vars
  <2>2. AllGoing'
    BY <2>1 DEF AllGoing
  <2>3. \A c \in Clients : Abreast(proc'[c], proc[c])
    BY <2>1 DEF Abreast
  <2> QED
    BY <2>2, <2>3
<1>5. AllFine
  <2> HIDE DEF AllFine
  <2>1. CASE UNCHANGED vars
    BY <1>4, <2>1
  <2>2. CASE Next
    <3>1. CASE Publish
      BY <1>4, <3>1
    <3>2. ASSUME NEW c \in Clients,
                 \/ StartBackfill(c) \/ StartUpdate(c) \/ StartFetch(c)
                 \/ Crash(c) \/ Step(c)
          PROVE  AllFine
      BY <1>1, <1>2, <1>3, <3>2, Zenon
    <3> QED
      BY <2>2, <3>1, <3>2, Zenon DEF Next
  <2> QED
    BY <2>1, <2>2
<1> QED
  BY <1>1, <1>5 DEF At

\* Every step of a command takes it further, to a later window, a later
\* attempt or a later step, or ends it, and no step of another process sets
\* it back: with the bounds in its type this is why commands end, for every
\* length of the windows and any number of retries.
THEOREM CommandsGoForward == Spec => CommandsAdvance
<1>1. Init => AllGoing
  BY GoingIdle DEF Init, AllGoing
<1>2. TypeOK /\ AllGoing /\ [Next]_vars => AllGoing'
  BY AdvanceStep
<1>3. TypeOK /\ AllGoing /\ [Next]_vars =>
        [\A c \in Clients :
           /\ Step(c) => At(c, "idle")' \/ Further(proc'[c], proc[c])
           /\ \/ At(c, "idle") \/ At(c, "idle")'
              \/ Further(proc'[c], proc[c])
              \/ /\ proc'[c].cur = proc[c].cur
                 /\ proc'[c].tries = proc[c].tries
                 /\ Ahead[proc'[c].pc] = Ahead[proc[c].pc]]_vars
  BY AdvanceStep DEF Abreast
<1> QED
  BY <1>1, <1>2, <1>3, StoreTypes, PTL DEF Spec, CommandsAdvance

(***************************************************************************)
(* The store implements BarPromise.                                        *)
(***************************************************************************)
LEMMA RowsGrow ==
  ASSUME TypeOK, SafeInv, SafeInv', [Next]_vars, ~overlapped, ~overlapped'
  PROVE  rows \subseteq rows' /\ acked \subseteq acked'
<1>1. ASSUME NEW c \in Clients, FinishWrite(c) PROVE rows \subseteq rows'
  BY <1>1 DEF FinishWrite, Merged, Writing, SafeInv, Kept, Staged
<1>2. ASSUME NEW c \in Clients, Step(c)
      PROVE  rows \subseteq rows' /\ acked \subseteq acked'
  BY <1>1, <1>2, StepTouches DEF Upsert, DropOk, FinishWrite, Saved
<1>3. ASSUME NEW c \in Clients, StartBackfill(c) \/ StartUpdate(c)
               \/ StartFetch(c) \/ Crash(c)
      PROVE  UNCHANGED <<rows, acked>>
  BY <1>3, RestTouches
<1>4. CASE Publish \/ UNCHANGED vars
  BY <1>4 DEF Publish, vars, db, hist
<1> QED
  BY <1>2, <1>3, <1>4 DEF Next

\* Two saves meet when one enters.
LEMMA OverlapSteps ==
  ASSUME [Next]_vars
  PROVE  \/ overlapped' = overlapped
         \/ \E c \in Clients : ReplaceTemp(c) \/ ReadFile(c)
<1>1. ASSUME NEW c \in Clients, StartBackfill(c) \/ StartUpdate(c)
               \/ StartFetch(c) \/ Crash(c)
      PROVE  overlapped' = overlapped
  BY <1>1, RestTouches
<1>2. CASE Publish \/ UNCHANGED vars
  BY <1>2 DEF Publish, vars, hist
<1> QED
  BY <1>1, <1>2, StepTouches DEF Next

\* Entering changes nothing.
LEMMA Meeting ==
  ASSUME [Next]_vars, ~overlapped, overlapped'
  PROVE  UNCHANGED <<rows, acked>>
<1>1. PICK c \in Clients : ReplaceTemp(c) \/ ReadFile(c)
  BY OverlapSteps
<1> QED
  BY <1>1 DEF ReplaceTemp, ReadFile, db

\* What has happened cannot be undone.
LEMMA OnceOverlapped ==
  ASSUME [Next]_vars, overlapped PROVE overlapped'
<1>1. ASSUME NEW c \in Clients, ReplaceTemp(c) \/ ReadFile(c) PROVE overlapped'
  BY <1>1 DEF ReplaceTemp, ReadFile, Entering
<1> QED
  BY <1>1, OverlapSteps

\* The database with its temporary table and the file that is rewritten both
\* implement BarPromise: every step keeps its promise, ends it, or comes after.
THEOREM StoreKeepsPromise == Spec => KeepsPromise
<1>1. Init => Promise!Init
  BY DEF Init, Promise!Init
<1>2. TypeOK /\ TypeOK' /\ SafeInv /\ SafeInv' /\ [Next]_vars
        => [Promise!Next]_Promise!pvars
  <2> SUFFICES ASSUME TypeOK, TypeOK', SafeInv, SafeInv', [Next]_vars
               PROVE  Promise!Next
    OBVIOUS
  <2>1. CASE overlapped
    BY <2>1, OnceOverlapped DEF TypeOK, Promise!Next, Promise!Unpromised
  <2>2. CASE ~overlapped /\ overlapped'
    BY <2>2, Meeting DEF Promise!Next, Promise!Share
  <2>3. CASE ~overlapped /\ ~overlapped'
    BY <2>3, RowsGrow
    DEF TypeOK, SafeInv, Promise!Next, Promise!Keep
  <2> QED
    BY <2>1, <2>2, <2>3
<1> QED
  BY <1>1, <1>2, StoreSafe, PTL DEF Spec, KeepsPromise, Promise!Spec
=============================================================================
