----------------------------- MODULE MemoryLayers -----------------------------
(* What the agent remembers: the layered memory (memory/layers.ts), the flat   *)
(* store of notes (utils/memory.ts), the advice a run gets from both           *)
(* (memory/advisor.ts) and what the end of a run teaches them (orchestrator).  *)
(*                                                                             *)
(* A pattern, a page and a note are values; the sensitivity gates, clipping    *)
(* and scores are left out: a record that is refused is one that is not made.  *)
(* The sequences are in order of last use, which is what the caps go by.       *)
EXTENDS Naturals, Sequences, FiniteSets, SequencesExt

CONSTANTS
  MemNames,     \* objectives, which name the procedures; all of them are alike
  MaxMemFails,  \* MAX_FAILURES, 100
  MaxMemProcs,  \* MAX_PROCEDURES, 40
  MaxMemEps,    \* MAX_EPISODES, 60
  MaxMemNotes,  \* MAX_ENTRIES, 200
  MemSnap,      \* records of a kind in a snapshot, 50
  MemBudget,    \* advice: characters, in units of a short line
  MemOutcomes,  \* how runs end: done, failed, outcome, page
  NoteKinds,    \* a note of each type: "preference", "fact", "lesson"
  MaxMemOps,    \* bound: runs, and removals of what they taught
  MaxNoteOps,   \* bound: changes of the notes
  MaxMemLives   \* bound: lives of the process

ASSUME MemAssumption ==
  /\ {MaxMemFails, MaxMemProcs, MaxMemEps, MemSnap} \subseteq Nat /\ MaxMemNotes \in Nat \ {0}
  /\ \A o \in MemOutcomes : IsFiniteSet(o.failed)

VARIABLES
  mem,        \* LayeredMemory: fails, env, eps, procs
  memLoaded,  \* LayeredMemory.loaded
  memFile,    \* memory-layers.json: what it holds, nothing when it does not parse
  memSaved,   \* ghost: the last save worked
  memRun,     \* the run: its objective and what it was advised
  notes,      \* MemoryStore.entries: preference, fact and lesson notes
  notesLoaded,
  notesFile,
  notesKept,  \* ghost: notes stored, and neither removed nor pushed out
  notesCold,  \* ghost: a note was added before the file was read
  memOps, noteOps, memLife, memIds  \* bounds and the next procedure id

memVars == <<mem, memLoaded, memFile, memSaved, memRun, notes, notesLoaded, notesFile,
             notesKept, notesCold, memOps, noteOps, memLife, memIds>>

NoPage == "none"
EmptyMemory == [fails |-> <<>>, env |-> [page |-> NoPage, fresh |-> FALSE], eps |-> <<>>, procs |-> <<>>]
NoAdvice == [objective |-> "none", advice |-> <<>>]

MemInit ==
  /\ mem = EmptyMemory /\ memLoaded = FALSE /\ memFile = EmptyMemory /\ memSaved = TRUE
  /\ memRun = NoAdvice /\ notes = <<>> /\ notesLoaded = FALSE /\ notesFile = <<>>
  /\ notesKept = {} /\ notesCold = FALSE /\ memOps = 0 /\ noteOps = 0 /\ memLife = 1 /\ memIds = 1

LastOf(s, n) == IF Len(s) <= n THEN s ELSE SubSeq(s, Len(s) - n + 1, Len(s))
Where(s, S) == FoldLeft(LAMBDA r, x : IF x \in S THEN Append(r, x) ELSE r, <<>>, s)
Without(s, S) == Where(s, Range(s) \ S)

(* ----- The layers ----------------------------------------------------------- *)
(* load, on the first call of the facade, and hydrate.                         *)
Hydrated(f) == [f EXCEPT !.fails = LastOf(@, MaxMemFails), !.eps = LastOf(@, MaxMemEps),
                         !.procs = LastOf(@, MaxMemProcs)]
LayersLoaded == IF memLoaded THEN mem ELSE Hydrated(memFile)

(* FailureMemory.record: a known pattern is counted, a new one may push out    *)
(* the one seen longest ago.                                                   *)
FailureRecorded(m, p) ==
  LET same  == {r \in Range(m.fails) : r.pattern = p}
      count == IF same = {} THEN 1 ELSE (CHOOSE r \in same : TRUE).count + 1
  IN  [m EXCEPT !.fails = LastOf(Append(Without(@, same), [pattern |-> p, count |-> count]), MaxMemFails)]
FailuresFor(m) == [i \in 1 .. Len(LastOf(m.fails, 2)) |-> <<"failure", LastOf(m.fails, 2)[i].pattern>>]

(* EnvironmentMemory.observe of the one key there is, its freshness window.    *)
EnvObserved(m, page) == [m EXCEPT !.env = [page |-> page, fresh |-> TRUE]]
EnvFor(m) == IF m.env.page = NoPage THEN <<>>
             ELSE <<<<IF m.env.fresh THEN "environment" ELSE "stale", m.env.page>>>>

EpisodeRecorded(m, name, outcome) == [m EXCEPT !.eps = LastOf(Append(@, <<name, outcome>>), MaxMemEps)]
EpisodesFor(m, name) == LastOf(Where(m.eps, {e \in Range(m.eps) : e[1] = name}), 1)

(* recordIfVerified: a success reinforces the procedure, rolled back or not.   *)
\* Mutant: a success of a rolled back procedure brings it back.
PromotedBack(m, name, id) ==
  LET same == {r \in Range(m.procs) : r.name = name}
      old  == Where(m.procs, same)
  IN [m EXCEPT !.procs = LastOf(Append(Without(@, same),
        IF old = <<>> THEN [name |-> name, id |-> id, status |-> "active", ok |-> 1, bad |-> 0]
        ELSE [old[1] EXCEPT !.ok = @ + 1, !.status = "active"]), MaxMemProcs)]
Promoted(m, name, id) ==
  LET same == {r \in Range(m.procs) : r.name = name}
      old  == Where(m.procs, same)
  IN [m EXCEPT !.procs = LastOf(Append(Without(@, same),
        IF old = <<>> THEN [name |-> name, id |-> id, status |-> "active", ok |-> 1, bad |-> 0]
        ELSE [old[1] EXCEPT !.ok = @ + 1]), MaxMemProcs)]

(* rollback, and the failure that leads to it.                                 *)
RolledBack(r) == [r EXCEPT !.status = "rolled_back"]
ProcedureFailed(m, id) ==
  LET same == {r \in Range(m.procs) : r.id = id}
      hit  == Where(m.procs, same) IN
  IF hit = <<>> THEN m
  ELSE LET r == [hit[1] EXCEPT !.bad = @ + 1]
       IN  [m EXCEPT !.procs = Append(Without(@, same),
              IF r.bad >= 2 /\ r.bad > r.ok THEN RolledBack(r) ELSE r)]
ProceduresFor(m) ==
  LET s == LastOf(Where(m.procs, {r \in Range(m.procs) : r.status = "active"}), 2)
  IN  [i \in DOMAIN s |-> <<"procedure", s[i].id>>]

(* save: after a mutation the whole memory is written; a write may fail.       *)
LayersKept(m) ==
  /\ mem' = m /\ memLoaded' = TRUE
  /\ IF m = LayersLoaded THEN UNCHANGED <<memFile, memSaved>>
     ELSE \E ok \in BOOLEAN : memSaved' = ok /\ memFile' = IF ok THEN m ELSE memFile

(* ----- The notes (whose writes succeed here) -------------------------------- *)
NotesLoaded == IF notesLoaded THEN notes ELSE LastOf(notesFile, MaxMemNotes)
NotesSaved(s) == notes' = s /\ notesFile' = s
(* add looks in the entries as they are, loaded or not.                        *)
Added(s, n) == LastOf(Append(Without(s, {n}), n), MaxMemNotes)
MemUnchanged == UNCHANGED <<mem, memLoaded, memFile, memSaved, memRun, memOps, memLife, memIds>>
NoteOp == noteOps < MaxNoteOps /\ noteOps' = noteOps + 1 /\ MemUnchanged
MemOp == memOps < MaxMemOps /\ memOps' = memOps + 1

AddNote(n) ==
  /\ NoteOp /\ NotesSaved(Added(notes, n)) /\ UNCHANGED notesLoaded
  /\ notesCold' = (notesCold \/ ~notesLoaded)
  /\ notesKept' = IF Contains(notes, n) \/ Len(notes) < MaxMemNotes THEN notesKept \cup {n}
                  ELSE (notesKept \cup {n}) \ {notes[1]}
RemoveNote(n) ==
  /\ NoteOp /\ Contains(NotesLoaded, n) /\ notesLoaded' = TRUE
  /\ NotesSaved(Without(NotesLoaded, {n}))
  /\ notesKept' = notesKept \ {n} /\ UNCHANGED notesCold
ClearNotes ==
  /\ NoteOp /\ notesLoaded' = TRUE /\ NotesSaved(<<>>)
  /\ notesKept' = {} /\ UNCHANGED notesCold
SearchNotes ==
  /\ ~notesLoaded /\ notesLoaded' = TRUE /\ notes' = NotesLoaded
  /\ UNCHANGED <<notesFile, notesKept, notesCold, noteOps>> /\ MemUnchanged

(* ----- A run ---------------------------------------------------------------- *)
(* advise: layer by layer, until a line of the layer does not fit.             *)
LineSize(line) == IF line[1] \in {"procedure", "episode"} THEN 2 ELSE 1
Used(a) == FoldLeft(LAMBDA n, line : n + LineSize(line), 0, a)
Pushed(a, lines) ==
  FoldLeft(LAMBDA acc, line : IF acc.open /\ Used(acc.a) + LineSize(line) <= MemBudget
                              THEN [acc EXCEPT !.a = Append(@, line)] ELSE [acc EXCEPT !.open = FALSE],
           [a |-> a, open |-> TRUE], lines).a
Advised(m, ns, name) ==
  LET OfKind(k) == LET s == Where(ns, {k}) IN [i \in DOMAIN s |-> <<k, s[i]>>]
      past == EpisodesFor(m, name)
  IN  FoldLeft(Pushed, <<>>,
        <<OfKind("preference"), OfKind("fact"), OfKind("lesson"), FailuresFor(m), EnvFor(m),
          ProceduresFor(m), [i \in DOMAIN past |-> <<"episode", past[i][1]>>]>>)

(* The flat store is read for a run; the layers are taken as they are.         *)
AdvisedRun(name) ==
  /\ MemOp /\ memRun = NoAdvice
  /\ notes' = NotesLoaded /\ notesLoaded' = TRUE
  /\ memRun' = [objective |-> name, advice |-> Advised(mem, NotesLoaded, name)]
  /\ UNCHANGED <<mem, memLoaded, memFile, memSaved, notesFile, notesKept, notesCold, noteOps, memLife, memIds>>

(* recordLayeredMemoryOutcome: the episode, the failures, the promotion, the   *)
(* failures of the procedures it was advised, the page.                        *)
Learned(m, done, failed, outcome, page) ==
  LET name == memRun.objective
      ran  == outcome \in {"completed", "step-limit"}
      advised == Where(memRun.advice, {l \in Range(memRun.advice) : l[1] = "procedure"})
      m1 == IF done > 0 \/ failed # {} \/ outcome = "stopped"
            THEN EpisodeRecorded(m, name, IF failed # {} THEN IF done > 0 THEN "partial" ELSE "failure"
                                          ELSE IF ran THEN "success" ELSE "partial")
            ELSE m
      m2 == FoldLeft(FailureRecorded, m1, SetToSeq(failed))
      m3 == IF ran /\ failed = {} /\ done >= 2 THEN Promoted(m2, name, memIds) ELSE m2
      m4 == IF failed = {} THEN m3 ELSE FoldLeft(LAMBDA a, l : ProcedureFailed(a, l[2]), m3, advised)
  IN  IF page = NoPage THEN m4 ELSE EnvObserved(m4, page)
FinishedRun(o) ==
  /\ memRun # NoAdvice /\ memRun' = NoAdvice
  /\ LayersKept(Learned(LayersLoaded, o.done, o.failed, o.outcome, o.page))
  /\ memIds' = memIds + 1 /\ memOps' = memOps
  /\ UNCHANGED <<notes, notesLoaded, notesFile, notesKept, notesCold, noteOps, memLife>>

(* ----- The owner, the clock and the process --------------------------------- *)
NotesUnchanged == UNCHANGED <<notes, notesLoaded, notesFile, notesKept, notesCold, noteOps, memRun, memLife, memIds>>
RemoveProcedure ==
  /\ MemOp /\ NotesUnchanged
  /\ \E i \in DOMAIN LayersLoaded.procs : LayersKept([LayersLoaded EXCEPT !.procs = RemoveAt(@, i)])
(* DELETE /memory/layers removes what a snapshot shows.                        *)
SnapshotOf(m) == [m EXCEPT !.fails = LastOf(@, MemSnap), !.eps = LastOf(@, MemSnap),
                         !.procs = SubSeq(@, 1, IF Len(@) < MemSnap THEN Len(@) ELSE MemSnap)]
ClearLayers ==
  LET m == LayersLoaded
      shown == SnapshotOf(m)
  IN /\ MemOp /\ NotesUnchanged
     /\ LayersKept([fails |-> Without(m.fails, Range(shown.fails)),
                    env   |-> EmptyMemory.env,
                    eps   |-> SubSeq(m.eps, 1, Len(m.eps) - Len(shown.eps)),
                    procs |-> Without(m.procs, Range(shown.procs))])
ReadLayers == ~memLoaded /\ mem' = LayersLoaded /\ memLoaded' = TRUE
              /\ UNCHANGED <<memFile, memSaved, memOps>> /\ NotesUnchanged
PageAges ==
  /\ mem.env.fresh /\ mem' = [mem EXCEPT !.env.fresh = FALSE] /\ memFile' = [memFile EXCEPT !.env.fresh = FALSE]
  /\ UNCHANGED <<memLoaded, memSaved, memOps>> /\ NotesUnchanged
MemRestart ==
  /\ memLife < MaxMemLives /\ memLife' = memLife + 1
  /\ mem' = EmptyMemory /\ memLoaded' = FALSE /\ memFile' \in {memFile, EmptyMemory}
  /\ memSaved' = TRUE /\ memRun' = NoAdvice /\ notes' = <<>> /\ notesLoaded' = FALSE
  /\ UNCHANGED <<notesFile, notesKept, notesCold, memOps, noteOps, memIds>>

MemNext ==
  \/ \E n \in NoteKinds : AddNote(n) \/ RemoveNote(n)
  \/ ClearNotes \/ SearchNotes
  \/ \E name \in MemNames : AdvisedRun(name)
  \/ \E o \in MemOutcomes : FinishedRun(o)
  \/ RemoveProcedure \/ ClearLayers \/ ReadLayers \/ PageAges \/ MemRestart

MemSpec == MemInit /\ [][MemNext]_memVars
-----------------------------------------------------------------------------
\* "A procedure that failed more than it succeeded gets disabled": whatever the
\* order of runs, evictions and restarts, an active one has earned it.
ActiveEarnsIt ==
  \A i \in DOMAIN mem.procs : LET r == mem.procs[i] IN
    r.status = "active" => r.bad < 2 \/ r.bad <= r.ok

\* "A rolled-back procedure is NOT silently reactivated": the same record comes
\* back only from a file its rollback never reached.
RolledBackStays ==
  [][memSaved => \A i \in DOMAIN mem.procs, j \in DOMAIN mem'.procs :
       mem.procs[i].id = mem'.procs[j].id /\ mem.procs[i].status = "rolled_back"
       => mem'.procs[j].status = "rolled_back"]_memVars

\* "Every mutation funnels through this so disk always mirrors memory".
DiskMirrorsMemory == memLoaded /\ memSaved => memFile = mem

\* A note is there until it is removed or pushed out, through restarts, as long
\* as no process added one before it had read the file.
NotesStay == ~notesCold /\ notesLoaded => notesKept = Range(notes)

\* What was learned is kept as long as it is earned: procedures are rolled back
\* for good, and layers and notes survive on disk (layers.ts, memory.ts).
MemoryHolds == [](ActiveEarnsIt /\ DiskMirrorsMemory /\ NotesStay) /\ RolledBackStays
=============================================================================
