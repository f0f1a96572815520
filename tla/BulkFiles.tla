------------------------------ MODULE BulkFiles ------------------------------
(* Batches of file operations (tools/bulk-files.ts): a batch takes the files of  *)
(* one directory, treats them one by one, verifies each in the resulting tree    *)
(* and is a success only if every one was verified.  Any item may fail.              *)
(*                                                                               *)
(* A path is <<directory, name>>; a file is its content, or Unreadable.          *)
EXTENDS Naturals, FiniteSets

CONSTANTS BfNames,     \* names of files
          BfContents,  \* contents of files, all of one size
          MaxBatches   \* bound: batches

\* Names are numbered, so that a rename can lead to the next one.
ASSUME BfNamesAssumption == BfNames \subseteq Nat

VARIABLES
  bfFiles,   \* the tree: content of each path
  bfBatch,   \* the batch: op, todo, done (paths with their outcome), size, verdict
  bfBefore,  \* the tree when the batch began
  bfCount    \* batches so far

bfVars == <<bfFiles, bfBatch, bfBefore, bfCount>>

Dirs == {"top", "sub"}
Paths == Dirs \X BfNames
Unreadable == 0
Ops == {"organize", "batch_move", "batch_copy", "batch_delete", "bulk_rename", "dedupe"}
NoBatch == [op |-> "none", todo |-> {}, done |-> {}, size |-> 0, verdict |-> "none"]
Trees == UNION {[S -> BfContents \cup {Unreadable}] : S \in SUBSET Paths}
NoFiles == [p \in {} |-> Unreadable]
BulkInit ==
  /\ bfFiles = NoFiles /\ bfBatch = NoBatch /\ bfBefore = bfFiles /\ bfCount = 0

Exists(p) == p \in DOMAIN bfFiles
WithoutFile(p) == [q \in DOMAIN bfFiles \ {p} |-> bfFiles[q]]
WithFile(p, x, files) == [q \in DOMAIN files \cup {p} |-> IF q = p THEN x ELSE files[q]]

(* The files the batch is about; dotfiles and protected paths are not listed.     *)
ListedFiles == {p \in DOMAIN bfFiles : p[1] = "top"}
Twins(p) == {q \in ListedFiles : bfFiles[q] = bfFiles[p]}
(* groupByContent: two or more of one hash; the first in name order is kept.      *)
Extras == {p \in ListedFiles : bfFiles[p] # Unreadable /\ \E q \in Twins(p) : q[2] < p[2]}
Batched(op) == IF op = "dedupe" THEN Extras ELSE ListedFiles
(* The user's files are what they are.                                            *)
UserWrites(tree) ==
  /\ bfFiles = NoFiles /\ bfCount = 0 /\ bfFiles' = tree /\ bfBefore' = tree /\ UNCHANGED <<bfBatch, bfCount>>
BeginBatch(op) ==
  /\ bfBatch.op = "none" /\ bfCount < MaxBatches /\ bfCount' = bfCount + 1
  /\ bfBatch' = [NoBatch EXCEPT !.op = op, !.todo = Batched(op), !.size = Cardinality(Batched(op))]
  /\ bfBefore' = bfFiles /\ UNCHANGED bfFiles

(* bulk_rename by prefix, suffix or replacement: the next name.                   *)
Target(p) == IF bfBatch.op = "bulk_rename" THEN <<p[1], p[2] + 1>> ELSE <<"sub", p[2]>>
DoneWith(p, ok) == bfBatch' = [bfBatch EXCEPT !.todo = @ \ {p}, !.done = @ \cup {<<p, ok>>}]
(* An item that throws is a failed item; so is one whose name is taken, except    *)
(* that organize renames over it.                                                 *)
Fails(p) == p \in bfBatch.todo /\ DoneWith(p, FALSE) /\ UNCHANGED <<bfFiles, bfBefore, bfCount>>
Taken(p) == bfBatch.op # "organize" /\ Exists(Target(p))
MovesTo(p) ==
  /\ bfBatch.op \in {"organize", "batch_move", "bulk_rename"} /\ ~Taken(p) /\ Exists(p)
  /\ bfFiles' = WithFile(Target(p), bfFiles[p], WithoutFile(p))
  /\ DoneWith(p, TRUE)
Copies(p) ==
  /\ bfBatch.op = "batch_copy" /\ ~Taken(p) /\ Exists(p) /\ bfFiles[p] # Unreadable
  /\ bfFiles' = WithFile(Target(p), bfFiles[p], bfFiles) /\ DoneWith(p, TRUE)
Deletes(p) ==
  /\ bfBatch.op \in {"batch_delete", "dedupe"} /\ Exists(p) /\ bfFiles' = WithoutFile(p) /\ DoneWith(p, TRUE)
Treats(p) == p \in bfBatch.todo /\ (MovesTo(p) \/ Copies(p) \/ Deletes(p)) /\ UNCHANGED <<bfBefore, bfCount>>

\* Mutant: one verified item makes the batch a success.
VerifiedSome == \E r \in bfBatch.done : r[2]
BatchVerified == bfBatch.size > 0 /\ \A r \in bfBatch.done : r[2]
(* aggregate *)
Aggregate ==
  /\ bfBatch.op # "none" /\ bfBatch.todo = {} /\ bfBatch.verdict = "none"
  /\ bfBatch' = [bfBatch EXCEPT !.verdict = IF BatchVerified THEN "success" ELSE "failure"]
  /\ UNCHANGED <<bfFiles, bfBefore, bfCount>>
Return == bfBatch.verdict # "none" /\ bfBatch' = NoBatch /\ UNCHANGED <<bfFiles, bfBefore, bfCount>>

BulkNext ==
  \/ \E tree \in Trees : UserWrites(tree)
  \/ \E op \in Ops : BeginBatch(op)
  \/ \E p \in Paths : Fails(p) \/ Treats(p)
  \/ Aggregate \/ Return

BulkSpec == BulkInit /\ [][BulkNext]_bfVars
-----------------------------------------------------------------------------
Contents(files) == {files[p] : p \in DOMAIN files}

\* "Never overwritten", "keeping one file per group": no batch but a deletion, and
\* organize, takes the last file of a content away, whatever items fail.
NothingIsLost ==
  bfBatch.op \notin {"none", "batch_delete", "organize"} => Contents(bfBefore) \subseteq Contents(bfFiles)

\* "SUCCESS only when EVERY item verified": after a success every file of the
\* batch is where it was to go, with its content, and left where it had to.
SuccessIsComplete ==
  bfBatch.verdict = "success" =>
    \A r \in bfBatch.done : LET p == r[1] IN
      /\ bfBatch.op = "batch_copy" \/ bfBatch.op = "bulk_rename" \/ ~Exists(p)
      /\ bfBatch.op \notin {"batch_delete", "dedupe"} => Exists(Target(p)) /\ bfFiles[Target(p)] = bfBefore[p]

\* No batch loses a file, and one that reports success did all it says, whatever
\* item failed and whatever appeared meanwhile (bulk-files.ts).
BatchIsTrue == NothingIsLost /\ SuccessIsComplete

=============================================================================
