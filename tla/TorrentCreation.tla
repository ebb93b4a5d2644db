---------------------------- MODULE TorrentCreation ----------------------------
(***************************************************************************)
(* One call of TorrentCreator.create (torrent_creator.py) in its thread,     *)
(* beside a user who goes on working in the source, cancels the call, or     *)
(* ends the program.  What is written for given lengths is in TorrentLayout; *)
(* here a file is a version: 0 is no file, and every change of a file gives  *)
(* it a version, a length or modification time, it has never had.           *)
(***************************************************************************)
EXTENDS Naturals, FiniteSets

CONSTANTS
  Names,                \* paths in the source, 1 .. n in the order of files.sort
  MaxEdits              \* bound on what the user does to the source

ASSUME CreationAssumption == IsFiniteSet(Names) /\ Names = 1 .. Cardinality(Names) /\ MaxEdits \in Nat

VARIABLES
  folder,               \* the source is a folder
  inSource,             \* version of each file
  edits,                \* changes so far, bounded by MaxEdits
  creation,             \* what create() does next, and the file it is at
  scanned, hashed,      \* versions found by the scan; read, per half of a file
  creationCancelled,    \* cancel_event
  temporary,            \* the temporary file
  output                \* what is at the output path

creationVars == <<folder, inSource, edits, creation, scanned, hashed, creationCancelled,
                  temporary, output>>
sourceVars == <<folder, inSource, edits>>

Doing(what, at) == [what |-> what, at |-> at]
Unread == <<0, 0>>
NoFiles == [n \in Names |-> 0]

CreationInit ==
  /\ folder \in BOOLEAN
  /\ inSource \in [Names -> {0, 1}]
  /\ ~folder => Cardinality({n \in Names : inSource[n] = 1}) = 1
  /\ edits = 0 /\ creation = Doing("scan", 0) /\ scanned = NoFiles
  /\ hashed = [n \in Names |-> Unread] /\ creationCancelled = FALSE
  /\ temporary = "none" /\ output \in {"none", "other"}

Ended == creation.what \in {"raised", "done", "dead"}

--------------------------------------------------------------------------------
(* The user adds, changes or removes a file.  In the place of a single file  *)
(* only that file matters.                                                  *)
EditSource(n) ==
  /\ ~Ended /\ edits < MaxEdits /\ edits' = edits + 1
  /\ folder \/ inSource[n] > 0
  /\ \/ inSource' = [inSource EXCEPT ![n] = edits + 2]
     \/ inSource[n] > 0 /\ inSource' = [inSource EXCEPT ![n] = 0]
  /\ UNCHANGED <<folder, creation, scanned, hashed, creationCancelled, temporary, output>>

CancelCreation ==
  /\ ~Ended /\ ~creationCancelled /\ creationCancelled' = TRUE
  /\ UNCHANGED <<sourceVars, creation, scanned, hashed, temporary, output>>

ProgramEnds ==
  /\ ~Ended /\ creation' = Doing("dead", 0)
  /\ UNCHANGED <<sourceVars, scanned, hashed, creationCancelled, temporary, output>>

--------------------------------------------------------------------------------
Listed == {n \in Names : scanned[n] > 0}
After(n) == {m \in Listed : m > n}
FirstOf(S) == CHOOSE n \in S : \A m \in S : n <= m

(* The next file, or the end of the loop over the files.                    *)
NextFile(n, listed) ==
  LET left == {m \in listed : m > n} IN
  IF left = {} THEN Doing("build", 0) ELSE Doing("open", FirstOf(left))

Raise == creation' = Doing("raised", 0)

(* _scan_source stats one file after the other; a folder without files, or a *)
(* single file that is gone, is an error.                                   *)
ScanFile ==
  /\ creation.what = "scan"
  /\ \E n \in Names :
       /\ n > creation.at /\ \A m \in Names : m > creation.at => n <= m
       /\ scanned' = [scanned EXCEPT ![n] = inSource[n]]
       /\ creation' = Doing(IF n = Cardinality(Names) THEN "scanned" ELSE "scan", n)
  /\ UNCHANGED <<sourceVars, hashed, creationCancelled, temporary, output>>

Scanned ==
  /\ creation.what = "scanned"
  /\ IF Listed = {} \/ creationCancelled THEN Raise ELSE creation' = NextFile(0, Listed)
  /\ UNCHANGED <<sourceVars, scanned, hashed, creationCancelled, temporary, output>>

(* A file is read in pieces; here there are two.  One that is removed while  *)
(* it is open is read on; one that became shorter may end early.            *)
ReadHalf(half) ==
  /\ creation.what = IF half = 1 THEN "open" ELSE "read"
  /\ LET n == creation.at
         found == IF inSource[n] > 0 THEN inSource[n] ELSE hashed[n][1]
     IN IF creationCancelled \/ found = 0 THEN Raise /\ UNCHANGED hashed
        ELSE \/ /\ hashed' = [hashed EXCEPT ![n][half] = found]
                /\ creation' = Doing(IF half = 1 THEN "read" ELSE "stat", n)
             \/ found /= scanned[n] /\ Raise /\ UNCHANGED hashed
  /\ UNCHANGED <<sourceVars, scanned, creationCancelled, temporary, output>>

(* Mutant: a file is not looked at after it has been read.                  *)
UnchangedAnyway(n) == TRUE

Unchanged(n) == inSource[n] = scanned[n]

StatFile ==
  /\ creation.what = "stat"
  /\ IF Unchanged(creation.at) THEN creation' = NextFile(creation.at, Listed) ELSE Raise
  /\ UNCHANGED <<sourceVars, scanned, hashed, creationCancelled, temporary, output>>

(* cancel_event is looked at for the last time before the second scan.       *)
Build ==
  /\ creation.what = "build"
  /\ IF creationCancelled THEN Raise ELSE creation' = Doing(IF folder THEN "rescan" ELSE "write", 0)
  /\ UNCHANGED <<sourceVars, scanned, hashed, creationCancelled, temporary, output>>

(* The files of a folder, one by one; any change is an error.               *)
RescanFile ==
  /\ creation.what = "rescan"
  /\ \E n \in Names :
       /\ n > creation.at /\ \A m \in Names : m > creation.at => n <= m
       /\ IF ~Unchanged(n) THEN Raise
          ELSE creation' = IF n = Cardinality(Names) THEN Doing("write", 0) ELSE Doing("rescan", n)
  /\ UNCHANGED <<sourceVars, scanned, hashed, creationCancelled, temporary, output>>

(* The temporary file is written, which may fail; it replaces the output in  *)
(* one step; the finally removes what is left of it.                        *)
WriteTemporary ==
  /\ creation.what = "write"
  /\ \/ temporary' = "torrent" /\ creation' = Doing("replace", 0)
     \/ temporary' = "partial" /\ creation' = Doing("cleanup", 0)
  /\ UNCHANGED <<sourceVars, scanned, hashed, creationCancelled, output>>

Replace ==
  /\ creation.what = "replace"
  /\ \/ output' = "torrent" /\ temporary' = "none" /\ creation' = Doing("done", 0)
     \/ creation' = Doing("cleanup", 0) /\ UNCHANGED <<output, temporary>>
  /\ UNCHANGED <<sourceVars, scanned, hashed, creationCancelled>>

CleanUp ==
  /\ creation.what = "cleanup" /\ temporary' = "none" /\ Raise
  /\ UNCHANGED <<sourceVars, scanned, hashed, creationCancelled, output>>

CreationNext ==
  \/ \E n \in Names : EditSource(n)
  \/ CancelCreation \/ ProgramEnds
  \/ ScanFile \/ Scanned \/ StatFile \/ Build \/ RescanFile \/ WriteTemporary \/ Replace \/ CleanUp
  \/ \E half \in {1, 2} : ReadHalf(half)

CreationSpec == CreationInit /\ [][CreationNext]_creationVars

--------------------------------------------------------------------------------
CreationTypeOK ==
  /\ inSource \in [Names -> Nat] /\ scanned \in [Names -> Nat]
  /\ hashed \in [Names -> Nat \X Nat]
  /\ temporary \in {"none", "partial", "torrent"} /\ output \in {"none", "other", "torrent"}

(* "The torrent should describe one coherent source snapshot": every file of *)
(* a torrent was read from beginning to end in the version whose length is   *)
(* in it, and that version was still there after it had been read.           *)
PublishedIsCoherent ==
  output = "torrent" =>
    /\ Listed /= {}
    /\ \A n \in Listed : hashed[n] = <<scanned[n], scanned[n]>>
    /\ \A n \in Names \ Listed : hashed[n] = Unread

(* A torrent in the place of the output is whole; without it the output is   *)
(* as it was, and unless the program died nothing else is left.             *)
NothingLeftBehind ==
  /\ creation.what \in {"raised", "done"} => temporary = "none"
  /\ output = "torrent" => creation.what \in {"done", "dead"}

CreationSound == PublishedIsCoherent /\ NothingLeftBehind
================================================================================
