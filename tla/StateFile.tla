----------------------------- MODULE StateFile ------------------------------
(***************************************************************************)
(* Package state as it is written: Load, Set, MarkReadOnly and Save over a  *)
(* file system of directory entries and inodes.                             *)
(*                                                                          *)
(* Save creates (or truncates) state.env.tmp, writes one line per key,      *)
(* closes, and renames over state.env.  A step is one system call.  The     *)
(* command may end between any two of them; any call may fail.  The header  *)
(* line and line lengths are left out: a line is one slot of the file, a    *)
(* writer keeps its own offset, and a slot never written is a Hole.  A line *)
(* cut short by a full disk is Torn (cut before its "=").                   *)
(***************************************************************************)
EXTENDS Integers, Sequences

CONSTANTS Procs, Keys, Values, None,
          Inodes,        \* as many as entries and open files can name
          MaxSteps,      \* bound: edits of one command
          MaxFaults      \* bound: write errors
ASSUME FileAssumption ==
  /\ None \notin Keys /\ None \notin Values /\ None \notin Inodes
  /\ MaxSteps \in Nat /\ MaxFaults \in Nat

VARIABLES
  entry,     \* directory: the inode "env" and "tmp" name, or None
  data,      \* contents of each inode
  pc,        \* of each command
  mem,       \* data of its State
  readOnly,  \* its State was marked read-only (--dry-run)
  fd,        \* inode its Save writes to
  off,       \* lines written so far
  todo,      \* keys the range loop has still to visit
  edits, faults

vars == <<entry, data, pc, mem, readOnly, fd, off, todo, edits, faults>>
files == <<entry, data>>
state == <<mem, readOnly, edits>>
writer == <<fd, off, todo>>

Map == [Keys -> Values \cup {None}]
EmptyMap == [key \in Keys |-> None]
Hole == [key |-> None, val |-> "hole"]
Torn == [key |-> None, val |-> "torn"]
Line == [key : Keys, val : Values] \cup {Hole, Torn}

TypeOK ==
  /\ entry \in [{"env", "tmp"} -> Inodes \cup {None}]
  /\ data \in [Inodes -> Seq(Line)]
  /\ pc \in [Procs -> {"out", "ready", "create", "write", "rename", "saved", "failed"}]
  /\ mem \in [Procs -> Map] /\ readOnly \in [Procs -> BOOLEAN]
  /\ fd \in [Procs -> Inodes \cup {None}] /\ off \in [Procs -> Nat]
  /\ todo \in [Procs -> SUBSET Keys] /\ edits \in [Procs -> 0 .. MaxSteps]
  /\ faults \in 0 .. MaxFaults

Init ==
  /\ entry = [name \in {"env", "tmp"} |-> None]
  /\ data = [i \in Inodes |-> <<>>]
  /\ pc = [p \in Procs |-> "out"]
  /\ mem = [p \in Procs |-> EmptyMap] /\ readOnly = [p \in Procs |-> FALSE]
  /\ fd = [p \in Procs |-> None] /\ off = [p \in Procs |-> 0]
  /\ todo = [p \in Procs |-> {}] /\ edits = [p \in Procs |-> 0] /\ faults = 0

-----------------------------------------------------------------------------
(* Reading                                                                  *)

Contents(name) == IF entry[name] = None THEN <<>> ELSE data[entry[name]]

\* A slot that does not end in a newline runs into the next one, which then
\* carries a key nobody asks for.
Clean(c, i) == c[i].key # None /\ (i > 1 => c[i - 1].key # None)

\* The last line of a key wins.
Says(c, key, val) ==
  \E i \in DOMAIN c : /\ Clean(c, i) /\ c[i] = [key |-> key, val |-> val]
                      /\ \A j \in DOMAIN c : j > i /\ Clean(c, j) => c[j].key # key
Meaning(c) ==
  [key \in Keys |-> IF \E val \in Values : Says(c, key, val)
                    THEN CHOOSE val \in Values : Says(c, key, val) ELSE None]
Stored == Meaning(Contents("env"))

Malformed(c) == Len(c) > 0 /\ c[Len(c)] = Torn

\* A command starts: Load, and MarkReadOnly when it is a dry run.
LoadState(p) ==
  /\ pc[p] = "out" /\ ~Malformed(Contents("env"))
  /\ mem' = [mem EXCEPT ![p] = Stored]
  /\ \E dryRun \in BOOLEAN : readOnly' = [readOnly EXCEPT ![p] = dryRun]
  /\ pc' = [pc EXCEPT ![p] = "ready"]
  /\ edits' = [edits EXCEPT ![p] = 0]
  /\ UNCHANGED <<files, writer, faults>>

\* Load returns the error of a malformed line and the command ends.
LoadFails(p) ==
  /\ pc[p] = "out" /\ Malformed(Contents("env"))
  /\ pc' = [pc EXCEPT ![p] = "failed"]
  /\ UNCHANGED <<files, state, writer, faults>>

Set(p) ==
  /\ pc[p] \in {"ready", "saved"} /\ edits[p] < MaxSteps
  /\ \E key \in Keys, val \in Values \cup {None} : mem' = [mem EXCEPT ![p][key] = val]
  /\ edits' = [edits EXCEPT ![p] = @ + 1]
  /\ pc' = [pc EXCEPT ![p] = "ready"]
  /\ UNCHANGED <<files, readOnly, writer, faults>>

-----------------------------------------------------------------------------
(* Save                                                                     *)

SaveBegin(p) ==
  /\ pc[p] = "ready"
  /\ pc' = [pc EXCEPT ![p] = IF readOnly[p] THEN "saved" ELSE "create"]
  /\ UNCHANGED <<files, state, writer, faults>>

Free == {i \in Inodes : /\ \A name \in {"env", "tmp"} : entry[name] # i
                        /\ \A q \in Procs : fd[q] # i}

TempNameBug == "env"      \* mutation: written in place
TempName == "tmp"

Pending(p) == {key \in Keys : mem[p][key] # None}

\* os.Create: an existing temp file, somebody else's included, is truncated.
Create(p) ==
  /\ pc[p] = "create"
  /\ \E i \in IF entry[TempName] = None THEN Free ELSE {entry[TempName]} :
       /\ entry' = [entry EXCEPT ![TempName] = i]
       /\ data' = [data EXCEPT ![i] = <<>>]
       /\ fd' = [fd EXCEPT ![p] = i]
  /\ off' = [off EXCEPT ![p] = 0]
  /\ todo' = [todo EXCEPT ![p] = Pending(p)]
  /\ pc' = [pc EXCEPT ![p] = "write"]
  /\ UNCHANGED <<state, faults>>

Put(c, o, line) ==
  [i \in 1 .. (IF Len(c) > o THEN Len(c) ELSE o + 1) |->
     IF i = o + 1 THEN line ELSE IF i <= Len(c) THEN c[i] ELSE Hole]

WriteLine(p) ==
  /\ pc[p] = "write"
  /\ \E key \in todo[p] :
       /\ data' = [data EXCEPT ![fd[p]] = Put(@, off[p], [key |-> key, val |-> mem[p][key]])]
       /\ todo' = [todo EXCEPT ![p] = @ \ {key}]
  /\ off' = [off EXCEPT ![p] = @ + 1]
  /\ UNCHANGED <<entry, pc, state, fd, faults>>

\* fmt.Fprintf fails (a full disk): its error is dropped, the loop goes on.
WriteFails(p) ==
  /\ pc[p] = "write" /\ faults < MaxFaults
  /\ \E key \in todo[p] : todo' = [todo EXCEPT ![p] = @ \ {key}]
  /\ \/ UNCHANGED <<data, off>>
     \/ /\ data' = [data EXCEPT ![fd[p]] = Put(@, off[p], Torn)]
        /\ off' = [off EXCEPT ![p] = @ + 1]
  /\ faults' = faults + 1
  /\ UNCHANGED <<entry, pc, state, fd>>

Finish(p, result) ==
  /\ pc' = [pc EXCEPT ![p] = result]
  /\ fd' = [fd EXCEPT ![p] = None] /\ off' = [off EXCEPT ![p] = 0]
  /\ todo' = [todo EXCEPT ![p] = {}]
  /\ UNCHANGED <<state, faults>>

Written(p) == pc[p] = "write" /\ todo[p] = {}

Close(p) ==
  /\ Written(p)
  /\ pc' = [pc EXCEPT ![p] = "rename"]
  /\ fd' = [fd EXCEPT ![p] = None]
  /\ UNCHANGED <<files, state, off, todo, faults>>

Rename(p) ==
  /\ pc[p] = "rename" /\ entry[TempName] # None
  /\ entry' = [entry EXCEPT !["tmp"] = None, !["env"] = entry[TempName]]
  /\ UNCHANGED data
  /\ Finish(p, "saved")

RemoveTempBug == [entry EXCEPT !["env"] = None]    \* mutation: the wrong file
RemoveTemp == [entry EXCEPT ![TempName] = None]

\* Create, Close or Rename returns an error; the last two remove the temp file.
SaveFails(p) ==
  /\ \/ pc[p] = "create" /\ UNCHANGED entry
     \/ (pc[p] = "rename" \/ Written(p)) /\ entry' = RemoveTemp
  /\ UNCHANGED data
  /\ Finish(p, "failed")

\* The command returns, is killed, or ends with the error of Save.
Exit(p) ==
  /\ pc[p] # "out"
  /\ pc' = [pc EXCEPT ![p] = "out"]
  /\ mem' = [mem EXCEPT ![p] = EmptyMap]
  /\ readOnly' = [readOnly EXCEPT ![p] = FALSE] /\ edits' = [edits EXCEPT ![p] = 0]
  /\ fd' = [fd EXCEPT ![p] = None] /\ off' = [off EXCEPT ![p] = 0]
  /\ todo' = [todo EXCEPT ![p] = {}]
  /\ UNCHANGED <<files, faults>>

Step(p) ==
  \/ LoadState(p) \/ LoadFails(p) \/ Set(p) \/ SaveBegin(p) \/ Create(p) \/ WriteLine(p) \/ WriteFails(p)
  \/ Close(p) \/ Rename(p) \/ SaveFails(p) \/ Exit(p)
Next == \E p \in Procs : Step(p)
Spec == Init /\ [][Next]_vars

-----------------------------------------------------------------------------
(* What it is checked for.                                                  *)

\* To its readers state.env changes in one step, to the whole map of a command
\* that saves, whatever else of that Save fails and wherever the command dies,
\* as long as the disk takes every write: "renamed so a partial write never
\* corrupts the existing file".
Store == INSTANCE StateStore WITH stored <- Stored, full <- faults > 0
AtomicSave == Store!Spec

\* With one command at a time, full disk or not, what readers see changes only
\* in the step that ends a Save in success: after an error return, or a command
\* that died, the old map is still there.
ErrorKeepsFile ==
  [][Stored' # Stored => \E p \in Procs : pc[p] # "saved" /\ pc'[p] = "saved"]_vars
=============================================================================
