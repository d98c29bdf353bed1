--------------------------- MODULE StateFileProof ---------------------------
(***************************************************************************)
(* One command at a time: for any keys, values, number of edits and write   *)
(* errors, wherever the command is killed, what Load returns changes in the *)
(* rename only, and as long as the disk takes every write, to the whole map *)
(* of the command that saves.                                               *)
(***************************************************************************)
EXTENDS StateFile, SequenceTheorems, TLAPS

Alone == \A p, q \in Procs : p = q

\* A file that says exactly m about the keys outside rest, each on one line.
Holds(c, m, rest) ==
  /\ \A i \in DOMAIN c : /\ c[i] \in [key : Keys \ rest, val : Values]
                         /\ c[i].val = m[c[i].key]
  /\ \A i, j \in DOMAIN c : c[i].key = c[j].key => i = j
  /\ \A key \in Keys \ rest : m[key] # None => \E i \in DOMAIN c : c[i].key = key

WriterInv(p) ==
  /\ pc[p] # "write" => fd[p] = None
  /\ pc[p] = "write" => fd[p] = entry["tmp"]
  /\ pc[p] \in {"write", "rename"} =>
       /\ entry["tmp"] # None
       /\ \A key \in todo[p] : mem[p][key] # None
       /\ faults = 0 => Holds(data[entry["tmp"]], mem[p], todo[p])
  /\ pc[p] = "write" /\ faults = 0 => off[p] = Len(data[fd[p]])
  /\ pc[p] = "rename" => todo[p] = {}

EntryInv == entry["tmp"] # None => entry["tmp"] # entry["env"]

\* The inductive invariant: the temp file is never the file readers see, and
\* while a Save writes it, it holds what is in memory for the keys already done,
\* unless the disk refused a write.
IInv == TypeOK /\ EntryInv /\ \A p \in Procs : WriterInv(p)

-----------------------------------------------------------------------------

\* A file that holds all of m is read back as m.
LEMMA ReadBack ==
  ASSUME NEW c \in Seq(Line), NEW m \in Map, Holds(c, m, {})
  PROVE  Meaning(c) = m
<1>1. \A i \in DOMAIN c : /\ c[i] \in [key : Keys, val : Values]
                         /\ c[i].key # None /\ c[i].val = m[c[i].key]
  BY FileAssumption DEF Holds
<1>2. \A i \in DOMAIN c : Clean(c, i)
  BY <1>1 DEF Clean
<1>3. ASSUME NEW key \in Keys, NEW val \in Values
      PROVE  Says(c, key, val) <=> m[key] = val
  <2>1. ASSUME Says(c, key, val) PROVE m[key] = val
    <3>1. PICK i \in DOMAIN c : c[i] = [key |-> key, val |-> val]
      BY <2>1 DEF Says
    <3> QED BY <1>1, <3>1
  <2>2. ASSUME m[key] = val PROVE Says(c, key, val)
    <3>1. m[key] # None
      BY <2>2, FileAssumption
    <3>2. PICK i \in DOMAIN c : c[i].key = key
      BY <3>1 DEF Holds
    <3>3. c[i] = [key |-> key, val |-> val]
      BY <1>1, <2>2, <3>2
    <3>4. \A j \in DOMAIN c : c[j].key = key => j = i
      BY <3>2 DEF Holds
    <3>5. \A j \in DOMAIN c : j > i /\ Clean(c, j) => c[j].key # key
      BY <3>4
    <3> QED BY <1>2, <3>3, <3>5 DEF Says
  <2> QED BY <2>1, <2>2
<1>4. ASSUME NEW key \in Keys PROVE Meaning(c)[key] = m[key]
  <2>1. CASE m[key] = None
    <3>1. ~ \E val \in Values : Says(c, key, val)
      BY <1>3, <2>1, FileAssumption
    <3> QED BY <2>1, <3>1 DEF Meaning
  <2>2. CASE m[key] \in Values
    <3>1. /\ Says(c, key, m[key])
          /\ \A val \in Values : Says(c, key, val) => val = m[key]
      BY <1>3, <2>2
    <3>2. (CHOOSE val \in Values : Says(c, key, val)) = m[key]
      BY <2>2, <3>1
    <3> QED BY <2>2, <3>1, <3>2 DEF Meaning
  <2> QED BY <2>1, <2>2 DEF Map
<1>5. Meaning(c) = [key \in Keys |-> Meaning(c)[key]] /\ m = [key \in Keys |-> m[key]]
  BY DEF Meaning, Map
<1> QED BY <1>4, <1>5

\* A write leaves a sequence of lines; at the end of the file it appends.
LEMMA PutLine ==
  ASSUME NEW c \in Seq(Line), NEW o \in Nat, NEW line \in Line
  PROVE  /\ Put(c, o, line) \in Seq(Line)
         /\ o = Len(c) => Put(c, o, line) = Append(c, line)
<1> DEFINE n == IF Len(c) > o THEN Len(c) ELSE o + 1
           f == [i \in 1 .. n |-> IF i = o + 1 THEN line ELSE IF i <= Len(c) THEN c[i] ELSE Hole]
<1>1. Len(c) \in Nat /\ n \in Nat
  OBVIOUS
<1>2. \A i \in 1 .. n : f[i] \in Line
  <2>1. TAKE i \in 1 .. n
  <2>2. i <= Len(c) => c[i] \in Line
    BY <1>1
  <2>3. Hole \in Line
    BY DEF Line
  <2> QED BY <2>2, <2>3
<1>3. f \in [1 .. n -> Line]
  BY <1>2
<1>4. f \in Seq(Line)
  BY <1>1, <1>3
<1>5. ASSUME o = Len(c) PROVE f = Append(c, line)
  <2>1. n = o + 1 /\ Len(f) = n /\ Append(c, line) \in Seq(Line) /\ Len(Append(c, line)) = n
    BY <1>1, <1>3, <1>4, <1>5
  <2>2. \A i \in 1 .. n : f[i] = Append(c, line)[i]
    BY <1>1, <1>5, <2>1
  <2> QED BY <1>4, <2>1, <2>2, SeqEqual
<1> QED BY <1>4, <1>5 DEF Put

-----------------------------------------------------------------------------

\* A line written for a pending key moves that key from the rest to the file.
LEMMA HoldsMore ==
  ASSUME NEW c \in Seq(Line), NEW m \in Map, NEW rest \in SUBSET Keys, NEW key \in rest,
         m[key] # None, Holds(c, m, rest)
  PROVE  Holds(Append(c, [key |-> key, val |-> m[key]]), m, rest \ {key})
<1> DEFINE line == [key |-> key, val |-> m[key]]
           d == Append(c, line)
<1>1. /\ Len(c) \in Nat /\ DOMAIN c = 1 .. Len(c) /\ DOMAIN d = 1 .. (Len(c) + 1)
      /\ \A i \in DOMAIN c : d[i] = c[i]
      /\ d[Len(c) + 1] = line
  OBVIOUS
<1>2. m[key] \in Values /\ line.key = key /\ line.val = m[key]
  BY DEF Map
<1>3. \A i \in DOMAIN c : c[i].key # key /\ c[i].key \in Keys \ rest
  BY DEF Holds
<1> HIDE DEF d
<1>4. ASSUME NEW i \in DOMAIN d
      PROVE  /\ d[i] \in [key : Keys \ (rest \ {key}), val : Values]
             /\ d[i].val = m[d[i].key]
  <2>1. CASE i = Len(c) + 1
    BY <1>1, <1>2, <2>1
  <2>2. CASE i \in DOMAIN c
    <3>1. c[i] \in [key : Keys \ rest, val : Values] /\ c[i].val = m[c[i].key]
      BY <2>2 DEF Holds
    <3> QED BY <1>1, <2>2, <3>1
  <2> QED BY <1>1, <2>1, <2>2
<1>5. ASSUME NEW i \in DOMAIN d, NEW j \in DOMAIN d, d[i].key = d[j].key PROVE i = j
  <2>1. CASE i \in DOMAIN c /\ j \in DOMAIN c
    BY <1>1, <1>5, <2>1 DEF Holds
  <2>2. CASE i = Len(c) + 1 /\ j \in DOMAIN c
    BY <1>1, <1>2, <1>3, <1>5, <2>2
  <2>3. CASE j = Len(c) + 1 /\ i \in DOMAIN c
    BY <1>1, <1>2, <1>3, <1>5, <2>3
  <2> QED BY <1>1, <2>1, <2>2, <2>3
<1>6. ASSUME NEW x \in Keys \ (rest \ {key}), m[x] # None
      PROVE  \E i \in DOMAIN d : d[i].key = x
  <2>1. CASE x = key
    <3>1. Len(c) + 1 \in DOMAIN d
      BY <1>1
    <3> QED BY <1>1, <1>2, <2>1, <3>1
  <2>2. CASE x # key
    <3>1. PICK i \in DOMAIN c : c[i].key = x
      BY <1>6, <2>2 DEF Holds
    <3> QED BY <1>1, <3>1
  <2> QED BY <2>1, <2>2
<1> QED BY <1>4, <1>5, <1>6 DEF Holds, d

-----------------------------------------------------------------------------

\* What Load reads is a map, whatever the file holds.
LEMMA StoredMap == Stored \in Map
<1>1. \A key \in Keys : Stored[key] \in Values \cup {None}
  BY DEF Stored, Meaning
<1> QED BY <1>1 DEF Stored, Meaning, Map

LEMMA IInvInit == Init => IInv
BY FileAssumption DEF Init, IInv, TypeOK, EntryInv, WriterInv, Map, EmptyMap

\* What every step of a lone command keeps.
LEMMA IInvStep == Alone /\ IInv /\ [Next]_vars => IInv'
<1> SUFFICES ASSUME Alone, IInv, [Next]_vars PROVE IInv'
  OBVIOUS
<1> USE FileAssumption
<1>t. TypeOK /\ EntryInv /\ \A p \in Procs : WriterInv(p)
  BY DEF IInv
<1>a. ASSUME NEW p \in Procs, TypeOK', EntryInv', WriterInv(p)' PROVE IInv'
  BY <1>a DEF IInv, Alone
<1>1. ASSUME NEW p \in Procs, LoadState(p) PROVE IInv'
  <2>1. Stored \in Map
    BY StoredMap
  <2>2. TypeOK'
    BY <1>1, <1>t, <2>1 DEF TypeOK, LoadState, files, writer
  <2> QED BY <1>1, <1>t, <1>a, <2>2 DEF TypeOK, EntryInv, WriterInv, LoadState, files, writer
<1>2. ASSUME NEW p \in Procs, LoadFails(p) PROVE IInv'
  BY <1>2, <1>t, <1>a DEF TypeOK, EntryInv, WriterInv, LoadFails, files, writer, state
<1>3. ASSUME NEW p \in Procs, Set(p) PROVE IInv'
  <2>1. PICK key \in Keys, val \in Values \cup {None} : mem' = [mem EXCEPT ![p][key] = val]
    BY <1>3 DEF Set
  <2>2. mem' \in [Procs -> Map]
    BY <1>t, <2>1 DEF TypeOK, Map
  <2>3. /\ pc[p] \in {"ready", "saved"} /\ pc' = [pc EXCEPT ![p] = "ready"]
        /\ edits[p] < MaxSteps /\ edits' = [edits EXCEPT ![p] = @ + 1]
        /\ UNCHANGED <<entry, data, readOnly, fd, off, todo, faults>>
    BY <1>3 DEF Set, files, writer
  <2>4. TypeOK'
    <3>1. edits' \in [Procs -> 0 .. MaxSteps]
      BY <1>t, <2>3 DEF TypeOK
    <3> QED BY <1>t, <2>2, <2>3, <3>1 DEF TypeOK
  <2>5. EntryInv' /\ WriterInv(p)'
    BY <1>t, <2>3 DEF EntryInv, WriterInv, TypeOK
  <2> QED BY <1>a, <2>4, <2>5
<1>4. ASSUME NEW p \in Procs, SaveBegin(p) PROVE IInv'
  BY <1>4, <1>t, <1>a DEF TypeOK, EntryInv, WriterInv, SaveBegin, files, writer, state
<1>5. ASSUME NEW p \in Procs, Create(p) PROVE IInv'
  <2>1. PICK i \in Inodes : /\ entry' = [entry EXCEPT !["tmp"] = i]
                            /\ data' = [data EXCEPT ![i] = <<>>]
                            /\ fd' = [fd EXCEPT ![p] = i]
                            /\ i # entry["env"]
    BY <1>5, <1>t DEF Create, Free, TypeOK, EntryInv, TempName
  <2>2. /\ pc[p] = "create" /\ pc' = [pc EXCEPT ![p] = "write"]
        /\ off' = [off EXCEPT ![p] = 0] /\ todo' = [todo EXCEPT ![p] = Pending(p)]
        /\ UNCHANGED <<mem, readOnly, edits, faults>>
    BY <1>5 DEF Create, state
  <2>3. Pending(p) = {key \in Keys : mem[p][key] # None}
    BY DEF Pending
  <2>4. TypeOK'
    <3>1. /\ entry' \in [{"env", "tmp"} -> Inodes \cup {None}]
          /\ data' \in [Inodes -> Seq(Line)]
          /\ fd' \in [Procs -> Inodes \cup {None}]
      BY <1>t, <2>1 DEF TypeOK
    <3>2. todo' \in [Procs -> SUBSET Keys]
      BY <1>t, <2>2, <2>3 DEF TypeOK
    <3> QED BY <1>t, <2>2, <3>1, <3>2 DEF TypeOK
  <2>5. EntryInv'
    BY <1>t, <2>1 DEF EntryInv, TypeOK
  <2>6. entry'["tmp"] = i /\ data'[i] = <<>> /\ fd'[p] = i /\ off'[p] = 0 /\ pc'[p] = "write"
    BY <1>t, <2>1, <2>2 DEF TypeOK
  <2>7. todo'[p] = {key \in Keys : mem'[p][key] # None}
    BY <1>t, <2>2, <2>3 DEF TypeOK
  <2>8. Holds(<<>>, mem'[p], todo'[p])
    BY <2>7 DEF Holds
  <2>9. WriterInv(p)'
    BY <2>6, <2>7, <2>8 DEF WriterInv
  <2> QED BY <1>a, <2>4, <2>5, <2>9
<1>6. ASSUME NEW p \in Procs, WriteLine(p) PROVE IInv'
  <2>1. PICK key \in todo[p] :
          /\ data' = [data EXCEPT ![fd[p]] = Put(@, off[p], [key |-> key, val |-> mem[p][key]])]
          /\ todo' = [todo EXCEPT ![p] = @ \ {key}]
    BY <1>6 DEF WriteLine
  <2>2. /\ pc[p] = "write" /\ off' = [off EXCEPT ![p] = @ + 1]
        /\ UNCHANGED <<entry, pc, mem, readOnly, edits, fd, faults>>
    BY <1>6 DEF WriteLine, state
  <2>3. /\ fd[p] \in Inodes /\ fd[p] = entry["tmp"] /\ mem[p][key] # None
        /\ \A x \in todo[p] : mem[p][x] # None
        /\ faults = 0 => off[p] = Len(data[fd[p]]) /\ Holds(data[fd[p]], mem[p], todo[p])
    BY <1>t, <2>2 DEF WriterInv, TypeOK
  <2> DEFINE line == [key |-> key, val |-> mem[p][key]]
             c == data[fd[p]]
             d == Put(c, off[p], line)
  <2>4. /\ c \in Seq(Line) /\ line \in Line /\ mem[p] \in Map /\ key \in Keys
        /\ todo[p] \in SUBSET Keys /\ off[p] \in Nat
    BY <1>t, <2>3 DEF TypeOK, Line, Map
  <2>5. d \in Seq(Line) /\ (off[p] = Len(c) => d = Append(c, line))
    BY <2>4, PutLine
  <2>6. data' = [data EXCEPT ![fd[p]] = d]
    BY <2>1
  <2>7. ASSUME faults = 0
        PROVE  Holds(d, mem[p], todo[p] \ {key}) /\ Len(d) = off[p] + 1
    <3>1. off[p] = Len(c) /\ Holds(c, mem[p], todo[p]) /\ d = Append(c, line)
      BY <2>3, <2>5, <2>7
    <3>2. Holds(Append(c, line), mem[p], todo[p] \ {key})
      BY <2>3, <2>4, <3>1, HoldsMore
    <3>3. Len(Append(c, line)) = Len(c) + 1
      BY <2>4
    <3> QED BY <3>1, <3>2, <3>3
  <2> HIDE DEF line, c, d
  <2>8. TypeOK'
    <3>1. data' \in [Inodes -> Seq(Line)]
      BY <1>t, <2>3, <2>5, <2>6 DEF TypeOK
    <3>2. todo' \in [Procs -> SUBSET Keys]
      BY <1>t, <2>1 DEF TypeOK
    <3>3. off' \in [Procs -> Nat]
      BY <1>t, <2>2 DEF TypeOK
    <3> QED BY <1>t, <2>2, <3>1, <3>2, <3>3 DEF TypeOK
  <2>9. EntryInv'
    BY <1>t, <2>2 DEF EntryInv
  <2>10. /\ data'[fd[p]] = d /\ todo'[p] = todo[p] \ {key}
         /\ off'[p] = off[p] + 1
    BY <1>t, <2>1, <2>2, <2>3, <2>6 DEF TypeOK
  <2>11. WriterInv(p)'
    BY <1>t, <2>2, <2>3, <2>7, <2>10 DEF WriterInv
  <2> QED BY <1>a, <2>8, <2>9, <2>11
<1>7. ASSUME NEW p \in Procs, WriteFails(p) PROVE IInv'
  <2>1. PICK key \in todo[p] : todo' = [todo EXCEPT ![p] = @ \ {key}]
    BY <1>7 DEF WriteFails
  <2>2. /\ pc[p] = "write" /\ faults < MaxFaults /\ faults' = faults + 1
        /\ UNCHANGED <<entry, pc, mem, readOnly, edits, fd>>
        /\ \/ UNCHANGED <<data, off>>
           \/ /\ data' = [data EXCEPT ![fd[p]] = Put(@, off[p], Torn)]
              /\ off' = [off EXCEPT ![p] = @ + 1]
    BY <1>7 DEF WriteFails, state
  <2>3. fd[p] \in Inodes /\ entry["tmp"] # None /\ \A x \in todo[p] : mem[p][x] # None
    BY <1>t, <2>2 DEF WriterInv, TypeOK
  <2>4. Put(data[fd[p]], off[p], Torn) \in Seq(Line)
    <3>1. data[fd[p]] \in Seq(Line) /\ off[p] \in Nat /\ Torn \in Line
      BY <1>t, <2>3 DEF TypeOK, Line
    <3> QED BY <3>1, PutLine
  <2>5. data' \in [Inodes -> Seq(Line)] /\ off' \in [Procs -> Nat]
    <3>1. CASE UNCHANGED <<data, off>>
      BY <1>t, <3>1 DEF TypeOK
    <3>2. CASE data' = [data EXCEPT ![fd[p]] = Put(@, off[p], Torn)] /\ off' = [off EXCEPT ![p] = @ + 1]
      BY <1>t, <2>3, <2>4, <3>2 DEF TypeOK
    <3> QED BY <2>2, <3>1, <3>2
  <2>6. todo' \in [Procs -> SUBSET Keys] /\ todo'[p] = todo[p] \ {key}
    BY <1>t, <2>1 DEF TypeOK
  <2>7. faults' \in 0 .. MaxFaults /\ faults' # 0
    BY <1>t, <2>2 DEF TypeOK
  <2>8. TypeOK'
    BY <1>t, <2>2, <2>5, <2>6, <2>7 DEF TypeOK
  <2>9. EntryInv' /\ WriterInv(p)'
    BY <1>t, <2>2, <2>3, <2>6, <2>7 DEF EntryInv, WriterInv
  <2> QED BY <1>a, <2>8, <2>9
<1>8. ASSUME NEW p \in Procs, Close(p) PROVE IInv'
  BY <1>8, <1>t, <1>a DEF Close, Written, TypeOK, EntryInv, WriterInv, files, state
<1>9. ASSUME NEW p \in Procs, Rename(p) PROVE IInv'
  <2>1. /\ pc[p] = "rename" /\ entry["tmp"] # None
        /\ entry' = [entry EXCEPT !["tmp"] = None, !["env"] = entry["tmp"]]
        /\ pc' = [pc EXCEPT ![p] = "saved"] /\ fd' = [fd EXCEPT ![p] = None]
        /\ off' = [off EXCEPT ![p] = 0] /\ todo' = [todo EXCEPT ![p] = {}]
        /\ UNCHANGED <<data, mem, readOnly, edits, faults>>
    BY <1>9 DEF Rename, Finish, TempName, state
  <2>2. TypeOK'
    BY <1>t, <2>1 DEF TypeOK
  <2>3. EntryInv' /\ WriterInv(p)'
    BY <1>t, <2>1 DEF EntryInv, WriterInv, TypeOK
  <2> QED BY <1>a, <2>2, <2>3
<1>10. ASSUME NEW p \in Procs, SaveFails(p) PROVE IInv'
  <2>1. /\ entry' = entry \/ entry' = [entry EXCEPT !["tmp"] = None]
        /\ pc' = [pc EXCEPT ![p] = "failed"] /\ fd' = [fd EXCEPT ![p] = None]
        /\ off' = [off EXCEPT ![p] = 0] /\ todo' = [todo EXCEPT ![p] = {}]
        /\ UNCHANGED <<data, mem, readOnly, edits, faults>>
    BY <1>10 DEF SaveFails, RemoveTemp, Finish, TempName, state
  <2>2. TypeOK'
    BY <1>t, <2>1 DEF TypeOK
  <2>3. EntryInv' /\ WriterInv(p)'
    BY <1>t, <2>1 DEF EntryInv, WriterInv, TypeOK
  <2> QED BY <1>a, <2>2, <2>3
<1>11. ASSUME NEW p \in Procs, Exit(p) PROVE IInv'
  <2>1. EmptyMap \in Map
    BY DEF EmptyMap, Map
  <2>2. TypeOK'
    BY <1>11, <1>t, <2>1 DEF Exit, TypeOK, files
  <2>3. EntryInv' /\ WriterInv(p)'
    BY <1>11, <1>t DEF Exit, EntryInv, WriterInv, TypeOK, files
  <2> QED BY <1>a, <2>2, <2>3
<1>12. CASE UNCHANGED vars
  BY <1>t, <1>12 DEF vars, IInv, TypeOK, EntryInv, WriterInv
<1> QED
  BY <1>1, <1>2, <1>3, <1>4, <1>5, <1>6, <1>7, <1>8, <1>9, <1>10, <1>11, <1>12 DEF Next, Step

\* With one command at a time the temp file is never what readers see, and unless a write
\* failed it holds what Save has written of the map in memory.
THEOREM SaveInvariant == Alone => (Spec => []IInv)
<1>1. ASSUME Alone PROVE IInv /\ [Next]_vars => IInv'
  BY <1>1, IInvStep
<1>2. ASSUME Alone PROVE Spec => []IInv
  <2>1. IInv /\ [Next]_vars => IInv'
    BY <1>1, <1>2
  <2> QED BY <2>1, IInvInit, PTL DEF Spec
<1> QED BY <1>2

-----------------------------------------------------------------------------
(* Refinement of StateStore.                                                *)

LEMMA MapInit == Init => Store!Init
BY FileAssumption DEF Init, Store!Init, Stored, Meaning, Says, Contents, EmptyMap, Store!EmptyMap

\* A step that leaves the named file and its inode alone leaves what Load reads.
LEMMA SameStored ==
  ASSUME entry'["env"] = entry["env"],
         entry["env"] # None => data'[entry["env"]] = data[entry["env"]]
  PROVE  Stored' = Stored
BY DEF Stored, Contents

\* No step but the rename of a Save changes what Load reads, a failed write included.
LEMMA OnlyRename ==
  ASSUME IInv, NEW p \in Procs, Step(p), ~Rename(p)
  PROVE  Stored' = Stored
<1> USE FileAssumption
<1>t. TypeOK /\ EntryInv /\ WriterInv(p)
  BY DEF IInv
<1>1. ASSUME LoadState(p) \/ LoadFails(p) \/ Set(p) \/ SaveBegin(p) \/ Close(p) \/ Exit(p)
      PROVE  Stored' = Stored
  BY <1>1, SameStored DEF LoadState, LoadFails, Set, SaveBegin, Close, Exit, files
<1>2. ASSUME Create(p) PROVE Stored' = Stored
  <2>1. PICK i \in Inodes : /\ entry' = [entry EXCEPT !["tmp"] = i]
                            /\ data' = [data EXCEPT ![i] = <<>>]
                            /\ i # entry["env"]
    BY <1>2, <1>t DEF Create, Free, TypeOK, EntryInv, TempName
  <2> QED BY <1>t, <2>1, SameStored DEF TypeOK
<1>3. ASSUME WriteLine(p) \/ WriteFails(p) PROVE Stored' = Stored
  <2>1. fd[p] # entry["env"] /\ entry' = entry
    BY <1>3, <1>t DEF WriteLine, WriteFails, WriterInv, EntryInv
  <2>2. data' = data \/ \E c : data' = [data EXCEPT ![fd[p]] = c]
    BY <1>3 DEF WriteLine, WriteFails
  <2> QED BY <1>t, <2>1, <2>2, SameStored DEF TypeOK
<1>4. ASSUME SaveFails(p) PROVE Stored' = Stored
  <2>1. data' = data /\ (entry' = entry \/ entry' = [entry EXCEPT !["tmp"] = None])
    BY <1>4 DEF SaveFails, RemoveTemp, TempName
  <2> QED BY <1>t, <2>1, SameStored DEF TypeOK
<1> QED BY <1>1, <1>2, <1>3, <1>4 DEF Step

\* The rename puts the map of the command into place; after a failed write, any map.
LEMMA RenameCommits ==
  ASSUME IInv, NEW p \in Procs, Rename(p)
  PROVE  (faults = 0 => Stored' = mem[p]) /\ Stored' \in Map /\ UNCHANGED <<mem, faults>>
<1> USE FileAssumption
<1>t. TypeOK /\ WriterInv(p)
  BY DEF IInv
<1>1. /\ pc[p] = "rename" /\ entry["tmp"] \in Inodes
      /\ entry' = [entry EXCEPT !["tmp"] = None, !["env"] = entry["tmp"]]
      /\ data' = data /\ mem' = mem /\ faults' = faults
  BY <1>t DEF Rename, Finish, TempName, state, TypeOK, WriterInv
<1>2. Stored' = Meaning(data[entry["tmp"]])
  <2>1. entry'["env"] = entry["tmp"]
    BY <1>t, <1>1 DEF TypeOK
  <2> QED BY <1>1, <2>1 DEF Stored, Contents
<1>3. ASSUME faults = 0 PROVE Stored' = mem[p]
  <2>1. /\ Holds(data[entry["tmp"]], mem[p], {}) /\ mem[p] \in Map
        /\ data[entry["tmp"]] \in Seq(Line)
    BY <1>t, <1>1, <1>3 DEF WriterInv, TypeOK
  <2> QED BY <1>2, <2>1, ReadBack
<1>4. Stored' \in Map
  <2>1. \A key \in Keys : Stored'[key] \in Values \cup {None}
    BY DEF Stored, Meaning
  <2> QED BY <2>1 DEF Stored, Meaning, Map
<1> QED BY <1>1, <1>3, <1>4

\* Every step of the code is a step of the register or leaves it as it is.
LEMMA MapStep == IInv /\ [Next]_vars => [Store!Next]_Store!storeVars
<1> SUFFICES ASSUME IInv, [Next]_vars PROVE [Store!Next]_Store!storeVars
  OBVIOUS
<1> USE FileAssumption DEF Store!storeVars
<1>t. TypeOK
  BY DEF IInv
<1>f. faults \in Nat
  BY <1>t DEF TypeOK
<1>s. ASSUME NEW p \in Procs, Step(p), ~Rename(p) PROVE Stored' = Stored
  BY <1>s, OnlyRename
<1>1. ASSUME NEW p \in Procs, LoadState(p) PROVE Store!Load(p)
  <2>1. Stored' = Stored
    BY <1>1, <1>s DEF Step, LoadState, Rename
  <2> QED BY <1>1, <2>1 DEF LoadState, Store!Load
<1>2. ASSUME NEW p \in Procs, Set(p) PROVE Store!Edit(p)
  <2>1. Stored' = Stored
    BY <1>2, <1>s DEF Step, Set, Rename
  <2> QED BY <1>2, <2>1 DEF Set, Store!Edit
<1>3. ASSUME NEW p \in Procs, LoadFails(p) \/ SaveBegin(p) \/ Create(p) \/ WriteLine(p) \/ Close(p) \/ SaveFails(p)
      PROVE  UNCHANGED Store!storeVars
  <2>1. ~Rename(p) \/ Stored' = Stored
    <3>1. CASE SaveFails(p)
      <4>1. pc'[p] = "failed"
        BY <1>t, <3>1 DEF SaveFails, Finish, TypeOK
      <4> QED BY <1>t, <4>1 DEF Rename, Finish, TypeOK
    <3>2. CASE Close(p)
      BY <3>2 DEF Close, Written, Rename
    <3> QED BY <1>3, <3>1, <3>2 DEF LoadFails, SaveBegin, Create, WriteLine, Rename
  <2>2. Stored' = Stored
    BY <1>3, <1>s, <2>1 DEF Step
  <2>3. mem' = mem /\ faults' = faults
    BY <1>3 DEF LoadFails, SaveBegin, Create, WriteLine, Close, SaveFails, Finish, state
  <2> QED BY <2>2, <2>3
<1>4. ASSUME NEW p \in Procs, WriteFails(p) PROVE Store!Fill
  <2>1. Stored' = Stored
    BY <1>4, <1>s DEF Step, WriteFails, Rename
  <2>2. mem' = mem /\ faults' = faults + 1
    BY <1>4 DEF WriteFails, state
  <2>3. (faults' > 0) = TRUE
    BY <1>f, <2>2
  <2> QED BY <2>1, <2>2, <2>3 DEF Store!Fill
<1>5. ASSUME NEW p \in Procs, Rename(p) PROVE Store!Commit(p) \/ Store!Lose
  <2>1. /\ faults = 0 => Stored' = mem[p]
        /\ Stored' \in Map /\ mem' = mem /\ faults' = faults
    BY <1>5, RenameCommits
  <2>2. CASE faults = 0
    BY <2>1, <2>2 DEF Store!Commit
  <2>3. CASE faults # 0
    <3>1. (faults > 0) = TRUE
      BY <1>f, <2>3
    <3> QED BY <2>1, <3>1 DEF Store!Lose, Store!Map, Map
  <2> QED BY <2>2, <2>3
<1>6. ASSUME NEW p \in Procs, Exit(p) PROVE Store!Forget(p)
  <2>1. Stored' = Stored
    BY <1>6, SameStored DEF Exit, files
  <2> QED BY <1>6, <2>1 DEF Exit, Store!Forget, EmptyMap, Store!EmptyMap
<1>7. CASE UNCHANGED vars
  <2>1. Stored' = Stored
    BY <1>7, SameStored DEF vars
  <2> QED BY <1>7, <2>1 DEF vars
<1> QED
  BY <1>1, <1>2, <1>3, <1>4, <1>5, <1>6, <1>7 DEF Next, Step, Store!Next

\* What Load returns changes only to a whole map some command holds, in one
\* step, unless the disk refused a write: Save implements the register of StateStore.
THEOREM SaveIsAtomic == Alone => (Spec => AtomicSave)
<1>1. ASSUME Alone PROVE Spec => AtomicSave
  <2>1. IInv /\ [Next]_vars => [Store!Next]_Store!storeVars
    BY MapStep
  <2>2. Spec => []IInv
    BY <1>1, SaveInvariant
  <2> QED BY <2>1, <2>2, MapInit, PTL DEF Spec, AtomicSave, Store!Spec
<1> QED BY <1>1

\* ErrorKeepsFile: what Load returns changes only in the step that ends a Save in success, so an
\* error return, a killed command and a full disk leave the old map.
THEOREM ErrorsKeepTheFile == Alone => (Spec => ErrorKeepsFile)
<1>1. ASSUME IInv, [Next]_vars, Stored' # Stored
      PROVE  \E p \in Procs : pc[p] # "saved" /\ pc'[p] = "saved"
  <2>1. ~UNCHANGED vars
    <3>1. ASSUME UNCHANGED vars PROVE FALSE
      BY <1>1, <3>1, SameStored DEF vars
    <3> QED BY <3>1
  <2>2. PICK p \in Procs : Step(p)
    BY <1>1, <2>1 DEF Next
  <2>3. Rename(p)
    BY <1>1, <2>2, OnlyRename
  <2>4. pc[p] = "rename" /\ pc' = [pc EXCEPT ![p] = "saved"] /\ pc \in [Procs -> {"out", "ready", "create", "write", "rename", "saved", "failed"}]
    BY <1>1, <2>3 DEF Rename, Finish, IInv, TypeOK
  <2> QED BY <2>4
<1>2. ASSUME Alone PROVE Spec => ErrorKeepsFile
  <2>1. IInv /\ [Next]_vars => [Stored' # Stored => \E p \in Procs : pc[p] # "saved" /\ pc'[p] = "saved"]_vars
    BY <1>1
  <2>2. Spec => []IInv
    BY <1>2, SaveInvariant
  <2> QED BY <2>1, <2>2, PTL DEF Spec, ErrorKeepsFile
<1> QED BY <1>2
=============================================================================
