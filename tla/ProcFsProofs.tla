---------------------------- MODULE ProcFsProofs ----------------------------
(***************************************************************************)
(* Proofs about ProcFs for any chunk, any number of threads and any        *)
(* contents of /proc/pid/maps: both arrays are large enough for what is    *)
(* written to them, and the list of mappings is what Maps assumes of it.   *)
(***************************************************************************)
EXTENDS ProcFs, SequenceTheorems, FiniteSetTheorems, TLAPS

(* (used | 127) + 128 is more than used; no array shrinks.                 *)
LEMMA GrownFits ==
  ASSUME NEW used \in Nat, NEW max \in Nat
  PROVE  /\ Grown(used, max) \in Nat
         /\ used < Grown(used, max)
<1> DEFINE q == used \div Chunk
           r == used % Chunk
<1>1. Chunk \in Nat \ {0}
  BY ProcFsAssumption
<1>2. q \in Nat /\ r \in 0 .. Chunk - 1
  BY <1>1
<1>3. used = Chunk * q + r
  BY <1>1
<1>4. q * Chunk \in Nat /\ Chunk * q = q * Chunk
  BY <1>1, <1>2
<1>5. used < q * Chunk + (Chunk - 1) + Chunk
  BY <1>1, <1>2, <1>3, <1>4
<1> HIDE DEF q, r
<1>6. Grown(used, max) = IF used >= max THEN q * Chunk + (Chunk - 1) + Chunk ELSE max
  BY DEF Grown, q
<1> QED BY <1>1, <1>4, <1>5, <1>6

LEMMA TerminatedFits ==
  ASSUME NEW used \in Nat, NEW max \in Nat
  PROVE  /\ Terminated(used, max) \in Nat
         /\ used < Terminated(used, max)
BY DEF Terminated

(* The file that is open is in the order of the addresses.                 *)
LEMMA LinesInOrder ==
  ASSUME TypeOK
  PROVE  /\ lines \in Seq(Line)
         /\ Len(lines) <= MaxMappings
         /\ \A i \in DOMAIN lines : lines[i].lo < lines[i].hi
         /\ \A i, j \in DOMAIN lines : i < j => lines[i].hi <= lines[j].lo
<1>1. CASE lines \in MapsFiles
  BY <1>1, ProcFsAssumption DEF IsMapsFile
<1>2. CASE lines = << >>
  BY <1>2, ProcFsAssumption
<1> QED BY <1>1, <1>2 DEF TypeOK

LEMMA InitIInv == Init => IInv
<1> SUFFICES ASSUME Init PROVE IInv
  OBVIOUS
<1>1. proc_mappings \in [1 .. MaxMappings -> Mapping]
  BY DEF Init, NoMapping, Mapping
<1>2. TypeOK
  BY <1>1, ProcFsAssumption DEF Init, TypeOK
<1> QED BY <1>2 DEF Init, IInv, RoomForTerminator, Ordered

(* The steps of get_tids and add_tid.                                      *)
LEMMA TidSteps ==
  ASSUME IInv, ReadTask \/ ReadTaskEnd \/ AddTid
  PROVE  IInv'
<1> USE DEF IInv
<1>0. tids \in Nat /\ tids_max \in Nat
  BY ProcFsAssumption DEF TypeOK
<1>1. UNCHANGED mapvars
  BY DEF ReadTask, ReadTaskEnd, AddTid
<1>2. phase # "maps" /\ phase' # "maps"
  BY DEF ReadTask, ReadTaskEnd, AddTid
<1>3. phase' \in {"task", "run"}
  BY DEF ReadTask, ReadTaskEnd, AddTid, TypeOK
<1>4. /\ tids' \in 0 .. MaxTids
      /\ tids_max' \in Nat
      /\ tids' <= tids_max'
      /\ phase' # "task" => tids' < tids_max'
  <2>1. CASE ReadTask
    <3>1. Grown(tids, tids_max) \in Nat /\ tids < Grown(tids, tids_max)
      BY <1>0, GrownFits
    <3>2. tids' = tids + 1 /\ tids_max' = Grown(tids, tids_max) /\ tids < MaxTids
      BY <2>1 DEF ReadTask
    <3>3. phase' = "task"
      BY <2>1 DEF ReadTask
    <3> QED BY <1>0, <3>1, <3>2, <3>3, ProcFsAssumption
  <2>2. CASE ReadTaskEnd
    <3>1. Terminated(tids, tids_max) \in Nat /\ tids < Terminated(tids, tids_max)
      BY <1>0, TerminatedFits
    <3>2. tids' = tids /\ tids_max' = Terminated(tids, tids_max)
      BY <2>2 DEF ReadTaskEnd
    <3>3. tids \in 0 .. MaxTids
      BY DEF TypeOK
    <3> QED BY <1>0, <3>1, <3>2, <3>3
  <2>3. CASE AddTid
    <3>1. Grown(tids, tids_max) \in Nat
      BY <1>0, GrownFits
    <3>2. tids + 1 \in Nat
      BY <1>0
    <3>3. tids + 1 < Terminated(tids + 1, Grown(tids, tids_max))
      BY <3>1, <3>2, TerminatedFits
    <3>4. Terminated(tids + 1, Grown(tids, tids_max)) \in Nat
      BY <3>1, <3>2, TerminatedFits
    <3>5. /\ tids' = tids + 1 /\ tids < MaxTids
          /\ tids_max' = Terminated(tids + 1, Grown(tids, tids_max))
      BY <2>3 DEF AddTid
    <3> QED BY <1>0, <3>3, <3>4, <3>5, ProcFsAssumption
  <2> QED BY <2>1, <2>2, <2>3
<1>5. TypeOK'
  BY <1>1, <1>3, <1>4 DEF TypeOK, mapvars
<1>6. RoomForTerminator'
  BY <1>4 DEF RoomForTerminator
<1>7. Ordered(num_proc_mappings)'
  BY <1>1, <1>2 DEF Ordered, mapvars
<1> QED BY <1>2, <1>5, <1>6, <1>7

LEMMA OpenStep ==
  ASSUME IInv, OpenMaps
  PROVE  IInv'
<1> USE DEF IInv
<1>0. MaxMappings \in Nat
  BY ProcFsAssumption
<1>1. lines' \in Seq(Line)
  BY ProcFsAssumption DEF OpenMaps, IsMapsFile
<1>2. TypeOK'
  BY <1>0, <1>1 DEF OpenMaps, TypeOK, tidvars
<1>3. RoomForTerminator'
  BY DEF OpenMaps, RoomForTerminator, tidvars
<1>4. Ordered(k)' /\ KeptBelow'
  BY DEF OpenMaps, Ordered, KeptBelow
<1>5. phase' = "maps"
  BY DEF OpenMaps
<1> QED BY <1>2, <1>3, <1>4, <1>5

(* A line goes behind what has been kept, and the lines behind it are      *)
(* higher.                                                                 *)
LEMMA ReadLineStep ==
  ASSUME IInv, ReadLine
  PROVE  IInv'
<1> USE DEF IInv
<1> DEFINE l == lines[line]
           m == [lo |-> l.lo, hi |-> l.hi]
<1>1. MaxMappings \in Nat /\ k \in Nat /\ line \in Nat \ {0} /\ k < line
  BY ProcFsAssumption, LinesInOrder DEF TypeOK
<1>2. lines \in Seq(Line) /\ Len(lines) \in Nat /\ Len(lines) <= MaxMappings
  BY LinesInOrder
<1>3. line \in DOMAIN lines /\ line <= Len(lines)
  BY <1>1, <1>2 DEF ReadLine
<1>4. l \in Line
  BY <1>2, <1>3
<1>5. l.lo \in Nat /\ l.hi \in Nat /\ l.lo < l.hi
  BY <1>3, <1>4, LinesInOrder DEF Line
<1>6. m \in Mapping
  BY <1>5 DEF Mapping
<1>7. proc_mappings \in [1 .. MaxMappings -> Mapping]
  BY DEF TypeOK
<1>8. k + 1 \in 1 .. MaxMappings
  BY <1>1, <1>2, <1>3
<1>9. proc_mappings' = [proc_mappings EXCEPT ![k + 1] = m]
  BY DEF ReadLine
<1>10. proc_mappings' \in [1 .. MaxMappings -> Mapping]
  BY <1>6, <1>7, <1>8, <1>9
<1>11. /\ proc_mappings'[k + 1] = m
       /\ \A i \in 1 .. k : proc_mappings'[i] = proc_mappings[i]
  BY <1>1, <1>7, <1>8, <1>9
<1>12. k' \in {k, k + 1} /\ total_size' \in Nat
  BY <1>5 DEF ReadLine, TypeOK
<1>13. /\ line' = line + 1 /\ phase = "maps"
       /\ UNCHANGED <<phase, tids, tids_max, lines, num_proc_mappings, size>>
  BY DEF ReadLine, tidvars
<1>14. TypeOK'
  BY <1>1, <1>2, <1>3, <1>8, <1>10, <1>12, <1>13 DEF TypeOK
<1>15. RoomForTerminator'
  BY <1>13 DEF RoomForTerminator
<1>16. \A i \in 1 .. k : /\ proc_mappings[i] \in Mapping
                         /\ proc_mappings[i].lo \in Nat /\ proc_mappings[i].hi \in Nat
                         /\ proc_mappings[i].lo < proc_mappings[i].hi
                         /\ proc_mappings[i].hi <= l.lo
  <2> SUFFICES ASSUME NEW i \in 1 .. k
               PROVE  /\ proc_mappings[i] \in Mapping
                      /\ proc_mappings[i].lo \in Nat /\ proc_mappings[i].hi \in Nat
                      /\ proc_mappings[i].lo < proc_mappings[i].hi
                      /\ proc_mappings[i].hi <= l.lo
    OBVIOUS
  <2>1. proc_mappings[i] \in Mapping
    BY <1>1, <1>7, <1>8
  <2>2. line \in line .. Len(lines)
    BY <1>1, <1>2, <1>3
  <2>3. proc_mappings[i].hi <= l.lo
    BY <1>13, <2>2 DEF KeptBelow
  <2>4. proc_mappings[i].lo < proc_mappings[i].hi
    BY <1>13 DEF Ordered
  <2> QED BY <2>1, <2>3, <2>4 DEF Mapping
<1>17. Ordered(k)'
  <2>1. \A i \in 1 .. k + 1 : proc_mappings'[i].lo < proc_mappings'[i].hi
    <3> SUFFICES ASSUME NEW i \in 1 .. k + 1
                 PROVE  proc_mappings'[i].lo < proc_mappings'[i].hi
      OBVIOUS
    <3>1. CASE i = k + 1
      BY <3>1, <1>5, <1>11
    <3>2. CASE i # k + 1
      BY <3>2, <1>1, <1>11, <1>16
    <3> QED BY <3>1, <3>2
  <2>2. \A i, j \in 1 .. k + 1 : i < j => proc_mappings'[i].hi <= proc_mappings'[j].lo
    <3> SUFFICES ASSUME NEW i \in 1 .. k + 1, NEW j \in 1 .. k + 1, i < j
                 PROVE  proc_mappings'[i].hi <= proc_mappings'[j].lo
      OBVIOUS
    <3>0. i \in 1 .. k
      BY <1>1
    <3>1. CASE j = k + 1
      BY <3>0, <3>1, <1>11, <1>16
    <3>2. CASE j # k + 1
      <4>1. j \in 1 .. k
        BY <3>2, <1>1
      <4>2. proc_mappings[i].hi <= proc_mappings[j].lo
        BY <3>0, <4>1, <1>13 DEF Ordered
      <4> QED BY <3>0, <4>1, <4>2, <1>11
    <3> QED BY <3>1, <3>2
  <2>3. \A i \in 1 .. k' : i \in 1 .. k + 1
    BY <1>1, <1>12
  <2> QED BY <2>1, <2>2, <2>3 DEF Ordered
<1>18. KeptBelow'
  <2> SUFFICES ASSUME NEW i \in 1 .. k', NEW j \in line + 1 .. Len(lines)
               PROVE  proc_mappings'[i].hi <= lines[j].lo
    BY <1>13 DEF KeptBelow
  <2>1. j \in DOMAIN lines /\ line < j /\ lines[j] \in Line
    BY <1>1, <1>2
  <2>2. lines[j].lo \in Nat /\ l.hi <= lines[j].lo
    BY <2>1, <1>3, LinesInOrder DEF Line
  <2>3. CASE i = k + 1
    BY <2>2, <2>3, <1>11
  <2>4. CASE i # k + 1
    <3>1. i \in 1 .. k
      BY <2>4, <1>1, <1>12
    <3> QED BY <3>1, <2>2, <1>5, <1>11, <1>16
  <2> QED BY <2>3, <2>4
<1> QED BY <1>13, <1>14, <1>15, <1>17, <1>18

LEMMA CloseStep ==
  ASSUME IInv, CloseMaps
  PROVE  IInv'
<1> USE DEF IInv
<1>1. TypeOK'
  BY DEF CloseMaps, TypeOK, tidvars
<1>2. RoomForTerminator'
  BY DEF CloseMaps, RoomForTerminator, tidvars
<1>3. Ordered(num_proc_mappings)'
  BY DEF CloseMaps, Ordered
<1>4. phase' = "run"
  BY DEF CloseMaps
<1> QED BY <1>1, <1>2, <1>3, <1>4

LEMMA NextIInv == IInv /\ [Next]_vars => IInv'
<1> SUFFICES ASSUME IInv, [Next]_vars PROVE IInv'
  OBVIOUS
<1>1. CASE UNCHANGED vars
  BY <1>1 DEF vars, tidvars, mapvars, IInv, TypeOK, RoomForTerminator, Ordered, KeptBelow
<1>2. CASE ReadTask \/ ReadTaskEnd \/ AddTid
  BY <1>2, TidSteps
<1>3. CASE OpenMaps
  BY <1>3, OpenStep
<1>4. CASE ReadLine
  BY <1>4, ReadLineStep
<1>5. CASE CloseMaps
  BY <1>5, CloseStep
<1> QED BY <1>1, <1>2, <1>3, <1>4, <1>5 DEF Next

LEMMA IInvMappingList == IInv => ParsedIsMappingList
<1> SUFFICES ASSUME IInv, phase = "run" PROVE IsMappingList(Parsed)
  BY DEF ParsedIsMappingList
<1> DEFINE n == num_proc_mappings
<1>1. n \in Nat /\ MaxMappings \in Nat /\ n <= MaxMappings
  BY ProcFsAssumption DEF IInv, TypeOK
<1>2. proc_mappings \in [1 .. MaxMappings -> Mapping]
  BY DEF IInv, TypeOK
<1>3. \A i \in 1 .. n : proc_mappings[i] \in Mapping
  BY <1>1, <1>2
<1>4. Parsed \in [1 .. n -> Mapping]
  BY <1>3 DEF Parsed
<1>5. Parsed \in Seq(Mapping)
  BY <1>1, <1>4, SeqDef
<1>6. DOMAIN Parsed = 1 .. n /\ \A i \in 1 .. n : Parsed[i] = proc_mappings[i]
  BY DEF Parsed
<1>7. Ordered(n)
  BY DEF IInv
<1> QED BY <1>5, <1>6, <1>7 DEF IsMappingList, Ordered

----------------------------------------------------------------------------
(* Every reachable state is well typed: whatever the number of threads and *)
(* of mappings, get_tids, add_tid and parse_maps_file write inside their   *)
(* arrays.                                                                 *)
THEOREM TypeCorrect == Spec => []TypeOK
<1>1. Spec => []IInv
  BY InitIInv, NextIInv, PTL DEF Spec
<1>2. IInv => TypeOK
  BY DEF IInv
<1> QED BY <1>1, <1>2, PTL

(* There is always room for the 0 that ends the list of threads.           *)
THEOREM RoomForTerminatorHolds == Spec => []RoomForTerminator
<1>1. Spec => []IInv
  BY InitIInv, NextIInv, PTL DEF Spec
<1>2. IInv => RoomForTerminator
  BY DEF IInv
<1> QED BY <1>1, <1>2, PTL

(* parse_maps_file yields what update_local_maps and find_dirty_data       *)
(* assume of its list (ListsAssumption of Maps), however often the array   *)
(* has been filled before.                                                 *)
THEOREM ParsedIsMappingListHolds == Spec => []ParsedIsMappingList
<1>1. Spec => []IInv
  BY InitIInv, NextIInv, PTL DEF Spec
<1> QED BY <1>1, IInvMappingList, PTL

----------------------------------------------------------------------------
(* The mappings of those of the first n lines that are kept, and the first *)
(* n entries of the array.                                                 *)
WantedOf(n) ==
  {[lo |-> lines[j].lo, hi |-> lines[j].hi] :
     j \in {i \in DOMAIN lines : i <= n /\ lines[i].r /\ lines[i].w}}
Entries(n) == {proc_mappings[i] : i \in 1 .. n}

(* The entries are those of the lines read so far, and between the calls   *)
(* those of the whole file.                                                *)
KeptInv ==
  /\ phase = "maps"  => Entries(k) = WantedOf(line - 1)
  /\ phase # "maps" => Entries(num_proc_mappings) = WantedOf(Len(lines))

LEMMA InitKept == Init => KeptInv
BY DEF Init, KeptInv, Entries, WantedOf

LEMMA OpenKept ==
  ASSUME IInv, OpenMaps
  PROVE  KeptInv'
<1>1. lines' \in Seq(Line)
  BY ProcFsAssumption DEF OpenMaps, IsMapsFile
<1>2. k' = 0 /\ line' = 1 /\ phase' = "maps"
  BY DEF OpenMaps
<1>3. Entries(k)' = {}
  BY <1>2 DEF Entries
<1>4. WantedOf(line - 1)' = {}
  <2>1. \A i \in DOMAIN lines' : ~(i <= line' - 1)
    BY <1>1, <1>2
  <2> QED BY <2>1 DEF WantedOf
<1> QED BY <1>2, <1>3, <1>4 DEF KeptInv

(* The entry of the line comes behind those kept before it, or is not yet  *)
(* counted.                                                                *)
LEMMA ReadKept ==
  ASSUME IInv, KeptInv, ReadLine
  PROVE  KeptInv'
<1> DEFINE l == lines[line]
           m == [lo |-> l.lo, hi |-> l.hi]
<1>1. MaxMappings \in Nat /\ k \in Nat /\ line \in Nat \ {0} /\ k < line
  BY ProcFsAssumption, LinesInOrder DEF IInv, TypeOK
<1>2. lines \in Seq(Line) /\ Len(lines) \in Nat /\ Len(lines) <= MaxMappings
  BY LinesInOrder DEF IInv
<1>3. /\ line <= Len(lines) /\ line \in DOMAIN lines
      /\ phase = "maps" /\ phase' = "maps"
      /\ line' = line + 1 /\ lines' = lines
      /\ proc_mappings' = [proc_mappings EXCEPT ![k + 1] = m]
      /\ k' = IF l.w /\ l.r THEN k + 1 ELSE k
  BY <1>1, <1>2 DEF ReadLine, Keeps
<1>4. k + 1 \in 1 .. MaxMappings /\ DOMAIN proc_mappings = 1 .. MaxMappings
  BY <1>1, <1>2, <1>3 DEF IInv, TypeOK
<1>5. proc_mappings'[k + 1] = m /\ \A i \in 1 .. k : proc_mappings'[i] = proc_mappings[i]
  BY <1>1, <1>3, <1>4
<1>6. {proc_mappings'[i] : i \in 1 .. k} = WantedOf(line - 1)
  BY <1>3, <1>5 DEF KeptInv, Entries
<1>7. \A i \in DOMAIN lines : i <= line <=> i <= line - 1 \/ i = line
  BY <1>1, <1>2
<1>8. WantedOf(line) = IF l.w /\ l.r THEN WantedOf(line - 1) \cup {m} ELSE WantedOf(line - 1)
  BY <1>3, <1>7 DEF WantedOf
<1>9. WantedOf(line - 1)' = WantedOf(line)
  BY <1>1, <1>3 DEF WantedOf
<1>10. Entries(k)' = IF l.w /\ l.r THEN WantedOf(line - 1) \cup {m} ELSE WantedOf(line - 1)
  <2>1. CASE l.w /\ l.r
    <3>1. 1 .. k + 1 = (1 .. k) \cup {k + 1}
      BY <1>1
    <3>2. Entries(k)' = {proc_mappings'[i] : i \in 1 .. k} \cup {proc_mappings'[k + 1]}
      BY <1>3, <2>1, <3>1 DEF Entries
    <3> QED BY <1>5, <1>6, <2>1, <3>2
  <2>2. CASE ~(l.w /\ l.r)
    BY <1>3, <1>6, <2>2 DEF Entries
  <2> QED BY <2>1, <2>2
<1> QED BY <1>3, <1>8, <1>9, <1>10 DEF KeptInv

LEMMA CloseKept ==
  ASSUME IInv, KeptInv, CloseMaps
  PROVE  KeptInv'
<1>1. /\ line \in 1 .. Len(lines) + 1 /\ line > Len(lines)
      /\ Len(lines) \in Nat
      /\ phase = "maps" /\ phase' = "run"
      /\ num_proc_mappings' = k
      /\ UNCHANGED <<lines, line, k, proc_mappings>>
  BY LinesInOrder DEF CloseMaps, IInv, TypeOK
<1>2. line - 1 = Len(lines)
  BY <1>1
<1>3. Entries(k) = WantedOf(Len(lines))
  BY <1>1, <1>2 DEF KeptInv
<1>4. Entries(num_proc_mappings)' = Entries(k) /\ WantedOf(Len(lines))' = WantedOf(Len(lines))
  BY <1>1 DEF Entries, WantedOf
<1> QED BY <1>1, <1>3, <1>4 DEF KeptInv

LEMMA NextKept == IInv /\ KeptInv /\ [Next]_vars => KeptInv'
<1> SUFFICES ASSUME IInv, KeptInv, [Next]_vars PROVE KeptInv'
  OBVIOUS
<1>1. CASE UNCHANGED vars
  BY <1>1 DEF vars, mapvars, KeptInv, Entries, WantedOf
<1>2. CASE ReadTask \/ ReadTaskEnd \/ AddTid
  <2>1. phase # "maps" /\ phase' # "maps" /\ UNCHANGED mapvars
    BY <1>2 DEF ReadTask, ReadTaskEnd, AddTid
  <2> QED BY <2>1 DEF mapvars, KeptInv, Entries, WantedOf
<1>3. CASE OpenMaps
  BY <1>3, OpenKept
<1>4. CASE ReadLine
  BY <1>4, ReadKept
<1>5. CASE CloseMaps
  BY <1>5, CloseKept
<1> QED BY <1>1, <1>2, <1>3, <1>4, <1>5 DEF Next

(* The list has exactly the mappings that can be read and written: the     *)
(* entry that parse_maps_file writes for any other line is overwritten or  *)
(* does not count.                                                         *)
THEOREM ParsedWritableHolds == Spec => []ParsedWritable
<1>1. Spec => [](IInv /\ KeptInv)
  BY InitIInv, InitKept, NextIInv, NextKept, PTL DEF Spec
<1>2. IInv /\ KeptInv => ParsedWritable
  <2> SUFFICES ASSUME IInv, KeptInv, phase = "run"
               PROVE  {Parsed[i] : i \in DOMAIN Parsed} =
                        {[lo |-> lines[i].lo, hi |-> lines[i].hi] :
                           i \in {j \in DOMAIN lines : lines[j].r /\ lines[j].w}}
    BY DEF ParsedWritable
  <2>1. {Parsed[i] : i \in DOMAIN Parsed} = Entries(num_proc_mappings)
    BY DEF Parsed, Entries
  <2>2. Entries(num_proc_mappings) = WantedOf(Len(lines))
    BY DEF KeptInv
  <2>3. \A j \in DOMAIN lines : j <= Len(lines)
    BY LinesInOrder DEF IInv
  <2> QED BY <2>1, <2>2, <2>3 DEF WantedOf
<1> QED BY <1>1, <1>2, PTL

----------------------------------------------------------------------------
(* The pages of the first n entries.                                       *)
Span(n) == UNION {PagesOf(proc_mappings[i]) : i \in 1 .. n}

(* The size counts the pages of the entries, each once.                    *)
SizeInv ==
  /\ phase = "maps"  => IsFiniteSet(Span(k)) /\ total_size = Cardinality(Span(k))
  /\ phase # "maps" => /\ IsFiniteSet(Span(num_proc_mappings))
                       /\ size = Cardinality(Span(num_proc_mappings))

LEMMA InitSize == Init => SizeInv
<1> SUFFICES ASSUME Init PROVE SizeInv
  OBVIOUS
<1>1. Span(num_proc_mappings) = {}
  BY DEF Init, Span
<1> QED BY <1>1, FS_EmptySet DEF Init, SizeInv

LEMMA OpenSize ==
  ASSUME OpenMaps
  PROVE  SizeInv'
<1>1. k' = 0 /\ total_size' = 0 /\ phase' = "maps"
  BY DEF OpenMaps
<1>2. Span(k)' = {}
  BY <1>1 DEF Span
<1> QED BY <1>1, <1>2, FS_EmptySet DEF SizeInv

(* A mapping that is kept lies above the pages counted so far.             *)
LEMMA ReadSize ==
  ASSUME IInv, SizeInv, ReadLine
  PROVE  SizeInv'
<1> DEFINE l == lines[line]
           m == [lo |-> l.lo, hi |-> l.hi]
<1>1. MaxMappings \in Nat /\ k \in Nat /\ line \in Nat \ {0} /\ k < line
  BY ProcFsAssumption, LinesInOrder DEF IInv, TypeOK
<1>2. lines \in Seq(Line) /\ Len(lines) \in Nat /\ Len(lines) <= MaxMappings
  BY LinesInOrder DEF IInv
<1>3. /\ line <= Len(lines) /\ line \in DOMAIN lines /\ line \in line .. Len(lines)
      /\ phase = "maps" /\ phase' = "maps"
      /\ proc_mappings' = [proc_mappings EXCEPT ![k + 1] = m]
      /\ Keeps(l) => k' = k + 1 /\ total_size' = total_size + (l.hi - l.lo)
      /\ ~Keeps(l) => k' = k /\ total_size' = total_size
  BY <1>1, <1>2 DEF ReadLine
<1>4. k + 1 \in 1 .. MaxMappings /\ proc_mappings \in [1 .. MaxMappings -> Mapping]
  BY <1>1, <1>2, <1>3 DEF IInv, TypeOK
<1>5. proc_mappings'[k + 1] = m /\ \A i \in 1 .. k : proc_mappings'[i] = proc_mappings[i]
  BY <1>1, <1>3, <1>4
<1>6. l.lo \in Nat /\ l.hi \in Nat /\ l.lo < l.hi
  <2>1. l \in Line
    BY <1>2, <1>3
  <2> QED BY <2>1, <1>3, LinesInOrder DEF IInv, Line
<1>7. UNION {PagesOf(proc_mappings'[i]) : i \in 1 .. k} = Span(k)
  BY <1>5 DEF Span
<1>8. IsFiniteSet(Span(k)) /\ total_size = Cardinality(Span(k)) /\ total_size \in Nat
  BY <1>3 DEF SizeInv, IInv, TypeOK
<1>9. CASE Keeps(l)
  <2>1. PagesOf(m) = l.lo .. l.hi - 1
    BY DEF PagesOf
  <2>2. IsFiniteSet(PagesOf(m)) /\ Cardinality(PagesOf(m)) = l.hi - l.lo
    <3>1. l.lo \in Int /\ l.hi - 1 \in Int
      BY <1>6
    <3>2. /\ IsFiniteSet(l.lo .. l.hi - 1)
          /\ Cardinality(l.lo .. l.hi - 1) =
               IF l.lo > l.hi - 1 THEN 0 ELSE (l.hi - 1) - l.lo + 1
      BY <3>1, FS_Interval
    <3> QED BY <2>1, <3>2, <1>6
  <2>3. Span(k) \cap PagesOf(m) = {}
    <3> SUFFICES ASSUME NEW i \in 1 .. k, NEW p \in PagesOf(proc_mappings[i]), p \in PagesOf(m)
                 PROVE  FALSE
      BY DEF Span
    <3>1. proc_mappings[i] \in Mapping
      BY <1>1, <1>4
    <3>2. proc_mappings[i].hi <= l.lo
      BY <1>3 DEF IInv, KeptBelow
    <3> QED BY <3>1, <3>2, <2>1, <1>6 DEF PagesOf, Mapping
  <2>4. Span(k)' = Span(k) \cup PagesOf(m)
    <3>1. 1 .. k + 1 = (1 .. k) \cup {k + 1}
      BY <1>1
    <3>2. Span(k)' = (UNION {PagesOf(proc_mappings'[i]) : i \in 1 .. k})
                       \cup PagesOf(proc_mappings'[k + 1])
      BY <1>3, <1>9, <3>1 DEF Span
    <3> QED BY <3>2, <1>5, <1>7
  <2>5. /\ IsFiniteSet(Span(k) \cup PagesOf(m))
        /\ Cardinality(Span(k) \cup PagesOf(m)) =
             Cardinality(Span(k)) + Cardinality(PagesOf(m)) - Cardinality(Span(k) \cap PagesOf(m))
    BY <1>8, <2>2, FS_Union
  <2>6. Cardinality(Span(k) \cap PagesOf(m)) = 0
    BY <2>3, FS_EmptySet
  <2>7. Cardinality(Span(k) \cup PagesOf(m)) = total_size + (l.hi - l.lo)
    BY <2>2, <2>5, <2>6, <1>6, <1>8
  <2>8. total_size' = total_size + (l.hi - l.lo)
    BY <1>3, <1>9
  <2> QED BY <1>3, <2>4, <2>5, <2>7, <2>8 DEF SizeInv
<1>10. CASE ~Keeps(l)
  <2>1. Span(k)' = Span(k)
    BY <1>3, <1>7, <1>10 DEF Span
  <2> QED BY <2>1, <1>3, <1>8, <1>10 DEF SizeInv
<1> QED BY <1>9, <1>10

LEMMA CloseSize ==
  ASSUME SizeInv, CloseMaps
  PROVE  SizeInv'
<1>1. /\ phase = "maps" /\ phase' = "run"
      /\ num_proc_mappings' = k /\ size' = total_size
      /\ UNCHANGED proc_mappings
  BY DEF CloseMaps
<1>2. Span(num_proc_mappings)' = Span(k)
  BY <1>1 DEF Span
<1> QED BY <1>1, <1>2 DEF SizeInv

LEMMA NextSize == IInv /\ SizeInv /\ [Next]_vars => SizeInv'
<1> SUFFICES ASSUME IInv, SizeInv, [Next]_vars PROVE SizeInv'
  OBVIOUS
<1>1. CASE UNCHANGED vars
  BY <1>1 DEF vars, mapvars, SizeInv, Span
<1>2. CASE ReadTask \/ ReadTaskEnd \/ AddTid
  <2>1. phase # "maps" /\ phase' # "maps" /\ UNCHANGED mapvars
    BY <1>2 DEF ReadTask, ReadTaskEnd, AddTid
  <2> QED BY <2>1 DEF mapvars, SizeInv, Span
<1>3. CASE OpenMaps
  BY <1>3, OpenSize
<1>4. CASE ReadLine
  BY <1>4, ReadSize
<1>5. CASE CloseMaps
  BY <1>5, CloseSize
<1> QED BY <1>1, <1>2, <1>3, <1>4, <1>5 DEF Next

(* The size that parse_maps_file adds up line by line is the number of     *)
(* pages of the list, so that the "writable size" counts no page twice.    *)
THEOREM SizeIsCoveredHolds == Spec => []SizeIsCovered
<1>1. Spec => [](IInv /\ SizeInv)
  BY InitIInv, InitSize, NextIInv, NextSize, PTL DEF Spec
<1>2. SizeInv => SizeIsCovered
  <2>1. Covered(Parsed) = Span(num_proc_mappings)
    BY DEF Covered, Parsed, Span
  <2> QED BY <2>1 DEF SizeInv, SizeIsCovered
<1> QED BY <1>1, <1>2, PTL
=============================================================================
