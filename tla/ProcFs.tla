------------------------------- MODULE ProcFs -------------------------------
(***************************************************************************)
(* What the tracker reads from /proc, and the memory it puts it in.        *)
(* get_tids and add_tid (src/common.c) keep the list of threads in an      *)
(* array that they enlarge, with room for a 0 behind the last entry;       *)
(* parse_maps_file (src/proc_maps.c) fills an array of a fixed size with   *)
(* the mappings it wants and goes on using it at every snapshot, so that   *)
(* what an earlier, longer list left there is still behind a shorter one.  *)
(* One step is one directory entry, one line, or one add_tid.              *)
(***************************************************************************)
EXTENDS Maps, FiniteSets

CONSTANTS
  Chunk,         (* 128: the array of threads grows by that much           *)
  MaxTids,       (* bound: the threads of the application                  *)
  MaxMappings,   (* MAX_PROC_MAPPINGS                                      *)
  MapsFiles      (* what /proc/pid/maps can contain                        *)

(* A line is a mapping with its permissions.                               *)
Line == [lo : Nat, hi : Nat, r : BOOLEAN, w : BOOLEAN]

(* The kernel lists the mappings in the order of their addresses, and no   *)
(* more of them than vm.max_map_count, by default MAX_PROC_MAPPINGS.       *)
IsMapsFile(lines) ==
  /\ lines \in Seq(Line)
  /\ Len(lines) <= MaxMappings
  /\ \A i \in DOMAIN lines : lines[i].lo < lines[i].hi
  /\ \A i, j \in DOMAIN lines : i < j => lines[i].hi <= lines[j].lo

ASSUME ProcFsAssumption ==
  /\ Chunk \in Nat \ {0}
  /\ MaxTids \in Nat
  /\ MaxMappings \in Nat
  /\ \A lines \in MapsFiles : IsMapsFile(lines)

VARIABLES
  phase,         (* in get_tids, in parse_maps_file, or between the calls  *)
  tids,          (* used: the entries of the list of threads               *)
  tids_max,      (* the entries its array has room for                     *)
  lines, line,   (* the open /proc/pid/maps and the line to be read        *)
  k,             (* the position in proc_mappings                          *)
  total_size,    (* the pages of the mappings kept so far                  *)
  proc_mappings, (* the array, of MaxMappings entries                      *)
  num_proc_mappings, (* the entries that count since the last call         *)
  size           (* procinf->size                                          *)

tidvars == <<tids, tids_max>>
mapvars == <<lines, line, k, total_size, proc_mappings, num_proc_mappings, size>>
vars    == <<phase, tidvars, mapvars>>

NoMapping == [lo |-> 0, hi |-> 0]

(* malloc leaves the entries uninitialised; none of them counts.           *)
Init ==
  /\ phase = "task"
  /\ tids = 0 /\ tids_max = 0
  /\ lines = << >> /\ line = 1
  /\ k = 0 /\ total_size = 0
  /\ proc_mappings = [i \in 1 .. MaxMappings |-> NoMapping]
  /\ num_proc_mappings = 0 /\ size = 0

----------------------------------------------------------------------------
(* Mutant: the size is rounded down.                                       *)
GrownRoundedDown(used, max) ==
  IF used >= max THEN (used \div Chunk) * Chunk ELSE max

(* (used | 127) + 128, when there is no room for another entry.            *)
Grown(used, max) ==
  IF used >= max THEN (used \div Chunk) * Chunk + (Chunk - 1) + Chunk ELSE max

(* Mutant: the terminator is taken for an entry.                           *)
TerminatedOffByOne(used, max) == IF used > max THEN used + 1 ELSE max

(* Room for the terminating (pid_t)0.                                      *)
Terminated(used, max) == IF used >= max THEN used + 1 ELSE max

(* get_tids: one entry of /proc/pid/task.                                  *)
ReadTask ==
  /\ phase = "task" /\ tids < MaxTids
  /\ tids_max' = Grown(tids, tids_max)
  /\ tids' = tids + 1
  /\ UNCHANGED <<phase, mapvars>>

(* Its end.  A list without a thread is an error, and main gives up.       *)
ReadTaskEnd ==
  /\ phase = "task" /\ tids > 0
  /\ tids_max' = Terminated(tids, tids_max)
  /\ phase' = "run"
  /\ UNCHANGED <<tids, mapvars>>

AddTid ==
  /\ phase = "run" /\ tids < MaxTids
  /\ tids_max' = Terminated(tids + 1, Grown(tids, tids_max))
  /\ tids' = tids + 1
  /\ UNCHANGED <<phase, mapvars>>

----------------------------------------------------------------------------
(* Mutant: the position is not set back.                                   *)
OpenMapsContinue ==
  /\ phase = "run"
  /\ lines' \in MapsFiles
  /\ line' = 1 /\ total_size' = 0
  /\ phase' = "maps"
  /\ UNCHANGED <<tidvars, k, proc_mappings, num_proc_mappings, size>>

(* A call whose open fails returns at once: procinf keeps what it has.     *)
OpenMaps ==
  /\ phase = "run"
  /\ lines' \in MapsFiles
  /\ line' = 1 /\ k' = 0 /\ total_size' = 0
  /\ phase' = "maps"
  /\ UNCHANGED <<tidvars, proc_mappings, num_proc_mappings, size>>

(* Mutant: a mapping needs one of the two permissions.                     *)
KeepsEither(l) == l.w \/ l.r

(* w_perm & r_perm.                                                        *)
Keeps(l) == l.w /\ l.r

(* Mutant: the size is counted for every line.                             *)
ReadLineCountsAll ==
  /\ phase = "maps" /\ line <= Len(lines)
  /\ LET l == lines[line] IN
     /\ proc_mappings' = [proc_mappings EXCEPT ![k + 1] = [lo |-> l.lo, hi |-> l.hi]]
     /\ k' = IF Keeps(l) THEN k + 1 ELSE k
     /\ total_size' = total_size + (l.hi - l.lo)
  /\ line' = line + 1
  /\ UNCHANGED <<phase, tidvars, lines, num_proc_mappings, size>>

(* Every line goes to entry k; the next one overwrites it unless it is kept.*)
ReadLine ==
  /\ phase = "maps" /\ line <= Len(lines)
  /\ LET l == lines[line] IN
     /\ proc_mappings' = [proc_mappings EXCEPT ![k + 1] = [lo |-> l.lo, hi |-> l.hi]]
     /\ IF Keeps(l) THEN k' = k + 1 /\ total_size' = total_size + (l.hi - l.lo)
                    ELSE UNCHANGED <<k, total_size>>
  /\ line' = line + 1
  /\ UNCHANGED <<phase, tidvars, lines, num_proc_mappings, size>>

CloseMaps ==
  /\ phase = "maps" /\ line > Len(lines)
  /\ num_proc_mappings' = k
  /\ size' = total_size
  /\ phase' = "run"
  /\ UNCHANGED <<tidvars, lines, line, k, total_size, proc_mappings>>

Next ==
  \/ ReadTask \/ ReadTaskEnd \/ AddTid
  \/ OpenMaps \/ ReadLine \/ CloseMaps

Spec == Init /\ [][Next]_vars

----------------------------------------------------------------------------
(* Every variable has a value of its kind, every entry is written inside   *)
(* its array.                                                              *)
TypeOK ==
  /\ phase \in {"task", "run", "maps"}
  /\ tids \in 0 .. MaxTids
  /\ tids_max \in Nat
  /\ tids <= tids_max
  /\ lines \in MapsFiles \cup {<< >>}
  /\ line \in 1 .. Len(lines) + 1
  /\ k \in 0 .. MaxMappings
  /\ k < line
  /\ total_size \in Nat
  /\ proc_mappings \in [1 .. MaxMappings -> Mapping]
  /\ num_proc_mappings \in 0 .. MaxMappings
  /\ size \in Nat

(* Whatever the number of threads at the start and later, the array has    *)
(* room for the terminator behind the last entry.                          *)
RoomForTerminator == phase # "task" => tids < tids_max

(* The list as the rest of the program sees it.                            *)
Parsed == [i \in 1 .. num_proc_mappings |-> proc_mappings[i]]

(* Between the calls the list has the mappings that can be read and        *)
(* written, all of them, and no leftover of an earlier list.               *)
ParsedWritable ==
  phase = "run" =>
    {Parsed[i] : i \in DOMAIN Parsed} =
      {[lo |-> lines[i].lo, hi |-> lines[i].hi] :
         i \in {j \in DOMAIN lines : lines[j].r /\ lines[j].w}}

(* What the modules that use the list assume of it (ListsAssumption): its  *)
(* mappings are in order and do not overlap.                               *)
ParsedIsMappingList == phase = "run" => IsMappingList(Parsed)

(* procinf->size, the "writable size" of the statistics, is that of them.  *)
SizeIsCovered ==
  phase = "run" => size = Cardinality(Covered(Parsed))
----------------------------------------------------------------------------
(* The inductive invariant behind TypeOK, RoomForTerminator and            *)
(* ParsedIsMappingList.                                                    *)

(* The first n entries are mappings in order.                              *)
Ordered(n) ==
  /\ \A i \in 1 .. n : proc_mappings[i].lo < proc_mappings[i].hi
  /\ \A i, j \in 1 .. n : i < j => proc_mappings[i].hi <= proc_mappings[j].lo

(* What has been kept lies below the lines that are still to be read.      *)
KeptBelow ==
  \A i \in 1 .. k : \A j \in line .. Len(lines) :
    proc_mappings[i].hi <= lines[j].lo

IInv ==
  /\ TypeOK
  /\ RoomForTerminator
  /\ phase = "maps" => Ordered(k) /\ KeptBelow
  /\ phase # "maps" => Ordered(num_proc_mappings)
=============================================================================
