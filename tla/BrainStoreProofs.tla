--------------------------- MODULE BrainStoreProofs -------------------------
(***************************************************************************)
(* Proofs about the project brain, for any number of writers, records,     *)
(* paths and faults, in both modes.                                        *)
(*                                                                         *)
(* Held says that writers under way have records of their own, that any    *)
(* two of them are marked as overlapping, and that nothing is read that    *)
(* was not stored.  One JSON service then loses only what overlaps, since  *)
(* a writer between its read and its write has read all the rest, and one  *)
(* file for each failure (Kept); SQL loses an audit entry for each (Owed). *)
(* Without overlap and failure nothing is lost at all (Alone).  While      *)
(* nothing is lost (Exact) versions have no gap, because a version about   *)
(* to be stored follows one that is there (Claims).                        *)
(***************************************************************************)
EXTENDS BrainStore, FiniteSetTheorems, WellFoundedInduction, TLAPS

-----------------------------------------------------------------------------
(* The greatest of a bounded set of numbers.                               *)

Less == {ss \in Nat \X Nat : ss[1] < ss[2]}

LEMMA LessWellFounded == IsWellFoundedOn(Less, Nat)
<1>1. Less = OpToRel(<, Nat)
  BY DEF Less, OpToRel
<1>2. QED
  BY <1>1, NatLessThanWellFounded

LEMMA LeastExists ==
  ASSUME NEW T, T \subseteq Nat, T # {}
  PROVE  \E x \in T : \A y \in T : x <= y
<1>1. \E x \in T : \A y \in T : ~ (<<y, x>> \in Less)
  BY LessWellFounded, WFMin, Zenon
<1>2. PICK x \in T : \A y \in T : ~ (<<y, x>> \in Less)
  BY <1>1
<1>3. ASSUME NEW y \in T PROVE x <= y
  <2>1. x \in Nat /\ y \in Nat /\ <<y, x>> \notin Less
    BY <1>2, <1>3
  <2>2. ~ (y < x)
    BY <2>1 DEF Less
  <2>3. QED
    BY <2>1, <2>2
<1>4. QED
  BY <1>3

\* What Latest computes.
LEMMA LatestIsGreatest ==
  ASSUME NEW V, V \subseteq Nat, NEW b \in Nat, \A n \in V : n <= b
  PROVE  /\ Latest(V) \in Nat
         /\ \A n \in V : n <= Latest(V)
         /\ V = {} => Latest(V) = 0
         /\ V # {} => Latest(V) \in V
<1>1. CASE V = {}
  BY <1>1 DEF Latest
<1>2. CASE V # {}
  <2> DEFINE U == {m \in Nat : \A n \in V : n <= m}
  <2>1. U \subseteq Nat /\ U # {}
    BY SMT
  <2>2. PICK m \in U : \A y \in U : m <= y
    BY <2>1, LeastExists
  <2>3. m \in V
    <3>1. SUFFICES ASSUME m \notin V PROVE FALSE
      OBVIOUS
    <3>2. PICK n \in V : TRUE
      BY <1>2
    <3>3. m # 0
      BY <3>1, <3>2
    <3>4. m - 1 \in U
      BY <3>1, <3>3
    <3>5. QED
      BY <3>4, <2>2
  <2>4. \E n \in V : \A k \in V : k <= n
    BY <2>2, <2>3
  <2>5. Latest(V) \in V /\ \A k \in V : k <= Latest(V)
    BY <1>2, <2>4 DEF Latest
  <2>6. QED
    BY <1>2, <2>5
<1>3. QED
  BY <1>1, <1>2

-----------------------------------------------------------------------------
(* The invariants.                                                         *)

Kinds == Paths \cup {"decision"}
Firsts == {"version", "insert", "read"}

\* some number is above every version
Bounded == \E b \in Nat : \A i \in Records : version[i] <= b

Held ==
  /\ \A w \in Writers : at[w] # "idle" => op[w] \in Records /\ kind[op[w]] # "unused"
  /\ \A v, w \in Writers : v # w /\ at[v] # "idle" /\ at[w] # "idle" =>
       op[v] # op[w] /\ op[v] \in overlapped
  /\ \A w \in Writers : at[w] = "version" => on[w] = "artifacts"
  /\ mode = "sql" =>
       torn = {} /\ \A w \in Writers : at[w] \in {"idle", "version", "insert"}

Stored ==
  /\ \A f \in Files : file[f] \subseteq stored[f]
  /\ \A f \in Files : \A i \in stored[f] : kind[i] # "unused"
  /\ \A w \in Writers : view[w] \subseteq stored[on[w]]
  /\ \A w \in Writers : at[w] = "idle" => view[w] = {}
  /\ \A w \in Writers : at[w] # "idle" =>
       /\ op[w] \notin stored["audit"]
       /\ on[w] # "audit" => \A f \in Files : op[w] \notin stored[f]

\* Begin for the record i, with the file and the first step it is called for.
BeginWith(w, k, f, s, i) ==
  /\ at[w] = "idle"
  /\ kind[i] = "unused"
  /\ kind' = [kind EXCEPT ![i] = k]
  /\ op' = [op EXCEPT ![w] = i]
  /\ overlapped' = IF Busy = {} THEN overlapped
                   ELSE overlapped \cup {i} \cup {op[v] : v \in Busy}
  /\ on' = [on EXCEPT ![w] = f]
  /\ at' = [at EXCEPT ![w] = s]
  /\ UNCHANGED <<mode, shared, version, store, view, faults>>
  /\ mode = "sql" => s # "read"
  /\ s = "version" <=> f = "artifacts"
  /\ f # "audit"

\* What the two Start actions do.
LEMMA BeginIsWith ==
  ASSUME NEW w \in Writers,
         StartDecision(w) \/ \E p \in Paths : StartArtifact(w, p)
  PROVE  \E k \in Kinds, f \in Files, s \in Firsts, i \in Records : BeginWith(w, k, f, s, i)
<1>1. CASE StartDecision(w)
  <2>1. PICK i \in Records : BeginWith(w, "decision", "decisions", Ready, i)
    BY <1>1 DEF StartDecision, Begin, BeginWith, Ready
  <2>2. Ready \in Firsts /\ "decision" \in Kinds /\ "decisions" \in Files
    BY DEF Ready, Firsts, Kinds, Files
  <2>3. QED
    BY <2>1, <2>2
<1>2. CASE \E p \in Paths : StartArtifact(w, p)
  <2>1. PICK p \in Paths : StartArtifact(w, p)
    BY <1>2
  <2>2. PICK i \in Records : BeginWith(w, p, "artifacts", "version", i)
    BY <2>1 DEF StartArtifact, Begin, BeginWith
  <2>3. "version" \in Firsts /\ p \in Kinds /\ "artifacts" \in Files
    BY DEF Firsts, Kinds, Files
  <2>4. QED
    BY <2>2, <2>3
<1>3. QED
  BY <1>1, <1>2

-----------------------------------------------------------------------------
(* Type correctness.                                                       *)

\* The versions of a path are bounded numbers.
LEMMA VersionsBounded ==
  ASSUME TypeOK, Bounded, NEW p, NEW S \in SUBSET Records
  PROVE  /\ VersionsOf(p, S) \subseteq Nat
         /\ Latest(VersionsOf(p, S)) \in Nat
         /\ \A i \in S : kind[i] = p => version[i] <= Latest(VersionsOf(p, S))
         /\ VersionsOf(p, S) = {} => Latest(VersionsOf(p, S)) = 0
         /\ VersionsOf(p, S) # {} => Latest(VersionsOf(p, S)) \in VersionsOf(p, S)
<1>1. VersionsOf(p, S) \subseteq Nat
  BY DEF VersionsOf, TypeOK
<1>2. PICK b \in Nat : \A i \in Records : version[i] <= b
  BY DEF Bounded
<1>3. \A n \in VersionsOf(p, S) : n <= b
  BY <1>2 DEF VersionsOf
<1>4. \A i \in S : kind[i] = p => version[i] \in VersionsOf(p, S)
  BY DEF VersionsOf
<1>5. QED
  BY <1>1, <1>3, <1>4, LatestIsGreatest

LEMMA ContentsTyped == TypeOK => \A f \in Files : Contents(f) \in SUBSET Records
  BY DEF TypeOK, Contents

\* What a write leaves of the writer, and adds to the record of writes.
LEMMA OnwardTyped ==
  ASSUME TypeOK, NEW w \in Writers, at[w] # "idle", op[w] \in Records, Onward(w)
  PROVE  /\ at' \in [Writers -> {"idle", "version", "insert", "read", "open", "dump"}]
         /\ op' \in [Writers -> Records \cup {NoRecord}]
         /\ on' \in [Writers -> Files]
         /\ view' \in [Writers -> SUBSET Records]
         /\ stored' \in [Files -> SUBSET Records]
<1>1. at' \in [Writers -> {"idle", "version", "insert", "read", "open", "dump"}]
  BY DEF TypeOK, Onward, Ready
<1>2. op' \in [Writers -> Records \cup {NoRecord}]
  BY DEF TypeOK, Onward
<1>3. on' \in [Writers -> Files]
  BY DEF TypeOK, Onward, Files
<1>4. view' \in [Writers -> SUBSET Records]
  BY DEF TypeOK, Onward
<1>5. stored' \in [Files -> SUBSET Records]
  BY DEF TypeOK, Onward
<1>6. QED
  BY <1>1, <1>2, <1>3, <1>4, <1>5

\* What Onward does to each writer: the one that wrote is done, or at the
\* audit entry; the others stay.
LEMMA OnwardGoes ==
  ASSUME TypeOK, NEW w \in Writers, Onward(w)
  PROVE  /\ \A v \in Writers \ {w} : at'[v] = at[v] /\ op'[v] = op[v] /\ on'[v] = on[v] /\ view'[v] = view[v]
         /\ on'[w] = "audit" /\ view'[w] = {}
         /\ on[w] = "audit" => at'[w] = "idle"
         /\ on[w] # "audit" => at'[w] = Ready /\ op'[w] = op[w]
         /\ \A f \in Files : stored'[f] = stored[f] \cup (IF f = on[w] THEN {op[w]} ELSE {})
BY DEF TypeOK, Onward

LEMMA NewVersion ==
  ASSUME TypeOK, Bounded, Held, NEW w \in Writers, TakeVersion(w)
  PROVE  /\ version' \in [Records -> Nat]
         /\ Bounded'
<1> DEFINE n == Latest(VersionsOf(kind[op[w]], Contents("artifacts"))) + 1
<1>1. n \in Nat
  BY ContentsTyped, VersionsBounded DEF Files
<1>2. version' = [version EXCEPT ![op[w]] = n]
  BY DEF TakeVersion
<1>3. version' \in [Records -> Nat]
  BY <1>1, <1>2 DEF TypeOK
<1>4. PICK b \in Nat : \A i \in Records : version[i] <= b
  BY DEF Bounded
<1>5. b + n \in Nat /\ \A i \in Records : version'[i] <= b + n
  <2> HIDE DEF n
  <2>1. QED
    BY <1>1, <1>2, <1>4 DEF TypeOK
<1>6. QED
  BY <1>3, <1>5 DEF Bounded

LEMMA TypeStep ==
  ASSUME StoreAssumption, TypeOK, Bounded, Held, [Next]_vars PROVE TypeOK' /\ Bounded'
<1>1. ASSUME NEW w \in Writers, NEW k \in Kinds, NEW f \in Files, NEW s \in Firsts,
            NEW i \in Records, BeginWith(w, k, f, s, i)
     PROVE TypeOK' /\ Bounded'
  <2>1. overlapped' \subseteq Records
    BY <1>1 DEF TypeOK, Held, BeginWith, Busy
  <2>2. kind' \in [Records -> Paths \cup {"unused", "decision"}]
    BY <1>1 DEF TypeOK, BeginWith, Kinds
  <2>3. QED
    BY <1>1, <2>1, <2>2 DEF TypeOK, Firsts, Bounded, BeginWith, store
<1>2. ASSUME NEW w \in Writers, TakeVersion(w) PROVE TypeOK' /\ Bounded'
  BY <1>2, NewVersion DEF TypeOK, TakeVersion, store, Ready
<1>3. ASSUME NEW w \in Writers, Insert(w) PROVE TypeOK' /\ Bounded'
  <2>1. file' \in [Files -> SUBSET Records]
    BY <1>3 DEF TypeOK, Held, Insert
  <2>2. op[w] \in Records
    BY <1>3 DEF Held, Insert
  <2>3. TypeOK'
    BY <1>3, <2>1, <2>2, OnwardTyped DEF TypeOK, Insert
  <2>4. QED
    BY <1>3, <2>3 DEF Bounded, Insert
<1>4. ASSUME NEW w \in Writers, ReadAll(w) PROVE TypeOK' /\ Bounded'
  BY <1>4, ContentsTyped DEF TypeOK, Files, NoRecord, Kinds, Firsts, Bounded, ReadAll, store
<1>5. ASSUME NEW w \in Writers, Open(w) PROVE TypeOK' /\ Bounded'
  BY <1>5 DEF TypeOK, Files, NoRecord, Kinds, Firsts, Bounded, StoreAssumption, Open, Free
<1>6. ASSUME NEW w \in Writers, Dump(w) PROVE TypeOK' /\ Bounded'
  <2>1. file' \in [Files -> SUBSET Records]
    BY <1>6 DEF TypeOK, Held, Dump
  <2>2. op[w] \in Records
    BY <1>6 DEF Held, Dump
  <2>3. torn' \subseteq Files
    BY <1>6 DEF TypeOK, Dump
  <2>4. TypeOK'
    BY <1>6, <2>1, <2>2, <2>3, OnwardTyped DEF TypeOK, Dump
  <2>5. QED
    BY <1>6, <2>4 DEF Bounded, Dump
<1>7. ASSUME NEW w \in Writers, Fails(w) PROVE TypeOK' /\ Bounded'
  BY <1>7 DEF TypeOK, Files, NoRecord, Kinds, Firsts, Bounded, StoreAssumption, Fails, store
<1>8. ASSUME UNCHANGED vars PROVE TypeOK' /\ Bounded'
  BY <1>8 DEF TypeOK, Files, NoRecord, Kinds, Firsts, Bounded, StoreAssumption, vars, store, writerVars
<1>9. QED
  BY <1>1, <1>2, <1>3, <1>4, <1>5, <1>6, <1>7, <1>8, BeginIsWith DEF Next, WriterStep

LEMMA HeldStep ==
  ASSUME TypeOK, Held, [Next]_vars PROVE Held'
<1>1. ASSUME NEW w \in Writers, NEW k \in Kinds, NEW f \in Files, NEW s \in Firsts,
            NEW i \in Records, BeginWith(w, k, f, s, i)
     PROVE Held'
  <2>1. \A v \in Writers : at'[v] # "idle" => op'[v] \in Records /\ kind'[op'[v]] # "unused"
    BY <1>1, StoreAssumption DEF TypeOK, Held, BeginWith, Kinds
  <2>2. \A v \in Writers \ {w} : at[v] # "idle" =>
          op[v] # i /\ op[v] \in overlapped' /\ i \in overlapped'
    BY <1>1 DEF Held, BeginWith, Busy
  <2>3. \A v, u \in Writers : v # u /\ at'[v] # "idle" /\ at'[u] # "idle" =>
          op'[v] # op'[u] /\ op'[v] \in overlapped'
    BY <1>1, <2>2 DEF TypeOK, Held, BeginWith
  <2>4. \A v \in Writers : at'[v] = "version" => on'[v] = "artifacts"
    BY <1>1 DEF TypeOK, Held, BeginWith
  <2>5. mode' = "sql" =>
          torn' = {} /\ \A v \in Writers : at'[v] \in {"idle", "version", "insert"}
    BY <1>1 DEF TypeOK, Held, BeginWith, store, Firsts
  <2>6. QED
    BY <2>1, <2>3, <2>4, <2>5 DEF Held
<1>2. ASSUME NEW w \in Writers, TakeVersion(w) PROVE Held'
  BY <1>2 DEF TypeOK, Held, TakeVersion, store, Ready, Free
<1>3. ASSUME NEW w \in Writers, Insert(w) PROVE Held'
  <2>1. Onward(w) /\ UNCHANGED <<kind, overlapped, mode, torn>>
    BY <1>3 DEF Insert
  <2>2. Ready # "version" /\ (mode = "sql" => Ready = "insert")
    BY DEF Ready
  <2>3. QED
    BY <2>1, <2>2, OnwardGoes, <1>3 DEF Held, Insert
<1>4. ASSUME NEW w \in Writers, ReadAll(w) PROVE Held'
  BY <1>4 DEF TypeOK, Held, ReadAll, store, Free
<1>5. ASSUME NEW w \in Writers, Open(w) PROVE Held'
  BY <1>5 DEF TypeOK, Held, Open, Free
<1>6. ASSUME NEW w \in Writers, Dump(w) PROVE Held'
  <2>1. Onward(w) /\ UNCHANGED <<kind, overlapped, mode>>
    BY <1>6 DEF Dump
  <2>2. Ready # "version" /\ mode # "sql"
    BY <1>6 DEF Ready, Held, Dump
  <2>3. QED
    BY <2>1, <2>2, OnwardGoes, <1>6 DEF Held, Dump
<1>7. ASSUME NEW w \in Writers, Fails(w) PROVE Held'
  BY <1>7 DEF TypeOK, Held, Fails, store
<1>8. ASSUME UNCHANGED vars PROVE Held'
  BY <1>8 DEF TypeOK, Held, vars, store, writerVars
<1>9. QED
  BY <1>1, <1>2, <1>3, <1>4, <1>5, <1>6, <1>7, <1>8, BeginIsWith DEF Next, WriterStep

LEMMA StoredStep ==
  ASSUME TypeOK, Held, Stored, [Next]_vars PROVE Stored'
<1>1. ASSUME NEW w \in Writers, NEW k \in Kinds, NEW f \in Files, NEW s \in Firsts,
            NEW i \in Records, BeginWith(w, k, f, s, i)
     PROVE Stored'
  <2>1. \A f_1 \in Files : i \notin stored[f_1]
    BY <1>1 DEF Stored, BeginWith
  <2>2. \A f_1 \in Files : \A i_1 \in stored[f_1] : kind'[i_1] # "unused"
    BY <1>1, <2>1 DEF TypeOK, Stored, BeginWith
  <2>3. view[w] = {}
    BY <1>1 DEF Stored, BeginWith
  <2>4. QED
    BY <1>1, <2>1, <2>2, <2>3 DEF TypeOK, Stored, BeginWith, store, Files
<1>2. ASSUME NEW w \in Writers, TakeVersion(w) PROVE Stored'
  BY <1>2 DEF TypeOK, Held, Stored, Files, TakeVersion, store, Ready, Free
<1>3. ASSUME NEW w \in Writers, Insert(w) PROVE Stored'
  BY <1>3 DEF TypeOK, Held, Stored, Files, Insert, Onward
<1>4. ASSUME NEW w \in Writers, ReadAll(w) PROVE Stored'
  BY <1>4 DEF TypeOK, Held, Stored, Files, ReadAll, Contents, store
<1>5. ASSUME NEW w \in Writers, Open(w) PROVE Stored'
  BY <1>5 DEF TypeOK, Held, Stored, Files, Open, Free
<1>6. ASSUME NEW w \in Writers, Dump(w) PROVE Stored'
  BY <1>6 DEF TypeOK, Held, Stored, Files, Dump, Onward
<1>7. ASSUME NEW w \in Writers, Fails(w) PROVE Stored'
  BY <1>7 DEF TypeOK, Held, Stored, Files, Fails, store
<1>8. ASSUME UNCHANGED vars PROVE Stored'
  BY <1>8 DEF TypeOK, Held, Stored, Files, vars, store, writerVars
<1>9. QED
  BY <1>1, <1>2, <1>3, <1>4, <1>5, <1>6, <1>7, <1>8, BeginIsWith DEF Next, WriterStep

Base == TypeOK /\ Bounded /\ Held /\ Stored

LEMMA InitBase == StoreAssumption /\ Init => Base
<1> SUFFICES ASSUME StoreAssumption, Init PROVE Base
  OBVIOUS
<1>1. TypeOK
  BY DEF StoreAssumption, Init, TypeOK, Files, NoRecord
<1>2. 0 \in Nat /\ \A i \in Records : version[i] <= 0
  BY DEF Init
<1>3. Bounded
  BY <1>2 DEF Bounded
<1>4. Held /\ Stored
  BY DEF Init, Held, Stored, Files
<1>5. QED
  BY <1>1, <1>3, <1>4 DEF Base

LEMMA BaseStep == StoreAssumption /\ Base /\ [Next]_vars => Base'
  BY TypeStep, HeldStep, StoredStep DEF Base

\* Type correctness of the writers, their records and the files.
THEOREM StoreTypeCorrect == Spec => []TypeOK
<1>1. Init => Base
  BY StoreAssumption, InitBase
<1>2. Base /\ [Next]_vars => Base'
  BY StoreAssumption, BaseStep
<1>3. Base => TypeOK
  BY DEF Base
<1>4. QED
  BY <1>1, <1>2, <1>3, PTL DEF Spec

-----------------------------------------------------------------------------
(* SQL keeps what it stores: a table is only ever inserted to.             *)

Tables == mode = "sql" => \A f \in Files : stored[f] \subseteq file[f]

LEMMA TablesStep ==
  ASSUME TypeOK, Held, Tables, [Next]_vars PROVE Tables'
<1>1. ASSUME NEW w \in Writers, NEW k \in Kinds, NEW f \in Files, NEW s \in Firsts,
            NEW i \in Records, BeginWith(w, k, f, s, i)
     PROVE Tables'
  BY <1>1 DEF Tables, TypeOK, Held, BeginWith, store
<1>2. ASSUME NEW w \in Writers, TakeVersion(w) PROVE Tables'
  BY <1>2 DEF Tables, TypeOK, Held, TakeVersion, store, Ready, Free
<1>3. ASSUME NEW w \in Writers, Insert(w) PROVE Tables'
  BY <1>3 DEF Tables, TypeOK, Held, Insert, Onward
<1>4. ASSUME NEW w \in Writers, ReadAll(w) PROVE Tables'
  BY <1>4 DEF Tables, TypeOK, Held, ReadAll, store, Free
<1>5. ASSUME NEW w \in Writers, Open(w) PROVE Tables'
  BY <1>5 DEF Tables, TypeOK, Held, Open, Free
<1>6. ASSUME NEW w \in Writers, Dump(w) PROVE Tables'
  BY <1>6 DEF Tables, TypeOK, Held, Dump, Onward
<1>7. ASSUME NEW w \in Writers, Fails(w) PROVE Tables'
  BY <1>7 DEF Tables, TypeOK, Held, Fails, store
<1>8. ASSUME UNCHANGED vars PROVE Tables'
  BY <1>8 DEF Tables, TypeOK, Held, vars, store, writerVars
<1>9. QED
  BY <1>1, <1>2, <1>3, <1>4, <1>5, <1>6, <1>7, <1>8, BeginIsWith DEF Next, WriterStep

-----------------------------------------------------------------------------
(* One JSON service loses only what overlaps, and one file for a failure.  *)

\* One writer at most has the file f open, only then is it torn, and a writer
\* that has read f has read all that was stored there without overlap.
LockedAt(f) ==
  /\ f \in torn => \E w \in Writers : at[w] = "dump" /\ on[w] = f
  /\ \A w \in Writers : at[w] = "dump" /\ on[w] = f => f \in torn
  /\ \A v, w \in Writers : at[v] = "dump" /\ at[w] = "dump" /\ on[v] = f /\ on[w] = f => v = w
ReadAt(f) ==
  /\ stored[f] \ overlapped \subseteq file[f]
  /\ \A w \in Writers :
       at[w] \in {"open", "dump"} /\ on[w] = f => stored[f] \ overlapped \subseteq view[w]

\* all files are sound but those where a writer has failed
SoundBut(F) ==
  /\ F \subseteq Files /\ IsFiniteSet(F) /\ Cardinality(F) <= faults
  /\ \A f \in Files \ F : LockedAt(f) /\ ReadAt(f)
Kept == shared => \E F \in SUBSET Files : SoundBut(F)

Locked == \A f \in Files : LockedAt(f)
Read == \A f \in Files : ReadAt(f)

\* before the first failure
LEMMA KeptFaultless == Kept /\ shared /\ faults = 0 => Locked /\ Read
<1> SUFFICES ASSUME Kept, shared, faults = 0 PROVE Locked /\ Read
  OBVIOUS
<1>1. PICK F \in SUBSET Files : SoundBut(F)
  BY DEF Kept
<1>2. Cardinality(F) \in Nat /\ Cardinality(F) <= 0
  BY <1>1, FS_CardinalityType DEF SoundBut
<1>3. F = {}
  BY <1>1, <1>2, FS_EmptySet DEF SoundBut
<1>4. QED
  BY <1>1, <1>3 DEF SoundBut, Locked, Read

LEMMA StaysFaultless ==
  ASSUME TypeOK, [Next]_vars
  PROVE  /\ faults' = 0 => faults = 0
         /\ shared' = shared /\ mode' = mode
         /\ overlapped \subseteq overlapped'
<1>1. ASSUME NEW w \in Writers, NEW k \in Kinds, NEW f \in Files, NEW s \in Firsts,
            NEW i \in Records, BeginWith(w, k, f, s, i)
     PROVE (faults' = 0 => faults = 0) /\ shared' = shared /\ mode' = mode /\ overlapped \subseteq overlapped'
  BY <1>1 DEF TypeOK, BeginWith, store
<1>2. ASSUME NEW w \in Writers, TakeVersion(w) PROVE (faults' = 0 => faults = 0) /\ shared' = shared /\ mode' = mode /\ overlapped \subseteq overlapped'
  BY <1>2 DEF TypeOK, TakeVersion, store, Ready, Free
<1>3. ASSUME NEW w \in Writers, Insert(w) PROVE (faults' = 0 => faults = 0) /\ shared' = shared /\ mode' = mode /\ overlapped \subseteq overlapped'
  BY <1>3 DEF TypeOK, Insert, Onward
<1>4. ASSUME NEW w \in Writers, ReadAll(w) PROVE (faults' = 0 => faults = 0) /\ shared' = shared /\ mode' = mode /\ overlapped \subseteq overlapped'
  BY <1>4 DEF TypeOK, ReadAll, store, Free
<1>5. ASSUME NEW w \in Writers, Open(w) PROVE (faults' = 0 => faults = 0) /\ shared' = shared /\ mode' = mode /\ overlapped \subseteq overlapped'
  BY <1>5 DEF TypeOK, Open, Free
<1>6. ASSUME NEW w \in Writers, Dump(w) PROVE (faults' = 0 => faults = 0) /\ shared' = shared /\ mode' = mode /\ overlapped \subseteq overlapped'
  BY <1>6 DEF TypeOK, Dump, Onward
<1>7. ASSUME NEW w \in Writers, Fails(w) PROVE (faults' = 0 => faults = 0) /\ shared' = shared /\ mode' = mode /\ overlapped \subseteq overlapped'
  BY <1>7 DEF TypeOK, Fails, store
<1>8. ASSUME UNCHANGED vars PROVE (faults' = 0 => faults = 0) /\ shared' = shared /\ mode' = mode /\ overlapped \subseteq overlapped'
  BY <1>8 DEF TypeOK, vars, store, writerVars
<1>9. QED
  BY <1>1, <1>2, <1>3, <1>4, <1>5, <1>6, <1>7, <1>8, BeginIsWith DEF Next, WriterStep

LEMMA OnlyFails ==
  ASSUME TypeOK, [Next]_vars
  PROVE  faults' = faults \/ \E w \in Writers : Fails(w)
BY DEF Next, WriterStep, StartArtifact, StartDecision, Begin, TakeVersion, Insert, ReadAll, Open,
       Dump, vars, store, writerVars

LEMMA LockedStep ==
  ASSUME TypeOK, Held, shared, NEW f \in Files, LockedAt(f), faults' = faults, [Next]_vars
  PROVE  LockedAt(f)'
<1>1. ASSUME NEW w \in Writers, NEW k \in Kinds, NEW g \in Files, NEW s \in Firsts,
            NEW i \in Records, BeginWith(w, k, g, s, i)
     PROVE LockedAt(f)'
  BY <1>1 DEF TypeOK, LockedAt, BeginWith, store, Firsts
<1>2. ASSUME NEW w \in Writers, TakeVersion(w) PROVE LockedAt(f)'
  BY <1>2 DEF TypeOK, LockedAt, TakeVersion, store, Ready, Free
<1>3. ASSUME NEW w \in Writers, Insert(w) PROVE LockedAt(f)'
  <2>1. Onward(w) /\ at[w] = "insert" /\ torn' = torn
    BY <1>3 DEF Insert
  <2>2. Ready # "dump"
    BY DEF Ready
  <2>3. QED
    BY <2>1, <2>2, OnwardGoes DEF LockedAt
<1>4. ASSUME NEW w \in Writers, ReadAll(w) PROVE LockedAt(f)'
  BY <1>4 DEF TypeOK, LockedAt, ReadAll, store, Free
<1>5. ASSUME NEW w \in Writers, Open(w) PROVE LockedAt(f)'
  BY <1>5 DEF TypeOK, LockedAt, Open, Free
<1>6. ASSUME NEW w \in Writers, Dump(w) PROVE LockedAt(f)'
  <2>1. Onward(w) /\ at[w] = "dump"
    BY <1>6 DEF Dump
  <2>2. Ready # "dump"
    BY DEF Ready
  <2>3. f # on[w] => (f \in torn' <=> f \in torn)
    BY <1>6 DEF Dump
  <2>4. f = on[w] => f \notin torn'
    BY <1>6, <2>1 DEF Dump, LockedAt
  <2>5. QED
    BY <2>1, <2>2, <2>3, <2>4, OnwardGoes DEF LockedAt
<1>7. ASSUME NEW w \in Writers, Fails(w) PROVE LockedAt(f)'
  BY <1>7 DEF TypeOK, Fails
<1>8. ASSUME UNCHANGED vars PROVE LockedAt(f)'
  BY <1>8 DEF TypeOK, LockedAt, vars, store, writerVars
<1>9. QED
  BY <1>1, <1>2, <1>3, <1>4, <1>5, <1>6, <1>7, <1>8, BeginIsWith DEF Next, WriterStep

\* what is added to the file and to the record of writes keeps what was read
LEMMA ReadOnward ==
  ASSUME TypeOK, Held, NEW f \in Files, ReadAt(f), NEW w \in Writers, at[w] # "idle", Onward(w),
         overlapped' = overlapped, stored'[f] \ overlapped' \subseteq file'[f]
  PROVE  ReadAt(f)'
<1>1. Ready \notin {"open", "dump"}
  BY DEF Ready
<1>2. ASSUME NEW v \in Writers, at'[v] \in {"open", "dump"}, on'[v] = f
      PROVE  stored'[f] \ overlapped' \subseteq view'[v]
  <2>1. v # w /\ at[v] \in {"open", "dump"} /\ on[v] = f /\ view'[v] = view[v]
    BY <1>1, <1>2, OnwardGoes
  <2>2. op[w] \in overlapped
    BY <2>1 DEF Held
  <2>3. QED
    BY <2>1, <2>2, OnwardGoes DEF ReadAt, TypeOK
<1>3. QED
  BY <1>2 DEF ReadAt

LEMMA ReadStep ==
  ASSUME TypeOK, Held, Stored, shared, NEW f \in Files, LockedAt(f), ReadAt(f), faults' = faults,
         [Next]_vars
  PROVE  ReadAt(f)'
<1>1. ASSUME NEW w \in Writers, NEW k \in Kinds, NEW g \in Files, NEW s \in Firsts,
            NEW i \in Records, BeginWith(w, k, g, s, i)
     PROVE ReadAt(f)'
  BY <1>1, StaysFaultless DEF TypeOK, ReadAt, BeginWith, store, Firsts
<1>2. ASSUME NEW w \in Writers, TakeVersion(w) PROVE ReadAt(f)'
  BY <1>2 DEF TypeOK, ReadAt, TakeVersion, store, Ready, Free
<1>3. ASSUME NEW w \in Writers, Insert(w) PROVE ReadAt(f)'
  <2>1. Onward(w) /\ at[w] = "insert" /\ overlapped' = overlapped
    BY <1>3 DEF Insert
  <2>2. file'[f] = file[f] \cup (IF f = on[w] THEN {op[w]} ELSE {})
    BY <1>3 DEF TypeOK, Insert
  <2>3. stored'[f] \ overlapped' \subseteq file'[f]
    BY <2>1, <2>2, OnwardGoes DEF ReadAt
  <2>4. QED
    BY <2>1, <2>3, ReadOnward
<1>4. ASSUME NEW w \in Writers, ReadAll(w) PROVE ReadAt(f)'
  <2>1. on[w] = f => f \notin torn
    BY <1>4 DEF ReadAll, Free, LockedAt
  <2>2. QED
    BY <1>4, <2>1 DEF TypeOK, ReadAt, ReadAll, Contents, store
<1>5. ASSUME NEW w \in Writers, Open(w) PROVE ReadAt(f)'
  BY <1>5 DEF TypeOK, ReadAt, Open, Free
<1>6. ASSUME NEW w \in Writers, Dump(w) PROVE ReadAt(f)'
  <2>1. Onward(w) /\ at[w] = "dump" /\ overlapped' = overlapped
    BY <1>6 DEF Dump
  <2>2. file'[f] = IF f = on[w] THEN view[w] \cup {op[w]} ELSE file[f]
    BY <1>6 DEF TypeOK, Dump
  <2>3. stored'[f] \ overlapped' \subseteq file'[f]
    BY <2>1, <2>2, OnwardGoes DEF ReadAt
  <2>4. QED
    BY <2>1, <2>3, ReadOnward
<1>7. ASSUME NEW w \in Writers, Fails(w) PROVE ReadAt(f)'
  BY <1>7 DEF TypeOK, Fails
<1>8. ASSUME UNCHANGED vars PROVE ReadAt(f)'
  BY <1>8 DEF TypeOK, ReadAt, vars, store, writerVars
<1>9. QED
  BY <1>1, <1>2, <1>3, <1>4, <1>5, <1>6, <1>7, <1>8, BeginIsWith DEF Next, WriterStep

\* a failure harms the file its writer is at, and no other
LEMMA SoundFails ==
  ASSUME TypeOK, NEW w \in Writers, Fails(w), NEW f \in Files, f # on[w], LockedAt(f), ReadAt(f)
  PROVE  LockedAt(f)' /\ ReadAt(f)'
<1>1. /\ UNCHANGED <<file, torn, stored, overlapped, on>>
      /\ \A v \in Writers : on[v] = f => v # w /\ at'[v] = at[v] /\ view'[v] = view[v]
  BY DEF Fails, store, TypeOK
<1>2. QED
  BY <1>1 DEF LockedAt, ReadAt

LEMMA KeptStep ==
  ASSUME Base, Kept, [Next]_vars PROVE Kept'
<1>1. SUFFICES ASSUME shared' PROVE \E F \in SUBSET Files : SoundBut(F)'
  BY DEF Kept
<1>2. shared /\ TypeOK /\ Held /\ Stored
  BY <1>1, StaysFaultless DEF Base
<1>3. PICK F \in SUBSET Files : SoundBut(F)
  BY <1>2 DEF Kept
<1>4. CASE faults' = faults
  <2>1. SoundBut(F)'
    BY <1>2, <1>3, <1>4, LockedStep, ReadStep DEF SoundBut
  <2>2. QED
    BY <2>1
<1>5. CASE \E w \in Writers : Fails(w)
  <2>1. PICK w \in Writers : Fails(w)
    BY <1>5
  <2>a. F \cup {on[w]} \subseteq Files
    BY <1>2, <1>3, <2>1 DEF TypeOK, Fails, SoundBut
  <2>b. PICK G \in SUBSET Files : G = F \cup {on[w]}
    BY <2>a
  <2>2. faults' = faults + 1 /\ faults \in Nat
    BY <1>2, <2>1 DEF TypeOK, Fails
  <2>3. IsFiniteSet(G) /\ Cardinality(G) <= Cardinality(F) + 1 /\ Cardinality(F) \in Nat
    <3>1. IsFiniteSet(F) /\ Cardinality(F) \in Nat
      BY <1>3, FS_CardinalityType DEF SoundBut
    <3>2. QED
      BY <2>b, <3>1, FS_AddElement
  <2>4. Cardinality(G) \in Nat
    BY <2>3, FS_CardinalityType
  <2>5. Cardinality(G) <= faults'
    BY <1>3, <2>2, <2>3, <2>4 DEF SoundBut
  <2>6. \A f \in Files \ G : LockedAt(f)' /\ ReadAt(f)'
    BY <1>2, <1>3, <2>1, <2>b, SoundFails DEF SoundBut
  <2>7. SoundBut(G)'
    BY <2>3, <2>5, <2>6 DEF SoundBut
  <2>8. QED
    BY <2>7
<1>6. QED
  BY <1>2, <1>4, <1>5, OnlyFails

LEMMA InitKept == Init => Kept
<1> SUFFICES ASSUME Init PROVE SoundBut({})
  BY DEF Kept
<1>1. QED
  BY FS_EmptySet DEF Init, SoundBut, LockedAt, ReadAt

-----------------------------------------------------------------------------
(* In SQL a failure costs one audit entry.                                 *)

\* the records without an audit entry have a writer at work or have lost it to
\* one of the failures
AuditedBut(L) ==
  /\ IsFiniteSet(L) /\ Cardinality(L) <= faults
  /\ \A i \in Unaudited : i \in L \/ \E w \in Writers : at[w] # "idle" /\ op[w] = i
Owed == mode = "sql" => \E L \in SUBSET Records : AuditedBut(L)

LEMMA OwedStays ==
  ASSUME TypeOK, Held, mode = "sql", NEW L \in SUBSET Records, AuditedBut(L), faults' = faults,
         [Next]_vars
  PROVE  AuditedBut(L)'
<1>1. SUFFICES ASSUME NEW i \in Unaudited', i \notin L
               PROVE  \E w \in Writers : at'[w] # "idle" /\ op'[w] = i
  BY DEF AuditedBut
<1>2. ASSUME NEW w \in Writers, NEW k \in Kinds, NEW f \in Files, NEW s \in Firsts,
            NEW j \in Records, BeginWith(w, k, f, s, j)
     PROVE \E v \in Writers : at'[v] # "idle" /\ op'[v] = i
  <2>1. i \in Unaudited
    BY <1>1, <1>2 DEF BeginWith, Unaudited, store
  <2>2. PICK v \in Writers : at[v] # "idle" /\ op[v] = i
    BY <1>1, <2>1 DEF AuditedBut
  <2>3. v # w
    BY <1>2, <2>2 DEF BeginWith
  <2>4. QED
    BY <1>2, <2>2, <2>3 DEF BeginWith, TypeOK
<1>3. ASSUME NEW w \in Writers, TakeVersion(w)
     PROVE \E v \in Writers : at'[v] # "idle" /\ op'[v] = i
  <2>1. i \in Unaudited
    BY <1>1, <1>3 DEF TakeVersion, Unaudited, store
  <2>2. PICK v \in Writers : at[v] # "idle" /\ op[v] = i
    BY <1>1, <2>1 DEF AuditedBut
  <2>3. QED
    BY <1>3, <2>2 DEF TakeVersion, TypeOK, Ready
<1>4. ASSUME NEW w \in Writers, Insert(w)
     PROVE \E v \in Writers : at'[v] # "idle" /\ op'[v] = i
  <2>1. Onward(w) /\ at[w] = "insert" /\ Ready # "idle"
    BY <1>4 DEF Insert, Ready
  <2>2. \A f \in Files : file'[f] = file[f] \cup (IF f = on[w] THEN {op[w]} ELSE {})
    BY <1>4 DEF TypeOK, Insert
  <2>3. CASE on[w] # "audit"
    <3>1. i \in Unaudited \/ i = op[w]
      BY <1>1, <2>2, <2>3 DEF Unaudited, Files
    <3>2. CASE i = op[w]
      BY <2>1, <2>3, <3>2, OnwardGoes
    <3>3. CASE i \in Unaudited
      <4>1. PICK v \in Writers : at[v] # "idle" /\ op[v] = i
        BY <1>1, <3>3 DEF AuditedBut
      <4>2. QED
        BY <2>1, <2>3, <4>1, OnwardGoes
    <3>4. QED
      BY <3>1, <3>2, <3>3
  <2>4. CASE on[w] = "audit"
    <3>1. i \in Unaudited /\ i # op[w]
      BY <1>1, <2>2, <2>4 DEF Unaudited, Files
    <3>2. PICK v \in Writers : at[v] # "idle" /\ op[v] = i
      BY <1>1, <3>1 DEF AuditedBut
    <3>3. v # w
      BY <3>1, <3>2
    <3>4. QED
      BY <2>1, <3>2, <3>3, OnwardGoes
  <2>5. QED
    BY <2>3, <2>4
<1>5. ASSUME NEW w \in Writers, ReadAll(w) \/ Open(w) \/ Dump(w)
     PROVE FALSE
  BY <1>5 DEF Held, ReadAll, Open, Dump
<1>6. ASSUME NEW w \in Writers, Fails(w) PROVE FALSE
  BY <1>6 DEF TypeOK, Fails
<1>7. ASSUME UNCHANGED vars
     PROVE \E v \in Writers : at'[v] # "idle" /\ op'[v] = i
  BY <1>1, <1>7 DEF vars, store, writerVars, Unaudited, AuditedBut
<1>8. QED
  BY <1>2, <1>3, <1>4, <1>5, <1>6, <1>7, BeginIsWith DEF Next, WriterStep

LEMMA OwedStep ==
  ASSUME Base, Owed, [Next]_vars PROVE Owed'
<1>1. SUFFICES ASSUME mode' = "sql" PROVE \E L \in SUBSET Records : AuditedBut(L)'
  BY DEF Owed
<1>2. mode = "sql" /\ TypeOK /\ Held
  BY <1>1, StaysFaultless DEF Base
<1>3. PICK L \in SUBSET Records : AuditedBut(L)
  BY <1>2 DEF Owed
<1>4. CASE faults' = faults
  BY <1>2, <1>3, <1>4, OwedStays
<1>5. CASE \E w \in Writers : Fails(w)
  <2>1. PICK w \in Writers : Fails(w)
    BY <1>5
  <2>a. op[w] \in Records
    BY <1>2, <2>1 DEF Held, Fails
  <2>b. PICK M \in SUBSET Records : M = L \cup {op[w]}
    BY <2>a
  <2>2. faults' = faults + 1 /\ faults \in Nat
    BY <1>2, <2>1 DEF TypeOK, Fails
  <2>3. IsFiniteSet(M) /\ Cardinality(M) <= Cardinality(L) + 1 /\ Cardinality(L) \in Nat
    <3>1. IsFiniteSet(L) /\ Cardinality(L) \in Nat
      BY <1>3, FS_CardinalityType DEF AuditedBut
    <3>2. QED
      BY <2>b, <3>1, FS_AddElement
  <2>4. Cardinality(M) \in Nat
    BY <2>3, FS_CardinalityType
  <2>5. Cardinality(M) <= faults'
    BY <1>3, <2>2, <2>3, <2>4 DEF AuditedBut
  <2>6. ASSUME NEW i \in Unaudited', i \notin M
        PROVE  \E v \in Writers : at'[v] # "idle" /\ op'[v] = i
    <3>1. i \in Unaudited
      BY <2>1, <2>6 DEF Fails, store, Unaudited
    <3>2. PICK v \in Writers : at[v] # "idle" /\ op[v] = i
      BY <1>3, <2>6, <2>b, <3>1 DEF AuditedBut
    <3>3. v # w
      BY <2>6, <2>b, <3>2
    <3>4. QED
      BY <1>2, <2>1, <3>2, <3>3 DEF Fails, TypeOK
  <2>7. AuditedBut(M)'
    BY <2>3, <2>5, <2>6 DEF AuditedBut
  <2>8. QED
    BY <2>7
<1>6. QED
  BY <1>2, <1>4, <1>5, OnlyFails

\* a part of few is few
LEMMA MissingFew ==
  ASSUME NEW S, NEW T, S \subseteq T, IsFiniteSet(T), NEW n \in Nat, Cardinality(T) <= n
  PROVE  Cardinality(S) <= n
<1>1. IsFiniteSet(S) /\ Cardinality(S) <= Cardinality(T)
  BY FS_Subset
<1>2. Cardinality(S) \in Nat /\ Cardinality(T) \in Nat
  BY <1>1, FS_CardinalityType
<1>3. QED
  BY <1>1, <1>2

\* What is missing in the brain was lost to an overlap or to a failure: SQL
\* loses nothing it has stored and one audit entry for a failure; one JSON
\* service loses records that overlap, as between the read and the write of one
\* set no other can be stored, and one file for a failure.
THEOREM LossIsExplained == Spec => []LossExplained
<1> DEFINE Inv == Base /\ Kept /\ Owed /\ Tables
<1>1. Init => Inv
  <2> SUFFICES ASSUME Init PROVE Inv
    OBVIOUS
  <2>1. AuditedBut({})
    BY FS_EmptySet DEF Init, AuditedBut, Unaudited, Files
  <2>2. Owed
    BY <2>1 DEF Owed
  <2>3. QED
    BY <2>2, StoreAssumption, InitBase, InitKept DEF Init, Tables
<1>2. Inv /\ [Next]_vars => Inv'
  BY StoreAssumption, BaseStep, KeptStep, OwedStep, TablesStep DEF Base
<1>3. Inv => LossExplained
  <2> SUFFICES ASSUME Inv PROVE LossExplained
    OBVIOUS
  <2>0. faults \in Nat
    BY DEF Base, TypeOK
  <2>1. ASSUME mode = "sql" PROVE Cardinality(Abandoned) <= faults
    <3>1. PICK L \in SUBSET Records : AuditedBut(L)
      BY <2>1 DEF Owed
    <3>2. Abandoned \subseteq L
      BY <3>1 DEF Abandoned, AuditedBut, Busy
    <3>3. IsFiniteSet(L) /\ Cardinality(L) <= faults
      BY <3>1 DEF AuditedBut
    <3>4. QED
      BY <3>2, <3>3, <2>0, MissingFew
  <2>2. ASSUME shared PROVE Cardinality(Damaged) <= faults
    <3>1. PICK F \in SUBSET Files : SoundBut(F)
      BY <2>2 DEF Kept
    <3>2. Damaged \subseteq F
      BY <3>1 DEF Damaged, SoundBut, ReadAt
    <3>3. IsFiniteSet(F) /\ Cardinality(F) <= faults
      BY <3>1 DEF SoundBut
    <3>4. QED
      BY <3>2, <3>3, <2>0, MissingFew
  <2>3. QED
    BY <2>1, <2>2 DEF Tables, LossExplained
<1>4. QED
  BY <1>1, <1>2, <1>3, PTL DEF Spec

-----------------------------------------------------------------------------
(* Without overlap and failure nothing is lost, in either mode.            *)

Quiet == overlapped = {} /\ faults = 0

\* The writer under way, if there is one, holds what is not yet in its place.
Orderly ==
  /\ file = stored
  /\ \A f \in torn : \E w \in Writers : at[w] = "dump" /\ on[w] = f
  /\ \A w \in Writers : at[w] = "dump" => on[w] \in torn
  /\ \A w \in Writers : at[w] \in {"open", "dump"} => view[w] = file[on[w]]
Audited ==
  \A i \in Records :
    i \in file["artifacts"] \cup file["decisions"] <=>
      \/ i \in file["audit"]
      \/ \E w \in Writers : at[w] # "idle" /\ on[w] = "audit" /\ op[w] = i
Alone == Quiet => Orderly /\ Audited

LEMMA OneAtATime ==
  ASSUME Held, Quiet, NEW v \in Writers, NEW w \in Writers, at[v] # "idle", at[w] # "idle"
  PROVE  v = w
BY DEF Held, Quiet

LEMMA QuietReads ==
  ASSUME TypeOK, Held, Orderly, Quiet, NEW w \in Writers, at[w] \in {"version", "read"}
  PROVE  torn = {}
BY OneAtATime DEF Orderly

LEMMA QuietWas ==
  ASSUME TypeOK, [Next]_vars, Quiet' PROVE Quiet
BY StaysFaultless DEF Quiet

\* What a write does when nothing disturbs it.
LEMMA QuietWrite ==
  ASSUME TypeOK, Held, Orderly, Quiet, NEW w \in Writers, Insert(w) \/ Dump(w)
  PROVE  /\ \A f \in Files : file'[f] = file[f] \cup (IF f = on[w] THEN {op[w]} ELSE {})
         /\ file' = stored'
         /\ torn' = {}
         /\ Onward(w) /\ UNCHANGED <<kind, version, overlapped, faults, mode>>
         /\ at[w] # "idle" /\ on[w] \in Files /\ op[w] \in Records
         /\ \A v \in Writers : at[v] # "idle" => v = w
<1>1. \A v \in Writers : at[v] # "idle" => v = w
  BY OneAtATime DEF Insert, Dump
<1>2. on[w] \in Files /\ op[w] \in Records
  BY DEF TypeOK, Held, Insert, Dump
<1>3. CASE Insert(w)
  <2>1. torn = {}
    BY <1>1, <1>3 DEF Orderly, Insert
  <2>2. file' = stored'
    BY <1>3 DEF Orderly, Insert, Onward, TypeOK
  <2>3. QED
    BY <1>1, <1>2, <1>3, <2>1, <2>2 DEF Insert, TypeOK
<1>4. CASE Dump(w)
  <2>1. view[w] = file[on[w]] /\ torn = {on[w]}
    BY <1>1, <1>4 DEF Orderly, Dump
  <2>2. file' = [file EXCEPT ![on[w]] = file[on[w]] \cup {op[w]}]
    BY <1>4, <2>1 DEF Dump
  <2>3. stored' = [stored EXCEPT ![on[w]] = stored[on[w]] \cup {op[w]}]
    BY <1>4 DEF Dump, Onward
  <2>4. file' = stored'
    BY <2>2, <2>3 DEF Orderly
  <2>5. torn' = {}
    BY <1>4, <2>1 DEF Dump
  <2>6. QED
    BY <1>1, <1>2, <1>4, <2>2, <2>4, <2>5 DEF Dump, TypeOK
<1>5. QED
  BY <1>3, <1>4

LEMMA OrderlyStep ==
  ASSUME TypeOK, Held, Stored, Orderly, Quiet, Quiet', [Next]_vars PROVE Orderly'
<1>1. ASSUME NEW w \in Writers, NEW k \in Kinds, NEW f \in Files, NEW s \in Firsts,
            NEW i \in Records, BeginWith(w, k, f, s, i)
     PROVE Orderly'
  <2>1. at[w] = "idle" /\ at'[w] \notin {"open", "dump"}
    BY <1>1 DEF TypeOK, BeginWith, Firsts
  <2>2. QED
    BY <1>1, <2>1 DEF TypeOK, Orderly, BeginWith, store
<1>2. ASSUME NEW w \in Writers, TakeVersion(w) PROVE Orderly'
  BY <1>2 DEF TypeOK, Orderly, TakeVersion, store, Ready, Free
<1>3. ASSUME NEW w \in Writers, Insert(w) PROVE Orderly'
  <2>1. file' = stored' /\ torn' = {} /\ Onward(w) /\ \A v \in Writers : at[v] # "idle" => v = w
    BY <1>3, QuietWrite
  <2>2. Ready \notin {"open", "dump"}
    BY DEF Ready
  <2>3. \A v \in Writers : at'[v] \notin {"open", "dump"}
    BY <2>1, <2>2, OnwardGoes
  <2>4. QED
    BY <2>1, <2>3 DEF Orderly
<1>4. ASSUME NEW w \in Writers, ReadAll(w) PROVE Orderly'
  <2>1. torn = {}
    BY <1>4, QuietReads DEF ReadAll
  <2>2. QED
    BY <1>4, <2>1 DEF TypeOK, Orderly, ReadAll, Contents, store
<1>5. ASSUME NEW w \in Writers, Open(w) PROVE Orderly'
  <2>1. torn' = torn \cup {on[w]}
    BY <1>5 DEF Open
  <2>2. QED
    BY <1>5, <2>1 DEF TypeOK, Orderly, Open
<1>6. ASSUME NEW w \in Writers, Dump(w) PROVE Orderly'
  <2>1. file' = stored' /\ torn' = {} /\ Onward(w) /\ \A v \in Writers : at[v] # "idle" => v = w
    BY <1>6, QuietWrite
  <2>2. Ready \notin {"open", "dump"}
    BY DEF Ready
  <2>3. \A v \in Writers : at'[v] \notin {"open", "dump"}
    BY <2>1, <2>2, OnwardGoes
  <2>4. QED
    BY <2>1, <2>3 DEF Orderly
<1>7. ASSUME NEW w \in Writers, Fails(w) PROVE Orderly'
  BY <1>7 DEF TypeOK, Quiet, Fails
<1>8. ASSUME UNCHANGED vars PROVE Orderly'
  BY <1>8 DEF TypeOK, Orderly, vars, store, writerVars
<1>9. QED
  BY <1>1, <1>2, <1>3, <1>4, <1>5, <1>6, <1>7, <1>8, BeginIsWith DEF Next, WriterStep

LEMMA AuditedStep ==
  ASSUME TypeOK, Held, Stored, Orderly, Audited, Quiet, Quiet', [Next]_vars PROVE Audited'
<1>1. ASSUME NEW w \in Writers, NEW k \in Kinds, NEW f \in Files, NEW s \in Firsts,
            NEW i \in Records, BeginWith(w, k, f, s, i)
     PROVE Audited'
  BY <1>1 DEF TypeOK, Audited, BeginWith, store
<1>2. ASSUME NEW w \in Writers, TakeVersion(w) PROVE Audited'
  BY <1>2 DEF TypeOK, Audited, TakeVersion, store, Ready, Free
<1>3. ASSUME NEW w \in Writers, Insert(w) PROVE Audited'
  <2>1. /\ \A f \in Files : file'[f] = file[f] \cup (IF f = on[w] THEN {op[w]} ELSE {})
        /\ Onward(w) /\ at[w] # "idle" /\ on[w] \in Files /\ op[w] \in Records
        /\ \A v \in Writers : at[v] # "idle" => v = w
    BY <1>3, QuietWrite
  <2>2. Ready # "idle"
    BY DEF Ready
  <2>3. \A v \in Writers \ {w} : at'[v] = "idle"
    BY <2>1, OnwardGoes DEF TypeOK
  <2>4. CASE on[w] = "audit"
    <3>1. at'[w] = "idle"
      BY <2>1, <2>4, OnwardGoes
    <3>2. file'["artifacts"] = file["artifacts"] /\ file'["decisions"] = file["decisions"]
          /\ file'["audit"] = file["audit"] \cup {op[w]}
      BY <2>1, <2>4 DEF Files
    <3>3. QED
      BY <2>1, <2>3, <2>4, <3>1, <3>2 DEF Audited
  <2>5. CASE on[w] # "audit"
    <3>1. at'[w] # "idle" /\ op'[w] = op[w] /\ on'[w] = "audit"
      BY <2>1, <2>2, <2>5, OnwardGoes
    <3>2. file'["artifacts"] \cup file'["decisions"] = file["artifacts"] \cup file["decisions"] \cup {op[w]}
          /\ file'["audit"] = file["audit"]
      BY <2>1, <2>5 DEF Files
    <3>3. QED
      BY <2>1, <2>3, <2>5, <3>1, <3>2 DEF Audited
  <2>6. QED
    BY <2>4, <2>5
<1>4. ASSUME NEW w \in Writers, ReadAll(w) PROVE Audited'
  BY <1>4 DEF TypeOK, Audited, ReadAll, store, Free
<1>5. ASSUME NEW w \in Writers, Open(w) PROVE Audited'
  BY <1>5 DEF TypeOK, Audited, Open, Free
<1>6. ASSUME NEW w \in Writers, Dump(w) PROVE Audited'
  <2>1. /\ \A f \in Files : file'[f] = file[f] \cup (IF f = on[w] THEN {op[w]} ELSE {})
        /\ Onward(w) /\ at[w] # "idle" /\ on[w] \in Files /\ op[w] \in Records
        /\ \A v \in Writers : at[v] # "idle" => v = w
    BY <1>6, QuietWrite
  <2>2. Ready # "idle"
    BY DEF Ready
  <2>3. \A v \in Writers \ {w} : at'[v] = "idle"
    BY <2>1, OnwardGoes DEF TypeOK
  <2>4. CASE on[w] = "audit"
    <3>1. at'[w] = "idle"
      BY <2>1, <2>4, OnwardGoes
    <3>2. file'["artifacts"] = file["artifacts"] /\ file'["decisions"] = file["decisions"]
          /\ file'["audit"] = file["audit"] \cup {op[w]}
      BY <2>1, <2>4 DEF Files
    <3>3. QED
      BY <2>1, <2>3, <2>4, <3>1, <3>2 DEF Audited
  <2>5. CASE on[w] # "audit"
    <3>1. at'[w] # "idle" /\ op'[w] = op[w] /\ on'[w] = "audit"
      BY <2>1, <2>2, <2>5, OnwardGoes
    <3>2. file'["artifacts"] \cup file'["decisions"] = file["artifacts"] \cup file["decisions"] \cup {op[w]}
          /\ file'["audit"] = file["audit"]
      BY <2>1, <2>5 DEF Files
    <3>3. QED
      BY <2>1, <2>3, <2>5, <3>1, <3>2 DEF Audited
  <2>6. QED
    BY <2>4, <2>5
<1>7. ASSUME NEW w \in Writers, Fails(w) PROVE Audited'
  BY <1>7 DEF TypeOK, Quiet, Fails
<1>8. ASSUME UNCHANGED vars PROVE Audited'
  BY <1>8 DEF TypeOK, Audited, vars, store, writerVars
<1>9. QED
  BY <1>1, <1>2, <1>3, <1>4, <1>5, <1>6, <1>7, <1>8, BeginIsWith DEF Next, WriterStep

LEMMA AloneStep ==
  ASSUME Base, Alone, [Next]_vars PROVE Alone'
<1>1. SUFFICES ASSUME Quiet' PROVE Orderly' /\ Audited'
  BY DEF Alone
<1>2. Quiet /\ Orderly /\ Audited
  BY <1>1, QuietWas DEF Base, Alone
<1>3. QED
  BY <1>1, <1>2, OrderlyStep, AuditedStep DEF Base

LEMMA InitAlone == Init => Alone
  BY DEF Init, Alone, Orderly, Audited, Files

-----------------------------------------------------------------------------
(* While nothing is lost, versions have no gap.                            *)

Exact == mode = "sql" \/ Quiet

Gapless ==
  \A k \in Kinds \cup {"unused"} : \E n \in Nat : VersionsOf(k, file["artifacts"]) = 1..n
\* A version about to be stored is the first or follows one that is there.
Follows(w) ==
  /\ version[op[w]] > 0
  /\ version[op[w]] = 1 \/ version[op[w]] - 1 \in VersionsOf(kind[op[w]], file["artifacts"])
Claims ==
  \A w \in Writers :
    at[w] \in {"insert", "read", "open", "dump"} /\ on[w] = "artifacts" => Follows(w)
Numbered == Exact => Gapless /\ Claims

\* The versions on file after a step.
NextVersions(k) == {version'[i] : i \in {j \in file'["artifacts"] : kind'[j] = k}}

LEMMA VersionsPrimed ==
  /\ Gapless' <=> \A k \in Kinds \cup {"unused"} : \E n \in Nat : NextVersions(k) = 1..n
  /\ \A v \in Writers : Follows(v)' <=>
       /\ version'[op'[v]] > 0
       /\ version'[op'[v]] = 1 \/ version'[op'[v]] - 1 \in NextVersions(kind'[op'[v]])
BY DEF Gapless, Follows, VersionsOf, NextVersions

\* Nothing but an artifact's insert disturbs the versions on file.
LEMMA SameVersions ==
  ASSUME file'["artifacts"] = file["artifacts"],
         \A i \in file["artifacts"] : kind'[i] = kind[i] /\ version'[i] = version[i]
  PROVE  /\ Gapless => Gapless'
         /\ \A k \in Kinds \cup {"unused"} : NextVersions(k) = VersionsOf(k, file["artifacts"])
<1>1. ASSUME NEW k \in Kinds \cup {"unused"}
      PROVE  NextVersions(k) = VersionsOf(k, file["artifacts"])
  BY DEF VersionsOf, NextVersions
<1>2. QED
  BY <1>1, VersionsPrimed DEF Gapless

LEMMA ExactWrite ==
  ASSUME TypeOK, Held, Orderly \/ mode = "sql", Exact, NEW w \in Writers, Insert(w) \/ Dump(w)
  PROVE  /\ \A f \in Files : file'[f] = file[f] \cup (IF f = on[w] THEN {op[w]} ELSE {})
         /\ Onward(w) /\ UNCHANGED <<kind, version>>
         /\ at[w] \in {"insert", "dump"} /\ on[w] \in Files /\ op[w] \in Records
<1>1. CASE mode = "sql"
  BY <1>1 DEF TypeOK, Held, Insert, Dump
<1>2. CASE mode # "sql"
  <2>1. at[w] \in {"insert", "dump"}
    BY DEF Insert, Dump
  <2>2. QED
    BY <1>2, <2>1, QuietWrite DEF Exact
<1>3. QED
  BY <1>1, <1>2

LEMMA NumberedWrite ==
  ASSUME Base, Orderly \/ mode = "sql", Gapless, Claims, Exact, NEW w \in Writers, Insert(w) \/ Dump(w)
  PROVE  Gapless' /\ Claims'
<1> USE DEF Base
<1>1. /\ \A f \in Files : file'[f] = file[f] \cup (IF f = on[w] THEN {op[w]} ELSE {})
      /\ Onward(w) /\ UNCHANGED <<kind, version>>
      /\ at[w] \in {"insert", "dump"} /\ on[w] \in Files /\ op[w] \in Records
  BY ExactWrite
<1>2. kind[op[w]] \in Kinds \cup {"unused"}
  BY <1>1 DEF TypeOK, Kinds
<1>3. ASSUME NEW k \in Kinds \cup {"unused"}
      PROVE  NextVersions(k) =
               VersionsOf(k, file["artifacts"]) \cup
                 (IF on[w] = "artifacts" /\ kind[op[w]] = k THEN {version[op[w]]} ELSE {})
  <2>1. file'["artifacts"] = file["artifacts"] \cup (IF on[w] = "artifacts" THEN {op[w]} ELSE {})
    BY <1>1 DEF Files
  <2>2. QED
    BY <1>1, <2>1 DEF VersionsOf, NextVersions
<1>4. ASSUME NEW k \in Kinds \cup {"unused"}
      PROVE  \E n \in Nat : NextVersions(k) = 1..n
  <2>1. PICK n \in Nat : VersionsOf(k, file["artifacts"]) = 1..n
    BY DEF Gapless
  <2>2. CASE on[w] = "artifacts" /\ kind[op[w]] = k
    <3>1. /\ version[op[w]] \in Nat /\ version[op[w]] > 0
          /\ version[op[w]] = 1 \/ version[op[w]] - 1 \in 1..n
      BY <1>1, <2>1, <2>2 DEF Claims, Follows, TypeOK
    <3>2. NextVersions(k) = (1..n) \cup {version[op[w]]}
      BY <1>3, <2>1, <2>2
    <3>3. (1..n) \cup {version[op[w]]} = 1..n \/ (1..n) \cup {version[op[w]]} = 1..(n + 1)
      BY <3>1
    <3>4. QED
      BY <3>2, <3>3
  <2>3. CASE ~ (on[w] = "artifacts" /\ kind[op[w]] = k)
    BY <1>3, <2>1, <2>3
  <2>4. QED
    BY <2>2, <2>3
<1>5. Gapless'
  BY <1>4, VersionsPrimed
<1>6. ASSUME NEW v \in Writers, at'[v] \in {"insert", "read", "open", "dump"}, on'[v] = "artifacts"
      PROVE  Follows(v)'
  <2>1. v # w /\ at'[v] = at[v] /\ on'[v] = on[v] /\ op'[v] = op[v] /\ op[v] \in Records
    BY <1>1, <1>6, OnwardGoes DEF Held
  <2>2. kind[op[v]] \in Kinds \cup {"unused"}
    BY <2>1 DEF TypeOK, Kinds
  <2>3. VersionsOf(kind[op[v]], file["artifacts"]) \subseteq NextVersions(kind[op[v]])
    BY <1>3, <2>2
  <2>4. kind'[op'[v]] = kind[op[v]] /\ version'[op'[v]] = version[op[v]]
    BY <1>1, <2>1
  <2>5. Follows(v)
    BY <1>6, <2>1 DEF Claims
  <2>6. QED
    BY <2>3, <2>4, <2>5, VersionsPrimed DEF Follows
<1>7. QED
  BY <1>5, <1>6 DEF Claims

LEMMA NumberedStep ==
  ASSUME Base, Orderly \/ mode = "sql", Gapless, Claims, Exact, Exact', [Next]_vars
  PROVE  Gapless' /\ Claims'
<1> USE DEF Base
<1>1. ASSUME NEW w \in Writers, NEW k \in Kinds, NEW f \in Files, NEW s \in Firsts,
            NEW i \in Records, BeginWith(w, k, f, s, i)
     PROVE Gapless' /\ Claims'
  <2>1. i \notin file["artifacts"] /\ file' = file /\ version' = version
    BY <1>1 DEF Stored, BeginWith, store, Files
  <2>2. \A j \in file["artifacts"] : kind'[j] = kind[j] /\ version'[j] = version[j]
    BY <1>1, <2>1 DEF TypeOK, BeginWith, Files
  <2>3. Gapless' /\ \A k_1 \in Kinds \cup {"unused"} :
          NextVersions(k_1) = VersionsOf(k_1, file["artifacts"])
    BY <2>1, <2>2, SameVersions
  <2>4. ASSUME NEW v \in Writers, at'[v] \in {"insert", "read", "open", "dump"}, on'[v] = "artifacts"
        PROVE  Follows(v)'
    <3>1. v # w /\ at'[v] = at[v] /\ on'[v] = on[v] /\ op'[v] = op[v] /\ op[v] # i /\ op[v] \in Records
      BY <1>1, <2>4 DEF TypeOK, Held, BeginWith
    <3>2. kind'[op[v]] = kind[op[v]] /\ kind[op[v]] \in Kinds \cup {"unused"}
      BY <1>1, <3>1 DEF TypeOK, BeginWith, Kinds
    <3>3. QED
      BY <2>1, <2>3, <2>4, <3>1, <3>2, VersionsPrimed DEF Claims, Follows
  <2>5. QED
    BY <2>3, <2>4 DEF Claims
<1>2. ASSUME NEW w \in Writers, TakeVersion(w) PROVE Gapless' /\ Claims'
  <2> DEFINE V == VersionsOf(kind[op[w]], file["artifacts"])
  <2>1. Contents("artifacts") = file["artifacts"]
    BY <1>2, QuietReads DEF TakeVersion, Exact, Held, Contents
  <2>2. /\ at[w] = "version" /\ on[w] = "artifacts" /\ op[w] \in Records
        /\ op[w] \notin file["artifacts"]
        /\ kind[op[w]] \in Kinds \cup {"unused"}
    BY <1>2 DEF TakeVersion, TypeOK, Held, Stored, Files, Kinds
  <2>3. /\ version' = [version EXCEPT ![op[w]] = Latest(V) + 1]
        /\ at' = [at EXCEPT ![w] = Ready]
        /\ UNCHANGED <<kind, file, op, on>>
    BY <1>2, <2>1 DEF TakeVersion, store
  <2>4. \A j \in file["artifacts"] : kind'[j] = kind[j] /\ version'[j] = version[j]
    BY <2>2, <2>3 DEF TypeOK, Files
  <2>5. Gapless' /\ \A k \in Kinds \cup {"unused"} :
          NextVersions(k) = VersionsOf(k, file["artifacts"])
    BY <2>3, <2>4, SameVersions
  <2>6. file["artifacts"] \in SUBSET Records
    BY DEF TypeOK, Files
  <2>7. Latest(V) \in Nat /\ (V = {} => Latest(V) = 0) /\ (V # {} => Latest(V) \in V)
    BY <2>6, VersionsBounded
  <2>8. version'[op[w]] = Latest(V) + 1
    BY <2>2, <2>3 DEF TypeOK
  <2>9. NextVersions(kind'[op'[w]]) = V
    BY <2>2, <2>3, <2>5
  <2>10. /\ version'[op[w]] > 0
         /\ version'[op[w]] = 1 \/ version'[op[w]] - 1 \in V
    <3> HIDE DEF V
    <3>1. QED
      BY <2>7, <2>8
  <2>11. ASSUME NEW v \in Writers \ {w}, at'[v] \in {"insert", "read", "open", "dump"}, on'[v] = "artifacts"
         PROVE  Follows(v)'
    <3>1. at'[v] = at[v] /\ on'[v] = on[v] /\ op'[v] = op[v] /\ op[v] # op[w] /\ op[v] \in Records
      BY <2>2, <2>3, <2>11 DEF TypeOK, Held
    <3>2. version'[op[v]] = version[op[v]] /\ kind'[op[v]] = kind[op[v]]
          /\ kind[op[v]] \in Kinds \cup {"unused"}
      BY <2>2, <2>3, <3>1 DEF TypeOK, Kinds
    <3>3. QED
      BY <2>5, <2>11, <3>1, <3>2, VersionsPrimed DEF Claims, Follows
  <2>12. Claims'
    BY <2>3, <2>9, <2>10, <2>11, VersionsPrimed DEF Claims
  <2>13. QED
    BY <2>5, <2>12
<1>3. ASSUME NEW w \in Writers, Insert(w) PROVE Gapless' /\ Claims'
  BY <1>3, NumberedWrite DEF TypeOK, Held, Exact, Insert, Dump
<1>4. ASSUME NEW w \in Writers, ReadAll(w) PROVE Gapless' /\ Claims'
  <2>1. file' = file /\ version' = version /\ kind' = kind
    BY <1>4 DEF ReadAll, store
  <2>2. Gapless' /\ \A k \in Kinds \cup {"unused"} :
          NextVersions(k) = VersionsOf(k, file["artifacts"])
    BY <2>1, SameVersions
  <2>3. \A v \in Writers : at[v] # "idle" => kind[op[v]] \in Kinds \cup {"unused"}
    BY DEF TypeOK, Held, Kinds
  <2>4. Claims'
    BY <1>4, <2>1, <2>2, <2>3, VersionsPrimed DEF Claims, Follows, TypeOK, ReadAll
  <2>5. QED
    BY <2>2, <2>4
<1>5. ASSUME NEW w \in Writers, Open(w) PROVE Gapless' /\ Claims'
  <2>1. file' = file /\ version' = version /\ kind' = kind
    BY <1>5 DEF Open, store
  <2>2. Gapless' /\ \A k \in Kinds \cup {"unused"} :
          NextVersions(k) = VersionsOf(k, file["artifacts"])
    BY <2>1, SameVersions
  <2>3. \A v \in Writers : at[v] # "idle" => kind[op[v]] \in Kinds \cup {"unused"}
    BY DEF TypeOK, Held, Kinds
  <2>4. Claims'
    BY <1>5, <2>1, <2>2, <2>3, VersionsPrimed DEF Claims, Follows, TypeOK, Open
  <2>5. QED
    BY <2>2, <2>4
<1>6. ASSUME NEW w \in Writers, Dump(w) PROVE Gapless' /\ Claims'
  BY <1>6, NumberedWrite DEF TypeOK, Held, Exact, Insert, Dump
<1>7. ASSUME NEW w \in Writers, Fails(w) PROVE Gapless' /\ Claims'
  <2>1. file' = file /\ version' = version /\ kind' = kind
    BY <1>7 DEF Fails, store
  <2>2. Gapless' /\ \A k \in Kinds \cup {"unused"} :
          NextVersions(k) = VersionsOf(k, file["artifacts"])
    BY <2>1, SameVersions
  <2>3. \A v \in Writers : at[v] # "idle" => kind[op[v]] \in Kinds \cup {"unused"}
    BY DEF TypeOK, Held, Kinds
  <2>4. Claims'
    BY <1>7, <2>1, <2>2, <2>3, VersionsPrimed DEF Claims, Follows, TypeOK, Fails
  <2>5. QED
    BY <2>2, <2>4
<1>8. ASSUME UNCHANGED vars PROVE Gapless' /\ Claims'
  BY <1>8 DEF Claims, Follows, Gapless, VersionsOf, vars, store, writerVars
<1>9. QED
  BY <1>1, <1>2, <1>3, <1>4, <1>5, <1>6, <1>7, <1>8, BeginIsWith DEF Next, WriterStep


LEMMA ExactStep ==
  ASSUME Base, Alone, Numbered, [Next]_vars PROVE Numbered'
<1>1. SUFFICES ASSUME Exact' PROVE Gapless' /\ Claims'
  BY DEF Numbered
<1>2. Exact
  BY <1>1, StaysFaultless, QuietWas DEF Base, Exact
<1>3. Orderly \/ mode = "sql"
  BY <1>2 DEF Alone, Exact
<1>4. QED
  BY <1>1, <1>2, <1>3, NumberedStep DEF Numbered

LEMMA InitNumbered == Init => Numbered
<1> SUFFICES ASSUME Init PROVE Gapless /\ Claims
  BY DEF Numbered
<1>1. ASSUME NEW k PROVE VersionsOf(k, file["artifacts"]) = 1..0
  BY DEF Init, VersionsOf, Files
<1>2. QED
  BY <1>1 DEF Init, Gapless, Claims

LEMMA GaplessNoGap == Base /\ Gapless => NoGap
<1> SUFFICES ASSUME Base, Gapless, NEW i \in file["artifacts"]
             PROVE  /\ version[i] > 0
                    /\ \A n \in 1..version[i] : n \in VersionsOf(kind[i], file["artifacts"])
  BY DEF NoGap
<1>1. i \in Records /\ kind[i] \in Kinds \cup {"unused"} /\ version[i] \in Nat
  BY DEF Base, TypeOK, Files, Kinds
<1>2. PICK n \in Nat : VersionsOf(kind[i], file["artifacts"]) = 1..n
  BY <1>1 DEF Gapless
<1>3. version[i] \in VersionsOf(kind[i], file["artifacts"])
  BY DEF VersionsOf
<1>4. QED
  BY <1>1, <1>2, <1>3

All == Base /\ Alone /\ Numbered

LEMMA InitAll == Init => All
BY StoreAssumption, InitBase, InitAlone, InitNumbered DEF All

LEMMA AllStep == All /\ [Next]_vars => All'
BY StoreAssumption, BaseStep, AloneStep, ExactStep DEF All

\* In SQL the versions of a path are 1, 2, ..., n: writers that race repeat
\* one and never skip one.
THEOREM SqlVersionsGapless == Spec => []VersionsGapless
<1>1. All => VersionsGapless
  BY GaplessNoGap DEF All, Numbered, Exact, VersionsGapless
<1>2. QED
  BY InitAll, AllStep, <1>1, PTL DEF Spec

\* Writers that never overlap and never fail find all they have stored, each
\* record with its audit entry and each path with its versions 1..n, in either
\* mode, with one service or several.
THEOREM NothingLostAlone == Spec => []AloneIsExact
<1>1. ASSUME All PROVE AloneIsExact
  <2>1. SUFFICES ASSUME Quiet
                 PROVE  /\ file = stored
                        /\ Busy = {} => torn = {} /\
                             file["audit"] = file["artifacts"] \cup file["decisions"]
                        /\ NoGap
    BY DEF AloneIsExact, Quiet
  <2>2. Orderly /\ Audited /\ Gapless
    BY <1>1, <2>1 DEF All, Alone, Numbered, Exact
  <2>3. ASSUME Busy = {}
        PROVE  torn = {} /\ file["audit"] = file["artifacts"] \cup file["decisions"]
    <3>1. \A w \in Writers : at[w] = "idle"
      BY <2>3 DEF Busy
    <3>2. \A f \in Files : file[f] \in SUBSET Records
      BY <1>1 DEF All, Base, TypeOK
    <3>3. QED
      BY <2>2, <3>1, <3>2 DEF Orderly, Audited, Files
  <2>4. QED
    BY <1>1, <2>2, <2>3, GaplessNoGap DEF All, Orderly
<1>2. QED
  BY InitAll, AllStep, <1>1, PTL DEF Spec

-----------------------------------------------------------------------------
(* Only writers that overlap are given one version.                        *)

Safe == mode = "sql" \/ (shared /\ faults = 0)

\* the artifacts that are on file, or may yet be written there
Known(i) ==
  \/ i \in file["artifacts"]
  \/ \E w \in Writers : at[w] \in {"open", "dump"} /\ on[w] = "artifacts" /\ i \in view[w]
  \/ \E w \in Writers :
       at[w] \in {"insert", "read", "open", "dump"} /\ on[w] = "artifacts" /\ op[w] = i
Apart ==
  \A i, j \in Records :
    Known(i) /\ Known(j) /\ i # j /\ kind[i] = kind[j] /\ version[i] = version[j] =>
      {i, j} \subseteq overlapped
Unique == Safe => Apart

\* A step that knows nothing new keeps what is known apart.
LEMMA ApartStays ==
  ASSUME Apart, overlapped \subseteq overlapped',
         \A i \in Records : Known(i)' => Known(i) /\ kind'[i] = kind[i] /\ version'[i] = version[i]
  PROVE  Apart'
BY DEF Apart

LEMMA KnownIsUsed ==
  ASSUME Base, NEW i \in Records, Known(i)
  PROVE  /\ kind[i] # "unused"
         /\ \A w \in Writers : at[w] = "version" => i # op[w]
<1>1. CASE i \in file["artifacts"]
  BY <1>1 DEF Base, Stored, Held, Files
<1>2. CASE \E w \in Writers : at[w] \in {"open", "dump"} /\ on[w] = "artifacts" /\ i \in view[w]
  BY <1>2 DEF Base, Stored, Held, Files
<1>3. CASE \E w \in Writers :
             at[w] \in {"insert", "read", "open", "dump"} /\ on[w] = "artifacts" /\ op[w] = i
  BY <1>3 DEF Base, Held
<1>4. QED
  BY <1>1, <1>2, <1>3 DEF Known

\* Without an overlap, what is known is read when a version is taken.
LEMMA KnownIsRead ==
  ASSUME Base, Kept, Safe, NEW w \in Writers, TakeVersion(w), NEW i \in Records, Known(i),
         i \notin overlapped \/ op[w] \notin overlapped
  PROVE  i \in Contents("artifacts")
<1>1. "artifacts" \notin torn
  <2>1. (mode = "sql" => torn = {}) /\ (mode # "sql" => "artifacts" \notin torn)
    BY KeptFaultless DEF Base, Held, TakeVersion, Free, Safe, Locked, LockedAt, Files
  <2>2. QED
    BY <2>1
<1>2. Contents("artifacts") = file["artifacts"]
  BY <1>1 DEF Contents
<1>3. CASE i \in file["artifacts"]
  BY <1>2, <1>3
<1>4. CASE \E v \in Writers : at[v] \in {"open", "dump"} /\ on[v] = "artifacts" /\ i \in view[v]
  <2>1. PICK v \in Writers : at[v] \in {"open", "dump"} /\ on[v] = "artifacts" /\ i \in view[v]
    BY <1>4
  <2>2. v # w /\ op[w] \in overlapped
    BY <2>1 DEF TakeVersion, Base, Held
  <2>3. mode # "sql" /\ i \in stored["artifacts"]
    BY <2>1 DEF Base, Held, Stored
  <2>4. QED
    BY <1>2, <2>2, <2>3, KeptFaultless DEF Safe, Read, ReadAt, Files
<1>5. CASE \E v \in Writers :
             at[v] \in {"insert", "read", "open", "dump"} /\ on[v] = "artifacts" /\ op[v] = i
  BY <1>5 DEF TakeVersion, Base, Held
<1>6. QED
  BY <1>3, <1>4, <1>5 DEF Known

LEMMA ApartStep ==
  ASSUME Base, Kept, Safe, Apart, [Next]_vars PROVE Apart'
<1> USE DEF Base
<1>1. ASSUME NEW w \in Writers, NEW k \in Kinds, NEW f \in Files, NEW s \in Firsts,
            NEW i \in Records, BeginWith(w, k, f, s, i)
     PROVE Apart'
  <2>1. ASSUME NEW j \in Records, Known(j)' PROVE Known(j)
    BY <1>1, <2>1 DEF TypeOK, Known, BeginWith, store, Firsts
  <2>2. ASSUME NEW j \in Records, Known(j) PROVE kind'[j] = kind[j] /\ version'[j] = version[j]
    BY <1>1, <2>2, KnownIsUsed DEF TypeOK, BeginWith
  <2>3. QED
    BY <2>1, <2>2, ApartStays, StaysFaultless
<1>2. ASSUME NEW w \in Writers, TakeVersion(w) PROVE Apart'
  <2> DEFINE n == Latest(VersionsOf(kind[op[w]], Contents("artifacts")))
  <2>1. op[w] \in Records /\ n \in Nat
    BY <1>2, ContentsTyped, VersionsBounded DEF TakeVersion, Held, Files
  <2>2. version' = [version EXCEPT ![op[w]] = n + 1]
    BY <1>2 DEF TakeVersion
  <2>3. /\ version'[op[w]] = n + 1 /\ kind' = kind /\ overlapped' = overlapped
        /\ \A i \in Records \ {op[w]} : version'[i] = version[i]
    <3> HIDE DEF n
    <3>1. QED
      BY <1>2, <2>1, <2>2 DEF TypeOK, TakeVersion
  <2>4. \A i \in Records : Known(i)' => Known(i) \/ i = op[w]
    <3>1. /\ Ready \notin {"open", "dump"} /\ at'[w] = Ready
          /\ file' = file /\ view' = view /\ on' = on /\ op' = op
          /\ \A v \in Writers \ {w} : at'[v] = at[v]
      BY <1>2 DEF TypeOK, TakeVersion, store, Ready
    <3>2. QED
      BY <3>1 DEF Known
  <2>5. ASSUME NEW i \in Records, Known(i), i # op[w], kind[i] = kind[op[w]], version[i] = n + 1
        PROVE  i \in overlapped /\ op[w] \in overlapped
    <3>1. SUFFICES ASSUME i \notin overlapped \/ op[w] \notin overlapped PROVE FALSE
      OBVIOUS
    <3>2. i \in Contents("artifacts")
      BY <1>2, <2>5, <3>1, KnownIsRead
    <3>3. version[i] <= n
      BY <2>5, <3>2, ContentsTyped, VersionsBounded DEF Files
    <3>4. version[i] \in Nat
      BY DEF TypeOK
    <3>5. QED
      <4> HIDE DEF n
      <4>1. QED
        BY <2>1, <2>5, <3>3, <3>4
  <2>6. ASSUME NEW i \in Records, NEW j \in Records, Known(i)', Known(j)', i # j,
               kind'[i] = kind'[j], version'[i] = version'[j]
        PROVE  {i, j} \subseteq overlapped'
    <3> HIDE DEF n
    <3>1. CASE i = op[w]
      BY <2>3, <2>4, <2>5, <2>6, <3>1
    <3>2. CASE j = op[w]
      BY <2>3, <2>4, <2>5, <2>6, <3>2
    <3>3. CASE i # op[w] /\ j # op[w]
      BY <2>3, <2>4, <2>6, <3>3 DEF Apart
    <3>4. QED
      BY <3>1, <3>2, <3>3
  <2>7. QED
    BY <2>6 DEF Apart
<1>3. ASSUME NEW w \in Writers, Insert(w) PROVE Apart'
  <2>1. Onward(w) /\ kind' = kind /\ version' = version /\ at[w] = "insert"
    BY <1>3 DEF Insert
  <2>2. file'["artifacts"] \subseteq file["artifacts"] \cup (IF on[w] = "artifacts" THEN {op[w]} ELSE {})
    BY <1>3 DEF TypeOK, Insert, Files
  <2>3. ASSUME NEW i \in Records, Known(i)' PROVE Known(i)
    <3>1. CASE i \in file'["artifacts"]
      BY <2>1, <2>2, <3>1 DEF Known, Held
    <3>2. CASE i \notin file'["artifacts"]
      BY <2>1, <2>3, <3>2, OnwardGoes DEF Known
    <3>3. QED
      BY <3>1, <3>2
  <2>4. QED
    BY <2>1, <2>3, ApartStays, StaysFaultless
<1>4. ASSUME NEW w \in Writers, ReadAll(w) PROVE Apart'
  <2>1. \A i \in Records : Known(i)' => Known(i) /\ kind'[i] = kind[i] /\ version'[i] = version[i]
    BY <1>4 DEF TypeOK, Known, ReadAll, Contents, store
  <2>2. QED
    BY <2>1, ApartStays, StaysFaultless
<1>5. ASSUME NEW w \in Writers, Open(w) PROVE Apart'
  <2>1. \A i \in Records : Known(i)' => Known(i) /\ kind'[i] = kind[i] /\ version'[i] = version[i]
    BY <1>5 DEF TypeOK, Known, Open, store
  <2>2. QED
    BY <2>1, ApartStays, StaysFaultless
<1>6. ASSUME NEW w \in Writers, Dump(w) PROVE Apart'
  <2>1. Onward(w) /\ kind' = kind /\ version' = version /\ at[w] = "dump"
    BY <1>6 DEF Dump
  <2>2. file'["artifacts"] \subseteq file["artifacts"] \cup (IF on[w] = "artifacts" THEN view[w] \cup {op[w]} ELSE {})
    BY <1>6 DEF TypeOK, Dump, Files
  <2>3. ASSUME NEW i \in Records, Known(i)' PROVE Known(i)
    <3>1. CASE i \in file'["artifacts"]
      BY <2>1, <2>2, <3>1 DEF Known, Held
    <3>2. CASE i \notin file'["artifacts"]
      BY <2>1, <2>3, <3>2, OnwardGoes DEF Known
    <3>3. QED
      BY <3>1, <3>2
  <2>4. QED
    BY <2>1, <2>3, ApartStays, StaysFaultless
<1>7. ASSUME NEW w \in Writers, Fails(w) PROVE Apart'
  <2>1. \A i \in Records : Known(i)' => Known(i) /\ kind'[i] = kind[i] /\ version'[i] = version[i]
    BY <1>7 DEF TypeOK, Known, Fails, store
  <2>2. QED
    BY <2>1, ApartStays, StaysFaultless
<1>8. ASSUME UNCHANGED vars PROVE Apart'
  BY <1>8 DEF Apart, Known, vars, store, writerVars
<1>9. QED
  BY <1>1, <1>2, <1>3, <1>4, <1>5, <1>6, <1>7, <1>8, BeginIsWith DEF Next, WriterStep

LEMMA UniqueStep ==
  ASSUME Base, Kept, Unique, [Next]_vars PROVE Unique'
<1>1. SUFFICES ASSUME Safe' PROVE Apart'
  BY DEF Unique
<1>2. Safe
  BY <1>1, StaysFaultless DEF Base, Safe
<1>3. QED
  BY <1>2, ApartStep DEF Unique

\* With SQL, or with one BrainService and no failure, two records of a path
\* have one version only if they were stored at the same time.
THEOREM OnlyOverlapRepeats == Spec => []VersionsUnique
<1>1. Init => Base /\ Kept /\ Unique
  BY StoreAssumption, InitBase, InitKept DEF Init, Unique, Apart, Known, Files
<1>2. Base /\ Kept /\ Unique /\ [Next]_vars => (Base /\ Kept /\ Unique)'
  BY StoreAssumption, BaseStep, KeptStep, UniqueStep
<1>3. Base /\ Kept /\ Unique => VersionsUnique
  BY DEF Base, TypeOK, Unique, Apart, Known, Safe, VersionsUnique, Files
<1>4. QED
  BY <1>1, <1>2, <1>3, PTL DEF Spec

=============================================================================
