----------------------------- MODULE BrainStore -----------------------------
(***************************************************************************)
(* How the project brain stores artifacts, decisions and their audit       *)
(* entries (brain/services/brain_service.py), in SQL and in JSON files     *)
(* (brain/repository/json_repo.py, brain/utils/json_db.py).                *)
(*                                                                         *)
(* A writer is a thread of the API, of a task runner or of a worker that   *)
(* calls store_artifact or store_decision.  An artifact takes its version  *)
(* from a read of its own; then the record and after it the audit entry    *)
(* are stored, in SQL by an insert, in JSON by reading the whole file and  *)
(* writing it again.  The lock of a JSON file belongs to one BrainService, *)
(* covers one read or one write, and never both.                           *)
(***************************************************************************)
EXTENDS Naturals, FiniteSets

CONSTANTS Writers,
          Records,    \* ids of records
          Paths,      \* file paths of artifacts
          Modes,      \* {"sql", "json"}, or one of them
          MaxFaults   \* bound on storage errors and deaths of writers

Files == {"artifacts", "decisions", "audit"}
NoRecord == "none"

ASSUME StoreAssumption ==
  /\ Modes \subseteq {"sql", "json"}
  /\ "none" \notin Records
  /\ {"unused", "decision"} \cap Paths = {}
  /\ MaxFaults \in Nat

VARIABLES mode,
          shared,     \* whether the writers share one BrainService
          kind,       \* what each record is: the path of an artifact, or a decision
          version,    \* the version each artifact was given
          file,       \* the records in each file or table
          torn,       \* JSON files that hold no readable text
          at, op, on, \* per writer: its step, its record, the file it is at
          view,       \* per writer: the content it has read
          stored,     \* history: the writes that have returned
          overlapped, \* history: records stored while another was
          faults

store == <<file, torn, stored>>
writerVars == <<at, op, on, view>>
vars == <<mode, shared, kind, version, store, writerVars, overlapped, faults>>

TypeOK ==
  /\ mode \in Modes /\ shared \in BOOLEAN
  /\ kind \in [Records -> Paths \cup {"unused", "decision"}]
  /\ version \in [Records -> Nat]
  /\ file \in [Files -> SUBSET Records]
  /\ stored \in [Files -> SUBSET Records]
  /\ torn \subseteq Files
  /\ at \in [Writers -> {"idle", "version", "insert", "read", "open", "dump"}]
  /\ op \in [Writers -> Records \cup {NoRecord}]
  /\ on \in [Writers -> Files]
  /\ view \in [Writers -> SUBSET Records]
  /\ overlapped \subseteq Records
  /\ faults \in 0..MaxFaults

Init ==
  /\ mode \in Modes /\ shared \in BOOLEAN
  /\ kind = [i \in Records |-> "unused"]
  /\ version = [i \in Records |-> 0]
  /\ file = [f \in Files |-> {}] /\ stored = [f \in Files |-> {}]
  /\ torn = {}
  /\ at = [w \in Writers |-> "idle"]
  /\ op = [w \in Writers |-> NoRecord]
  /\ on = [w \in Writers |-> "artifacts"]
  /\ view = [w \in Writers |-> {}]
  /\ overlapped = {}
  /\ faults = 0

-----------------------------------------------------------------------------

Busy == {w \in Writers : at[w] # "idle"}

\* the first step of storing a record in the current file
Ready == IF mode = "sql" THEN "insert" ELSE "read"

\* read_all: a file that cannot be parsed counts as empty
Contents(f) == IF f \in torn THEN {} ELSE file[f]

\* Mutant: a read does not take the lock.
FreeAlways(w) == TRUE

\* a shared BrainService has one lock per file, held while it is written
Free(w) == shared => \A v \in Writers : ~(at[v] = "dump" /\ on[v] = on[w])

\* a writer turns to a new record
Begin(w, k, f, first) ==
  /\ at[w] = "idle"
  /\ \E i \in Records :
       /\ kind[i] = "unused"
       /\ kind' = [kind EXCEPT ![i] = k]
       /\ op' = [op EXCEPT ![w] = i]
       /\ overlapped' = IF Busy = {} THEN overlapped
                        ELSE overlapped \cup {i} \cup {op[v] : v \in Busy}
  /\ on' = [on EXCEPT ![w] = f]
  /\ at' = [at EXCEPT ![w] = first]
  /\ UNCHANGED <<mode, shared, version, store, view, faults>>

StartArtifact(w, p) == Begin(w, p, "artifacts", "version")
StartDecision(w) == Begin(w, "decision", "decisions", Ready)

\* get_by_path, and the version that follows
VersionsOf(p, S) == {version[i] : i \in {j \in S : kind[j] = p}}
\* Mutant: sorted the wrong way round.
Oldest(V) == IF V = {} THEN 0 ELSE CHOOSE n \in V : \A k \in V : k >= n

Latest(V) == IF V = {} THEN 0 ELSE CHOOSE n \in V : \A k \in V : k <= n

TakeVersion(w) ==
  /\ at[w] = "version"
  /\ Free(w)
  /\ version' = [version EXCEPT ![op[w]] =
                   Latest(VersionsOf(kind[op[w]], Contents("artifacts"))) + 1]
  /\ at' = [at EXCEPT ![w] = Ready]
  /\ UNCHANGED <<mode, shared, kind, store, op, on, view, overlapped, faults>>

\* Mutant: the audit entry is filed in a table that does not exist.
OnwardMisfiled(w) ==
  /\ at' = [at EXCEPT ![w] = IF on[w] = "audit" THEN "idle" ELSE Ready]
  /\ op' = [op EXCEPT ![w] = IF on[w] = "audit" THEN NoRecord ELSE @]
  /\ on' = [on EXCEPT ![w] = "log"]
  /\ view' = [view EXCEPT ![w] = {}]
  /\ stored' = [stored EXCEPT ![on[w]] = @ \cup {op[w]}]

\* after the record its audit entry, after that nothing
Onward(w) ==
  /\ at' = [at EXCEPT ![w] = IF on[w] = "audit" THEN "idle" ELSE Ready]
  /\ op' = [op EXCEPT ![w] = IF on[w] = "audit" THEN NoRecord ELSE @]
  /\ on' = [on EXCEPT ![w] = "audit"]
  /\ view' = [view EXCEPT ![w] = {}]
  /\ stored' = [stored EXCEPT ![on[w]] = @ \cup {op[w]}]

\* SQL: one insert, committed
Insert(w) ==
  /\ at[w] = "insert"
  /\ file' = [file EXCEPT ![on[w]] = @ \cup {op[w]}]
  /\ Onward(w)
  /\ UNCHANGED <<mode, shared, kind, version, torn, overlapped, faults>>

\* JSONDatabase.set: read_all ...
ReadAll(w) ==
  /\ at[w] = "read"
  /\ Free(w)
  /\ view' = [view EXCEPT ![w] = Contents(on[w])]
  /\ at' = [at EXCEPT ![w] = "open"]
  /\ UNCHANGED <<mode, shared, kind, version, store, op, on, overlapped, faults>>

\* ... write_all: open(..., "w") empties the file ...
Open(w) ==
  /\ at[w] = "open"
  /\ Free(w)
  /\ torn' = torn \cup {on[w]}
  /\ at' = [at EXCEPT ![w] = "dump"]
  /\ UNCHANGED <<mode, shared, kind, version, file, stored, op, on, view, overlapped, faults>>

\* ... and json.dump fills it.  When another writer has filled it since,
\* the texts lie one over the other and may not be readable.
Dump(w) ==
  /\ at[w] = "dump"
  /\ file' = [file EXCEPT ![on[w]] = view[w] \cup {op[w]}]
  /\ torn' \in {torn \ {on[w]}} \cup (IF on[w] \in torn THEN {} ELSE {torn \cup {on[w]}})
  /\ Onward(w)
  /\ UNCHANGED <<mode, shared, kind, version, overlapped, faults>>

\* the storage raises or the writer dies; a file that was being written
\* stays as it is
Fails(w) ==
  /\ at[w] # "idle"
  /\ faults < MaxFaults
  /\ faults' = faults + 1
  /\ at' = [at EXCEPT ![w] = "idle"]
  /\ op' = [op EXCEPT ![w] = NoRecord]
  /\ view' = [view EXCEPT ![w] = {}]
  /\ UNCHANGED <<mode, shared, kind, version, store, on, overlapped>>

WriterStep(w) ==
  \/ \E p \in Paths : StartArtifact(w, p)
  \/ StartDecision(w)
  \/ TakeVersion(w) \/ Insert(w) \/ ReadAll(w) \/ Open(w) \/ Dump(w) \/ Fails(w)

Next == \E w \in Writers : WriterStep(w)

Spec == Init /\ [][Next]_vars

-----------------------------------------------------------------------------
(* Properties.                                                             *)

\* In SQL the versions of a path have no gap, even when writers that race
\* are given the same one (store_artifact).
NoGap ==
  \A i \in file["artifacts"] :
    /\ version[i] > 0
    /\ \A n \in 1..version[i] : n \in VersionsOf(kind[i], file["artifacts"])
VersionsGapless == mode = "sql" => NoGap

\* what is missing: the files that have lost a record which was stored while no
\* other was, and the records without an audit entry whose writer is gone
Damaged == {f \in Files : ~(stored[f] \ overlapped \subseteq file[f])}
Unaudited == (file["artifacts"] \cup file["decisions"]) \ file["audit"]
Abandoned == Unaudited \ {op[w] : w \in Busy}

\* Whatever is missing in the brain, an overlap or a failure has cost it, and no
\* failure costs more than this: in SQL the audit entry of one record; with one
\* JSON service one of the three files, though it may lose all it had (a file
\* that json.dump has left half written counts as empty from then on).
LossExplained ==
  /\ mode = "sql" => Cardinality(Abandoned) <= faults /\ \A f \in Files : stored[f] \subseteq file[f]
  /\ shared => Cardinality(Damaged) <= faults

\* Two records of a path with one version were stored at the same time
\* (with SQL, or with one BrainService and no failure).
VersionsUnique ==
  mode = "sql" \/ (shared /\ faults = 0) =>
    \A i, j \in file["artifacts"] :
      i # j /\ kind[i] = kind[j] /\ version[i] = version[j] => {i, j} \subseteq overlapped

\* Writers that never overlap and never fail find in the brain all they have
\* stored, whoever stored it, in either mode and with any number of services.
AloneIsExact ==
  overlapped = {} /\ faults = 0 =>
    /\ file = stored
    /\ Busy = {} => torn = {} /\ file["audit"] = file["artifacts"] \cup file["decisions"]
    /\ NoGap

\* "A thread-safe utility": with one BrainService and no failure nothing that
\* was stored is lost.  The code breaks it.
NothingLost ==
  shared /\ faults = 0 => \A f \in Files : stored[f] \subseteq file[f]
=============================================================================
