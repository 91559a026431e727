------------------------------ MODULE Snapshot ------------------------------
(***************************************************************************)
(* The start of a node (bee-ledger: snapshot/worker.rs, snapshot/import.rs,*)
(* consensus/state.rs; bee-storage: the health of a storage).  A storage   *)
(* without a snapshot imports a full snapshot file and, if there is one, a *)
(* delta snapshot file.  A full snapshot holds the unspent outputs at its  *)
(* ledger index and the diffs of the milestones back to its sep index,     *)
(* which are rolled back; a delta snapshot goes forward from there.        *)
(*                                                                         *)
(* Each write of the storage is a step, and the node may crash between any *)
(* two of them: what keeps a node from running on half an import is only   *)
(* the health flag of the storage.                                         *)
(***************************************************************************)
EXTENDS Ledger, Sequences

CONSTANTS
  History,         \* History[i]: outputs created and consumed by milestone i, its migration
  Genesis,         \* the unspent outputs before milestone 1
  GenesisTreasury,
  EntryPoints,     \* EntryPoints[i]: the solid entry points of milestone i
  Files,           \* the pairs of a full and a delta file that may be present, or None
  Sources,         \* the pairs that the download sources offer
  MaxStarts        \* bound: how often the node is started

VARIABLES
  health,          \* System::Health: "none", "healthy", "idle" or "corrupted"
  info,            \* SnapshotInfo: None, or the sep index
  seps,            \* SolidEntryPoint -> MilestoneIndex
  full, delta,     \* the snapshot files
  process,         \* "down", "starting" or "running"
  reading,         \* the file being imported, or None
  section,         \* the section of the file being read, or the step before it
  sources,         \* available_sources: those not tried yet
  source,          \* the source files are downloaded from
  rest,            \* what is still unread of that section
  diffs_left,      \* the milestone diffs that are still unread
  imported_diffs,  \* the balance diffs of the outputs imported so far
  starts

fileVars == <<full, delta, sources, source>>
restVars == <<rest, diffs_left>>
nodeVars == <<health, info, seps, fileVars, process, reading, section, restVars,
              imported_diffs, starts>>
snapshotVars == <<ledgerVars, nodeVars>>

\* The state of the ledger that the milestones up to i produce.
UnspentAt[i \in Nat] ==
  IF i = 0 THEN Genesis
  ELSE IF i \notin DOMAIN History THEN UnspentAt[i - 1]
  ELSE (UnspentAt[i - 1] \cup History[i].created) \ History[i].consumed

TreasuryAt[i \in Nat] ==
  IF i = 0 THEN GenesisTreasury
  ELSE IF i \notin DOMAIN History \/ History[i].migration = {} THEN TreasuryAt[i - 1]
  ELSE (CHOOSE g \in History[i].migration : TRUE).created

ASSUME SnapshotAssumption ==
  /\ None \notin Nat
  /\ Genesis \subseteq OutputIds
  /\ Len(History) \in Nat /\ DOMAIN History = 1 .. Len(History)
  /\ \A i \in DOMAIN History : History[i].created \subseteq OutputIds
                               /\ History[i].consumed \subseteq OutputIds
  /\ MaxStarts \in Nat

\* The milestones are those of a valid ledger: they spend what earlier ones or
\* they themselves have created, a migration takes its funds from the treasury,
\* the tokens are those of the supply, and the dust protection holds.
ASSUME HistoryAssumption ==
  /\ \A i \in DOMAIN History :
       /\ History[i].consumed \subseteq UnspentAt[i - 1] \cup History[i].created
       /\ History[i].created \cap UnspentAt[i - 1] = {}
       /\ \A g \in History[i].migration :
            History[i].migration = {g} /\ g.consumed = TreasuryAt[i - 1] /\ g.created # g.consumed
  /\ \A i \in 0 .. Len(History) :
       /\ TreasuryAt[i].amount \in Nat
       /\ Total(UnspentAt[i]) + TreasuryAt[i].amount = Supply
       /\ \A a \in Addresses : ~ExceedsDust(BalanceOf(UnspentAt[i], a))

\* A file may lack diffs, hold them in any order, or be cut or too long; it
\* holds no diff twice, a full snapshot none after its ledger index, and a
\* delta snapshot none up to it.
SnapshotFile(f, kind) ==
  /\ f.kind = kind
  /\ f.ledger_index \in 0 .. Len(History) /\ f.sep_index \in 0 .. Len(History)
  /\ f.diffs \in Seq(Nat)
  /\ \A i, j \in DOMAIN f.diffs : f.diffs[i] = f.diffs[j] => i = j
  /\ \A i \in DOMAIN f.diffs :
       IF kind = "full" THEN f.diffs[i] <= f.ledger_index ELSE f.ledger_index < f.diffs[i]

\* Nothing is assumed of how a full and a delta snapshot go together.
ASSUME FilesAssumption ==
  /\ \A f \in Files \cup Sources :
       /\ f.full # None => SnapshotFile(f.full, "full")
       /\ f.delta # None => SnapshotFile(f.delta, "delta")
  /\ \A s \in Sources : s.full # None /\ s # None

Distance(f) == IF f.kind = "full" THEN f.ledger_index - f.sep_index
               ELSE f.sep_index - f.ledger_index

-----------------------------------------------------------------------------
(***************************************************************************)
(* Backend::start refuses a storage that was not shut down properly.       *)
(***************************************************************************)
Opens == health \in {"none", "healthy"}

Start ==
  /\ process = "down" /\ starts < MaxStarts
  /\ starts' = starts + 1
  /\ Opens
  /\ health' = "idle"
  /\ process' = "starting"
  /\ reading' = None
  /\ section' = IF info = None THEN "files" ELSE "done"
  /\ rest' = {} /\ diffs_left' = <<>>
  /\ imported_diffs' = NoDiffs
  /\ UNCHANGED <<ledgerVars, info, seps, fileVars>>

StartRefused ==
  /\ process = "down" /\ starts < MaxStarts
  /\ ~Opens
  /\ starts' = starts + 1
  /\ UNCHANGED <<ledgerVars, health, info, seps, fileVars, process, reading, section,
                 restVars, imported_diffs>>

\* The process dies: nothing is written.
Crash ==
  /\ process # "down"
  /\ process' = "down"
  /\ UNCHANGED <<ledgerVars, health, info, seps, fileVars, reading, section, restVars,
                 imported_diffs, starts>>

\* The SnapshotWorker marks the storage before it gives up.
ImportError ==
  /\ health' = "corrupted"
  /\ process' = "down"
  /\ UNCHANGED <<ledgerVars, info, seps, fileVars, reading, section, restVars,
                 imported_diffs, starts>>

-----------------------------------------------------------------------------
(***************************************************************************)
(* import_snapshots: the files that are there, or those of the freshest    *)
(* source that can be downloaded.                                          *)
(***************************************************************************)
At(s) == process = "starting" /\ section = s

FilesPresent ==
  /\ At("files") /\ full # None
  /\ reading' = full
  /\ section' = "header"
  /\ UNCHANGED <<ledgerVars, health, info, seps, fileVars, process, restVars, imported_diffs,
                 starts>>

OnlyDeltaExists ==
  /\ At("files") /\ full = None /\ delta # None
  /\ ImportError

\* Mutation: the ledger index of the delta snapshot is not considered.
IsConsistentLoose(s) ==
  s.full.header_ok /\ (s.delta # None => s.delta.header_ok /\ s.full.sep_index <= s.delta.sep_index)

\* SourceInformation::is_consistent
IsConsistent(s) ==
  /\ s.full.header_ok
  /\ s.delta # None => /\ s.delta.header_ok
                      /\ s.full.sep_index <= s.delta.sep_index
                      /\ s.full.sep_index = s.delta.ledger_index

SourceIndex(s) == IF s.delta = None THEN s.full.sep_index ELSE s.delta.sep_index

GatherSources ==
  /\ At("files") /\ full = None /\ delta = None
  /\ sources' = {s \in Sources : IsConsistent(s)}
  /\ section' = "download"
  /\ UNCHANGED <<ledgerVars, health, info, seps, full, delta, source, process, reading, restVars,
                 imported_diffs, starts>>

\* download_snapshot_file writes the file, or does nothing when the request
\* fails, or fails when the body of the answer does.
DownloadFull ==
  /\ At("download")
  /\ \E s \in sources :
       /\ \A x \in sources : SourceIndex(x) <= SourceIndex(s)
       /\ sources' = sources \ {s}
       /\ \/ full' \in {full, s.full} /\ source' = s /\ section' = "download delta"
          \/ UNCHANGED <<full, source, section>>
  /\ UNCHANGED <<ledgerVars, health, info, seps, delta, process, reading, restVars, imported_diffs,
                 starts>>

DownloadDelta ==
  /\ At("download delta")
  /\ \/ /\ source.delta # None
        /\ \/ delta' \in {delta, source.delta} /\ section' = "downloaded"
           \/ delta' = delta /\ section' = "download"
     \/ source.delta = None /\ delta' = delta /\ section' = "downloaded"
  /\ UNCHANGED <<ledgerVars, health, info, seps, full, sources, source, process, reading, restVars,
                 imported_diffs, starts>>

NoDownloadSourceAvailable ==
  /\ At("download") /\ sources = {}
  /\ ImportError

\* The full snapshot file cannot be opened if its download did nothing.
OpenFull ==
  /\ At("downloaded") /\ full # None
  /\ reading' = full
  /\ section' = "header"
  /\ UNCHANGED <<ledgerVars, health, info, seps, fileVars, process, restVars, imported_diffs,
                 starts>>

FullMissing ==
  /\ At("downloaded") /\ full = None
  /\ ImportError

-----------------------------------------------------------------------------
(***************************************************************************)
(* import_full_snapshot and import_delta_snapshot.                         *)
(***************************************************************************)
Reading(s) == process = "starting" /\ reading # None /\ section = s

\* check_header and the consistency of the indexes with the number of diffs.
ValidHeader(f) == f.header_ok /\ Distance(f) >= 0 /\ Distance(f) = Len(f.diffs)

HeaderError ==
  /\ Reading("header") /\ ~ValidHeader(reading)
  /\ ImportError

\* A full snapshot brings its treasury output along.
ImportTreasury ==
  /\ Reading("header") /\ ValidHeader(reading)
  /\ treasury' = IF reading.kind = "full" THEN treasury \cup {TreasuryAt[reading.ledger_index]}
                 ELSE treasury
  /\ section' = "index"
  /\ UNCHANGED <<ledger_index, outputs, unspent, spent, balances, treasury_spent, receipts,
                 output_diffs, health, info, seps, fileVars, process, reading, restVars,
                 imported_diffs, starts>>

ImportIndex ==
  /\ Reading("index")
  /\ ledger_index' = reading.ledger_index
  /\ section' = "info"
  /\ UNCHANGED <<outputs, unspent, spent, balances, treasury, treasury_spent, receipts,
                 output_diffs, health, info, seps, fileVars, process, reading, restVars,
                 imported_diffs, starts>>

ImportInfo ==
  /\ Reading("info")
  /\ info' = reading.sep_index
  /\ section' = "truncate"
  /\ UNCHANGED <<ledgerVars, health, seps, fileVars, process, reading, restVars,
                 imported_diffs, starts>>

\* import_solid_entry_points: truncate, then insert one by one.
TruncateEntryPoints ==
  /\ Reading("truncate")
  /\ seps' = {}
  /\ rest' = EntryPoints[reading.sep_index] /\ UNCHANGED diffs_left
  /\ section' = "seps"
  /\ UNCHANGED <<ledgerVars, health, info, fileVars, process, reading, imported_diffs,
                 starts>>

ImportEntryPoint ==
  /\ Reading("seps") /\ rest # {}
  /\ \E p \in rest : seps' = seps \cup {p} /\ rest' = rest \ {p}
  /\ UNCHANGED diffs_left
  /\ UNCHANGED <<ledgerVars, health, info, fileVars, process, reading, section,
                 imported_diffs, starts>>

EntryPointsImported ==
  /\ Reading("seps") /\ rest = {}
  /\ section' = IF reading.kind = "full" THEN "outputs" ELSE "diffs"
  /\ rest' = IF reading.kind = "full" THEN UnspentAt[reading.ledger_index] ELSE {}
  /\ diffs_left' = reading.diffs
  /\ UNCHANGED <<ledgerVars, health, info, seps, fileVars, process, reading,
                 imported_diffs, starts>>

\* import_outputs: each output is committed at once, the balances at the end.
ImportOutput ==
  /\ Reading("outputs") /\ rest # {}
  /\ \E o \in rest :
       /\ outputs' = outputs \cup {o}
       /\ unspent' = unspent \cup {o}
       /\ imported_diffs' = Merge(imported_diffs, DiffsOf({o}, {}))
       /\ rest' = rest \ {o} /\ UNCHANGED diffs_left
  /\ UNCHANGED <<ledger_index, spent, balances, treasury, treasury_spent, receipts,
                 output_diffs, health, info, seps, fileVars, process, reading, section,
                 starts>>

ApplyBalanceDiffs ==
  /\ Reading("outputs") /\ rest = {}
  /\ balances' = ApplyDiffs(imported_diffs)
  /\ section' = "diffs"
  /\ UNCHANGED restVars
  /\ UNCHANGED <<ledger_index, outputs, unspent, spent, treasury, treasury_spent, receipts,
                 output_diffs, health, info, seps, fileVars, process, reading,
                 imported_diffs, starts>>

-----------------------------------------------------------------------------
(***************************************************************************)
(* import_milestone_diffs.                                                 *)
(***************************************************************************)
DiffOfMilestone(i) == DiffsOf(History[i].created, History[i].consumed)

ApplyMilestoneDiff ==
  /\ Reading("diffs") /\ diffs_left # <<>>
  /\ Head(diffs_left) = ledger_index + 1
  /\ Applicable(DiffOfMilestone(Head(diffs_left)))
  /\ ApplyMilestone(Head(diffs_left), History[Head(diffs_left)].created, History[Head(diffs_left)].consumed,
                    DiffOfMilestone(Head(diffs_left)), History[Head(diffs_left)].migration)
  /\ diffs_left' = Tail(diffs_left) /\ UNCHANGED rest
  /\ UNCHANGED <<health, info, seps, fileVars, process, reading, section,
                 imported_diffs, starts>>

RollbackMilestoneDiff ==
  /\ Reading("diffs") /\ diffs_left # <<>>
  /\ Head(diffs_left) = ledger_index
  /\ Applicable(Negated(DiffOfMilestone(Head(diffs_left))))
  /\ RollbackMilestone(Head(diffs_left), History[Head(diffs_left)].created, History[Head(diffs_left)].consumed,
                       DiffOfMilestone(Head(diffs_left)), History[Head(diffs_left)].migration)
  /\ diffs_left' = Tail(diffs_left) /\ UNCHANGED rest
  /\ UNCHANGED <<health, info, seps, fileVars, process, reading, section,
                 imported_diffs, starts>>

\* UnexpectedMilestoneDiffIndex, or a balance that becomes negative.
DiffError ==
  /\ Reading("diffs") /\ diffs_left # <<>>
  /\ ~(Head(diffs_left) = ledger_index + 1 /\ Applicable(DiffOfMilestone(Head(diffs_left))))
  /\ ~(Head(diffs_left) = ledger_index /\ Applicable(Negated(DiffOfMilestone(Head(diffs_left)))))
  /\ ImportError

\* The diffs are followed by the end of the file, or the import fails.
EndOfFile ==
  /\ Reading("diffs") /\ diffs_left = <<>> /\ ~reading.trailing
  /\ reading' = IF reading.kind = "full" THEN delta ELSE None
  /\ section' = IF reading.kind = "full" /\ delta # None THEN "header" ELSE "done"
  /\ UNCHANGED <<ledgerVars, health, info, seps, fileVars, process, restVars,
                 imported_diffs, starts>>

RemainingBytes ==
  /\ Reading("diffs") /\ diffs_left = <<>> /\ reading.trailing
  /\ ImportError

-----------------------------------------------------------------------------
(***************************************************************************)
(* The ConsensusWorker starts: validate_ledger_state.                      *)
(***************************************************************************)
\* If it fails, so does the start of the worker, and the process panics.
Validate ==
  /\ At("done")
  /\ process' = IF ValidUnspentState /\ ValidBalanceState THEN "running" ELSE "down"
  /\ UNCHANGED <<ledgerVars, health, info, seps, fileVars, reading, section, restVars,
                 imported_diffs, starts>>

\* Backend::shutdown, at the end of a proper stop of the node.
Stop ==
  /\ process = "running"
  /\ process' = "down"
  /\ health' = "healthy"
  /\ UNCHANGED <<ledgerVars, info, seps, fileVars, reading, section, restVars,
                 imported_diffs, starts>>

-----------------------------------------------------------------------------
SnapshotInit ==
  /\ ledger_index = 0
  /\ outputs = {} /\ unspent = {} /\ spent = {}
  /\ balances = [a \in Addresses |-> ZeroBalance]
  /\ treasury = {} /\ treasury_spent = {} /\ receipts = {} /\ output_diffs = {}
  /\ health = "none" /\ info = None /\ seps = {}
  /\ \E f \in Files : full = f.full /\ delta = f.delta
  /\ sources = {} /\ source = None
  /\ process = "down" /\ reading = None /\ section = "done" /\ rest = {} /\ diffs_left = <<>>
  /\ imported_diffs = NoDiffs
  /\ starts = 0

Done == process = "down" /\ starts = MaxStarts /\ UNCHANGED snapshotVars

SnapshotNext ==
  \/ Start \/ StartRefused \/ Crash
  \/ FilesPresent \/ OnlyDeltaExists \/ GatherSources \/ DownloadFull \/ DownloadDelta
  \/ NoDownloadSourceAvailable \/ OpenFull \/ FullMissing
  \/ HeaderError \/ ImportTreasury \/ ImportIndex \/ ImportInfo
  \/ TruncateEntryPoints \/ ImportEntryPoint \/ EntryPointsImported
  \/ ImportOutput \/ ApplyBalanceDiffs
  \/ ApplyMilestoneDiff \/ RollbackMilestoneDiff \/ DiffError \/ EndOfFile \/ RemainingBytes
  \/ Validate \/ Stop \/ Done

SnapshotSpec == SnapshotInit /\ [][SnapshotNext]_snapshotVars

\* The index that the files describe.
Target == IF delta = None THEN full.sep_index ELSE delta.sep_index

\* The delta snapshot starts where the full one ends, which only
\* SourceInformation::is_consistent compares: not import_delta_snapshot.
Fits == full # None /\ delta # None => delta.ledger_index = full.sep_index

\* The outputs that a milestone after i both created and consumed: to roll it
\* back from the ledger index of the full snapshot makes them unspent.
Resurrected(i) ==
  {o \in OutputIds : \E j \in DOMAIN History :
     i < j /\ j <= full.ledger_index /\ o \in History[j].created \cap History[j].consumed}

-----------------------------------------------------------------------------
\* A node that runs has imported everything: its indexes and entry points are
\* those of the last milestone of its files and, if the files fit, so are its
\* unspent outputs and its treasury: an import that made an output unspent
\* again is refused.  A crash in the middle of an import never leads to a node
\* that runs on the rest.
RunsOnWholeSnapshot ==
  process = "running" =>
    /\ ledger_index = Target /\ info = Target
    /\ seps = EntryPoints[Target]
    /\ Fits => unspent = UnspentAt[Target] /\ treasury = {TreasuryAt[Target]}

\* Downloaded files fit, whatever downloads of earlier sources did before, if
\* the full snapshot is that of the last source that was tried.  It is not if
\* its request failed, which counts as a success (download_snapshot_file), and
\* an earlier source had left its own.
DownloadsFit == source # None /\ full = source.full => Fits

\* A node that runs on files that fit has the balances that its unspent
\* outputs are worth, which validate_ledger_state does not check for the
\* single address.
RunsOnMatchingBalances == process = "running" /\ Fits => BalancesMatch

\* The import of files that fit, however many diffs are rolled back and
\* applied again, yields a ledger that validate_ledger_state accepts, unless an
\* output that a milestone both created and consumed was made unspent by
\* rollback_milestone and no delta snapshot has gone past that milestone again.
ImportValid ==
  process = "starting" /\ section = "done" /\ Fits /\ Resurrected(Target) = {} =>
    ValidUnspentState /\ ValidBalanceState

(* A node that runs has imported all of its files, which fit if the source  *)
(* they come from answered, and then the ledger is that of their last       *)
(* milestone and the balances are those of the outputs, whatever crashed or *)
(* failed before (SnapshotWorker, validate_ledger_state).                   *)
RunsOnImport ==
    /\ RunsOnWholeSnapshot
    /\ DownloadsFit
    /\ RunsOnMatchingBalances
=============================================================================
