-------------------------------- MODULE Audit --------------------------------
(***************************************************************************)
(* internal/mcp/audit.go: the size-rotated audit log.  Record holds a.mu,  *)
(* so each call is one step.  Its removes, stats, renames, opens and       *)
(* writes may fail, a write also half-way, and the process may stop        *)
(* between two records.                                                    *)
(***************************************************************************)
EXTENDS Integers, Sequences, SequencesExt

CONSTANTS AuditKeep,         \* rotated files kept (3 in the code)
          AuditMaxLines,     \* lines of a file before it is rotated (100 MiB in the code)
          MaxRecords         \* bound: calls of Record

VARIABLES
    disk,        \* disk[0] the active file, disk[i] path.i: what was written to them,
                 \* n for the line of the nth record and -n for the torn start of it
    size,        \* a.size
    isOpen,      \* a.file # nil
    calls,       \* calls of Record so far
    unseen       \* history: the files whose Stat failed in the last call
auditVars == <<disk, size, isOpen, calls, unseen>>

Gone == <<>>     \* a missing file: no rotated file is empty
Files == 0..AuditKeep

\* The files that rotateLocked renames, from the oldest down to file "from": an error
\* of Stat, whatever it is, passes for a missing file.
Moved(d, from, stat) == {i \in from..(AuditKeep - 1) : stat[i] /\ d[i] # Gone}

\* Mutant: the loop ends one early and path.1 is overwritten.
ShiftedShort(d, from, stat, removed) ==
    LET moved == Moved(d, from, stat) \ {1} IN
    [i \in Files |-> IF i - 1 \in moved THEN d[i - 1]
                     ELSE IF i \in moved \/ (i = AuditKeep /\ removed) THEN Gone ELSE d[i]]

\* rotateLocked, as far as the renames got: the oldest file is removed, unless that
\* fails, and path.i becomes path.(i+1) (path itself is path.0), over whatever is there.
Shifted(d, from, stat, removed) ==
    LET moved == Moved(d, from, stat) IN
    [i \in Files |-> IF i - 1 \in moved THEN d[i - 1]
                     ELSE IF i \in moved \/ (i = AuditKeep /\ removed) THEN Gone ELSE d[i]]

\* The write succeeds, is cut short or fails; a.size grows by what was written.
WriteLine(d, n) ==
    \E text \in {<<n>>, <<-n>>, <<>>} :
        disk' = [d EXCEPT ![0] = @ \o text] /\ size' = Len(disk'[0])

\* Record on an open file with room.
RecordLine ==
    /\ calls < MaxRecords /\ calls' = calls + 1 /\ unseen' = {}
    /\ isOpen /\ size + 1 <= AuditMaxLines
    /\ WriteLine(disk, calls') /\ UNCHANGED isOpen

\* Record rotates first.  When the Stat of path failed, the full file is opened again.
RecordRotates ==
    /\ calls < MaxRecords /\ calls' = calls + 1
    /\ isOpen /\ size + 1 > AuditMaxLines
    /\ \E stat \in [0..(AuditKeep - 1) -> BOOLEAN], removed \in BOOLEAN :
          /\ unseen' = {i \in DOMAIN stat : ~stat[i]}
          /\ WriteLine(Shifted(disk, 0, stat, removed), calls')
    /\ UNCHANGED isOpen

\* A rename or the open of the fresh file fails.  rotateLocked has already closed
\* the file and leaves it nil, so the write that Record still tries fails as well:
\* this line and all later ones are lost.
RecordRotateFails ==
    /\ calls < MaxRecords /\ calls' = calls + 1
    /\ isOpen /\ size + 1 > AuditMaxLines
    /\ \E stat \in [0..(AuditKeep - 1) -> BOOLEAN], removed \in BOOLEAN, from \in Files :
          /\ unseen' = {i \in DOMAIN stat : ~stat[i]}
          /\ disk' = Shifted(disk, from, stat, removed)
    /\ isOpen' = FALSE /\ UNCHANGED size

RecordLost ==
    /\ calls < MaxRecords /\ calls' = calls + 1 /\ unseen' = {}
    /\ ~isOpen /\ UNCHANGED <<disk, size, isOpen>>

\* NewAuditor of a new process appends to what is there.
AuditorOpens ==
    isOpen' = TRUE /\ size' = Len(disk[0]) /\ unseen' = {} /\ UNCHANGED <<disk, calls>>

AuditInit ==
    /\ disk = [i \in Files |-> Gone] /\ size = 0 /\ isOpen = TRUE /\ calls = 0 /\ unseen = {}

AuditNext == RecordLine \/ RecordRotates \/ RecordRotateFails \/ RecordLost \/ AuditorOpens

\* What the files hold, read from the oldest to the active one, but for those in "lost".
Text(d, lost) ==
    FlattenSeq([i \in 1..(AuditKeep + 1) |->
        IF AuditKeep + 1 - i \in lost THEN <<>> ELSE d[AuditKeep + 1 - i]])

\* MCP-03: whatever a call of Record does, failed and half-done system calls
\* included, what is on disk stays in order; the call adds at most its own line,
\* whole or torn, at the end; and it gives up nothing but the oldest file and, what
\* the code's rotation does not exclude, files whose Stat failed.
AuditLosesOnlyOldest ==
    [][\E new \in {<<>>, <<calls'>>, <<-calls'>>}, lost \in SUBSET ({AuditKeep} \cup unseen') :
          Text(disk', {}) = Text(disk, lost) \o new]_auditVars
=============================================================================
