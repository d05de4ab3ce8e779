---------------------------- MODULE Filesystems ----------------------------
(* get_filesystems of agent/system_metrics.py.  df lists the mounted             *)
(* filesystems and asks each one for its usage, and it is only when df is done   *)
(* that /proc/mounts says which of its rows matter.  Filesystems are mounted,    *)
(* unmounted, remounted and filled meanwhile, a remote one may not answer, one   *)
(* may answer with an error, and /proc/mounts may be unreadable.                 *)
EXTENDS Naturals, FiniteSets

CONSTANTS
  Points,          \* mount points
  MaxChanges       \* bound on what happens to them

VARIABLES
  table,           \* point -> what is mounted there, or None
  hung,            \* the servers of the remote filesystems do not answer
  df,              \* what get_filesystems does next
  unasked,         \* points df has listed and not asked yet
  rows,            \* point -> the filesystem that answered df there, or None
  reported,        \* the points of the list get_filesystems returns
  steady,          \* history: points where nothing was mounted, unmounted or
                   \* remounted since df began
  refused,         \* history: points df got no usage of, or none that is a number
  mountsRead,      \* history: /proc/mounts was read
  changes          \* at most MaxChanges

filesystemHistory == <<steady, refused, mountsRead>>
filesystemVars ==
  <<table, hung, df, unasked, rows, reported, steady, refused, mountsRead, changes>>

ASSUME FilesystemAssumption == IsFiniteSet(Points) /\ MaxChanges \in Nat

\* What may be mounted: a disk, writable or (an image, an error) read-only; a tmpfs;
\* a type of EXCLUDED_FS_TYPES, remote or not; a new synthetic type, without capacity.
Mounted ==
  [fstype : {"disk"}, ro : BOOLEAN, use : {"some", "all"}]
    \cup [fstype : {"tmpfs"}, ro : {FALSE}, use : {"some", "all"}]
    \cup [fstype : {"remote", "overlay"}, ro : {FALSE}, use : {"some"}]
    \cup [fstype : {"synthetic"}, ro : {FALSE}, use : {"nothing"}]
None == [fstype |-> "none", ro |-> FALSE, use |-> "nothing"]

-----------------------------------------------------------------------------
(* get_filesystems. *)

Continues(here, there) == df = here /\ df' = there

Begins ==
  /\ Continues("idle", "df")
  /\ unasked' = {p \in Points : table[p] # None}
  /\ rows' = [p \in Points |-> None] /\ reported' = {} /\ steady' = Points
  /\ UNCHANGED <<table, hung, refused, mountsRead, changes>>

\* One row of df; a point that is gone by now has none.
Asks(p) ==
  /\ df = "df" /\ p \in unasked /\ ~(hung /\ table[p].fstype = "remote")
  /\ unasked' = unasked \ {p}
  /\ rows' = [rows EXCEPT ![p] = table[p]]
  /\ UNCHANGED <<table, hung, df, reported, filesystemHistory, changes>>

\* A point without a row, or with one that is skipped: statfs fails there, or its
\* columns are no numbers.
Refuses(p) ==
  /\ df = "df" /\ p \in unasked /\ ~(hung /\ table[p].fstype = "remote")
  /\ unasked' = unasked \ {p} /\ refused' = refused \cup {p}
  /\ UNCHANGED <<table, hung, df, rows, reported, steady, mountsRead, changes>>

\* run_command's timeout, after which nothing of df's output is left
TimesOut ==
  /\ Continues("df", "mounts")
  /\ hung /\ \E p \in unasked : table[p].fstype = "remote"
  /\ unasked' = {} /\ rows' = [p \in Points |-> None]
  /\ UNCHANGED <<table, hung, reported, filesystemHistory, changes>>

Ends ==
  /\ Continues("df", "mounts") /\ unasked = {}
  /\ UNCHANGED <<table, hung, unasked, rows, reported, filesystemHistory, changes>>

\* EXCLUDED_FS_TYPES
Excluded == {"remote", "overlay"}

\* Mutated: a tmpfs is no disk.
IsReportable_Disks(info) == info = None \/ (~info.ro /\ info.fstype \notin Excluded \cup {"tmpfs"})

\* Mutated: read-only filesystems are reported like the others.
IsReportable_ReadOnly(info) == info = None \/ info.fstype \notin Excluded

\* _is_reportable_filesystem: a point that is not in /proc/mounts is kept
IsReportable(info) == info = None \/ (~info.ro /\ info.fstype \notin Excluded)

\* _read_mounts, which knows no mount when the file cannot be read, and the loop over
\* df's rows
Reports ==
  /\ Continues("mounts", "done")
  /\ mountsRead' \in BOOLEAN
  /\ reported' = {p \in Points : rows[p].use # "nothing" /\
                                 IsReportable(IF mountsRead' THEN table[p] ELSE None)}
  /\ UNCHANGED <<table, hung, unasked, rows, steady, refused, changes>>

Returns ==
  /\ Continues("done", "idle")
  /\ reported' = {} /\ rows' = [p \in Points |-> None] /\ changes' = 0
  /\ refused' = {} /\ mountsRead' = TRUE
  /\ UNCHANGED <<table, hung, unasked, steady>>

-----------------------------------------------------------------------------
(* The host. *)

Changes == changes < MaxChanges /\ changes' = changes + 1 /\ df # "done"

\* mount, umount, a remount after an error, an image replaced by the next one
Remounts(p, fs) ==
  /\ Changes /\ table[p] # fs
  /\ table' = [table EXCEPT ![p] = fs] /\ steady' = steady \ {p}
  /\ UNCHANGED <<hung, df, unasked, rows, reported, refused, mountsRead>>

Fills(p, use) ==
  /\ Changes /\ table[p].use \in {"some", "all"} \ {use} /\ ~table[p].ro
  /\ table[p].fstype \in {"disk", "tmpfs"}
  /\ table' = [table EXCEPT ![p].use = use]
  /\ UNCHANGED <<hung, df, unasked, rows, reported, filesystemHistory>>

ServerTurns ==
  /\ Changes /\ hung' = ~hung
  /\ UNCHANGED <<table, df, unasked, rows, reported, filesystemHistory>>

-----------------------------------------------------------------------------

FilesystemInit ==
  /\ table \in [Points -> Mounted \cup {None}] /\ hung \in BOOLEAN
  /\ df = "idle" /\ unasked = {} /\ rows = [p \in Points |-> None]
  /\ reported = {} /\ steady = Points /\ refused = {} /\ mountsRead = TRUE
  /\ changes = 0

FilesystemNext ==
  \/ Begins \/ Ends \/ TimesOut \/ Reports \/ Returns \/ ServerTurns
  \/ \E p \in Points :
       \/ Asks(p) \/ Refuses(p)
       \/ \E fs \in Mounted \cup {None} : Remounts(p, fs)
       \/ \E use \in {"some", "all"} : Fills(p, use)

FilesystemSpec == FilesystemInit /\ [][FilesystemNext]_filesystemVars

-----------------------------------------------------------------------------
(* Properties. *)

\* Type correctness of the mount table and of what was read of it.
FilesystemTypeOK ==
  /\ table \in [Points -> Mounted \cup {None}] /\ rows \in [Points -> Mounted \cup {None}]
  /\ df \in {"idle", "df", "mounts", "done"} /\ hung \in BOOLEAN
  /\ unasked \in SUBSET Points /\ reported \in SUBSET Points /\ steady \in SUBSET Points
  /\ refused \in SUBSET Points /\ mountsRead \in BOOLEAN /\ changes \in 0..MaxChanges

\* An operational concern: a disk or a tmpfs that can be written
Concern(fs) == fs.fstype \in {"disk", "tmpfs"} /\ ~fs.ro

\* What is reported is of operational concern: an image that is full for ever, or a
\* remote filesystem, gets into the list only if its mount point changed hands
\* between df's row and the reading of /proc/mounts, or if that file was not read;
\* and what has no capacity does not even then.
ReportedConcerns ==
  \A p \in reported :
    /\ mountsRead => Concern(rows[p]) \/ p \notin steady
    /\ rows[p] # None /\ rows[p].fstype # "synthetic"

\* No filesystem of operational concern is hidden that stayed mounted while the list
\* was made and answered df, unless df was stopped over a remote one; the row it is
\* reported with is its own, and an unreadable /proc/mounts hides nothing either.
NoConcernHidden ==
  df = "done" /\ (\E p \in Points : rows[p] # None) =>
    \A p \in steady \ refused : Concern(table[p]) => p \in reported /\ Concern(rows[p])

\* What the comment at EXCLUDED_FS_TYPES and _is_reportable_filesystem say of the
\* types left out, "a hung server would stall df": a server that hangs takes no
\* local filesystem out of the report.
HungServerHidesNothing ==
  df = "done" => \A p \in steady \ refused : Concern(table[p]) => p \in reported
=============================================================================
