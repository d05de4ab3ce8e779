----------------------------- MODULE ReportView -----------------------------
(* What main of agent/monitor.py makes of a finished report: the view of the    *)
(* mode asked for, made readable (-H) or not, printed as JSON or rendered as a  *)
(* page by agent/html_report.py, and the exit code.  The page makes numbers     *)
(* readable by itself, so a number may meet two formatters on its way; a field  *)
(* is followed by how often it has been formatted.                              *)
EXTENDS Naturals

CONSTANTS
  DiskLevels,      \* percentages a filesystem may be used to
  DiskLimits       \* what HEALTH_DISK_WARN and HEALTH_DISK_CRIT may be set to

VARIABLES
  options,         \* the command line
  collected,       \* the report: the fields it could fill, its verdict, the
                   \* fullest filesystem and the limits it was judged by
  doing_main,      \* what main does next
  view,            \* field -> how often it has been formatted
  output,          \* what the reader gets, field -> how often it was formatted
  colour,          \* of the fullest filesystem's row of the page
  exit_code        \* of the process

viewVars == <<options, collected, doing_main, view, output, colour, exit_code>>

ASSUME ViewAssumption ==
  /\ DiskLevels \subseteq 0..100 /\ DiskLevels # {}
  /\ DiskLimits \subseteq [warn : 0..100, crit : 0..100] /\ DiskLimits # {}

DefaultLimits == [warn |-> 80, crit |-> 90]

-----------------------------------------------------------------------------
(* The fields. *)

DiskIO == {"read_bytes_per_sec"}
FilesystemFields == {"fs_used_percent", "fs_free"}
Pressure == {"iowait_percent"}
Processes == {"cpu_percent"}
Required == {"cpu", "memory_used_percent", "available", "root_used_percent", "root_free",
             "bytes_sent", "load"}
Core == Required \cup DiskIO \cup FilesystemFields \cup Pressure

\* What a view of the mode holds, but for what could not be collected
InMode(mode) ==
  CASE mode = "simple"  -> Core
    [] mode = "default" -> Core \cup {"uptime_seconds"}
    [] mode = "all"     -> Core \cup {"uptime_seconds", "size_bytes"} \cup Processes

Fields == InMode("all") \cup {"uptime"}
Sometimes == {DiskIO, FilesystemFields, Pressure, Processes}

\* Mutated: what is text already is formatted once more.
Formatted_Again(times) == times + 1

\* isinstance(value, (int, float))
Formatted(times) == IF times = 0 THEN 1 ELSE times

\* What generate_html and its renderers format: all but the load and the disk rates
OnPage == Fields \ ({"load"} \cup DiskIO)

Format(fields, these) ==
  [f \in DOMAIN fields |-> IF f \in these THEN Formatted(fields[f]) ELSE fields[f]]

\* Mutated: a filesystem at a limit is over it.
Colour_AtLimit(level, formatted) ==
  IF formatted # 0 THEN "none"
  ELSE IF level >= 90 THEN "bad" ELSE IF level >= 80 THEN "warn" ELSE "good"

\* render_filesystems: its own limits, and a text has no colour
Colour(level, formatted) ==
  IF formatted # 0 THEN "none"
  ELSE IF level > 90 THEN "bad" ELSE IF level > 80 THEN "warn" ELSE "good"

Verdict(level, limits) ==
  IF level > limits.crit THEN "CRITICAL" ELSE IF level > limits.warn THEN "WARNING" ELSE "HEALTHY"

-----------------------------------------------------------------------------
(* main. *)

Stage(here, there) == doing_main = here /\ doing_main' = there

\* Mutated: the mode `all' replaces what the default mode added.
BuildView_Replaces ==
  /\ Stage("build", "humanize")
  /\ view' = [f \in (InMode(options.mode) \cap collected.fields)
                     \ (IF options.mode = "all" THEN {"uptime_seconds"} ELSE {}) |-> 0]
  /\ UNCHANGED <<options, collected, output, colour, exit_code>>

\* build_view
BuildView ==
  /\ Stage("build", "humanize")
  /\ view' = [f \in InMode(options.mode) \cap collected.fields |-> 0]
  /\ UNCHANGED <<options, collected, output, colour, exit_code>>

\* humanize_view, which also renames the uptime
HumanizeView ==
  /\ Stage("humanize", "write") /\ options.human
  /\ LET renamed == {"uptime_seconds"} \cap DOMAIN view
         fields  == (DOMAIN view \ renamed) \cup (IF renamed = {} THEN {} ELSE {"uptime"})
     IN  view' = [f \in fields |->
                    IF f = "uptime" THEN Formatted(view["uptime_seconds"]) ELSE Formatted(view[f])]
  /\ UNCHANGED <<options, collected, output, colour, exit_code>>

KeepView ==
  /\ Stage("humanize", "write") /\ ~options.human
  /\ UNCHANGED <<options, collected, view, output, colour, exit_code>>

PrintJson ==
  /\ Stage("write", "exit") /\ ~options.html
  /\ output' = view
  /\ UNCHANGED <<options, collected, view, colour, exit_code>>

\* generate_html, which knows the uptime by its first name only
GenerateHtml ==
  /\ Stage("write", "exit") /\ options.html
  /\ output' = Format([f \in DOMAIN view \ {"uptime"} |-> view[f]], OnPage)
  /\ colour' = IF FilesystemFields \subseteq DOMAIN view
               THEN Colour(collected.level, view["fs_used_percent"]) ELSE "none"
  /\ UNCHANGED <<options, collected, view, exit_code>>

Code(status) == CASE status = "HEALTHY" -> 0 [] status = "WARNING" -> 1 [] status = "CRITICAL" -> 2

\* Mutated: the exit code is that of the view, which need not have a verdict.
ExitMain_OfView ==
  /\ Stage("exit", "over")
  /\ exit_code' = IF options.exits /\ options.mode # "simple" THEN Code(collected.status) ELSE 0
  /\ UNCHANGED <<options, collected, view, output, colour>>

\* The verdict is the report's, whatever the view left of it.
ExitMain ==
  /\ Stage("exit", "over")
  /\ exit_code' = IF options.exits THEN Code(collected.status) ELSE 0
  /\ UNCHANGED <<options, collected, view, output, colour>>

-----------------------------------------------------------------------------

Options == [mode : {"simple", "default", "all"}, human : BOOLEAN, html : BOOLEAN, exits : BOOLEAN]

Collection(level, limits, missing) ==
  [fields |-> InMode("all") \ UNION missing, level |-> level, limits |-> limits,
   status |-> IF FilesystemFields \in missing THEN "HEALTHY" ELSE Verdict(level, limits)]

Collections ==
  {Collection(level, limits, missing) :
     level \in DiskLevels, limits \in DiskLimits, missing \in SUBSET Sometimes}

ViewInit ==
  /\ options \in Options /\ collected \in Collections /\ doing_main = "build"
  /\ view = <<>> /\ output = <<>> /\ colour = "none" /\ exit_code = 0

\* the next run of the same command
NextMain ==
  /\ Stage("over", "build") /\ collected' \in Collections /\ UNCHANGED options
  /\ view' = <<>> /\ output' = <<>> /\ colour' = "none" /\ exit_code' = 0

ViewNext ==
  BuildView \/ HumanizeView \/ KeepView \/ PrintJson \/ GenerateHtml \/ ExitMain \/ NextMain

ViewSpec == ViewInit /\ [][ViewNext]_viewVars

-----------------------------------------------------------------------------
(* Properties. *)

\* Type correctness of the command, the view and the output.
ViewTypeOK ==
  /\ options \in Options /\ collected \in Collections
  /\ doing_main \in {"build", "humanize", "write", "exit", "over"}
  /\ DOMAIN view \subseteq Fields /\ DOMAIN output \subseteq Fields
  /\ colour \in {"none", "good", "warn", "bad"} /\ exit_code \in 0..2

Written == doing_main \in {"exit", "over"}

\* No number is formatted twice on its way to the reader, although -H --html sends
\* most through two formatters; JSON has them all raw or all readable, and so has
\* a page, but for the load and the disk rates, which are raw on it without -H.
FormattedOnce ==
  Written => \A f \in DOMAIN output :
    output[f] = IF options.human \/ (options.html /\ f \in OnPage) THEN 1 ELSE 0

\* What was collected and belongs to the mode reaches the reader, with one exception:
\* a page made with -H has no uptime.
ReachesReader ==
  Written => \A f \in InMode(options.mode) \cap collected.fields :
    \/ f \in DOMAIN output
    \/ f = "uptime_seconds" /\ options.human /\ (options.html \/ "uptime" \in DOMAIN output)

\* The page and the exit code do not contradict each other: at the default limits
\* the row of a filesystem that made the verdict has the verdict's colour, with or
\* without the features (but not with -H, which leaves no number to colour), and a
\* page without a verdict goes with the same exit code as one that has it.
PageAgreesWithExit ==
  /\ Written /\ options.html /\ ~options.human /\ collected.limits = DefaultLimits
     /\ FilesystemFields \subseteq collected.fields
     => colour = CASE collected.status = "HEALTHY"  -> "good"
                   [] collected.status = "WARNING"  -> "warn"
                   [] collected.status = "CRITICAL" -> "bad"
  /\ doing_main = "over" /\ options.exits => exit_code = Code(collected.status)
=============================================================================
