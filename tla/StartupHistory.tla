----------------------------- MODULE StartupHistory ----------------------------
(***************************************************************************)
(* The history of the host's boots: the record that each start of the      *)
(* process may add to startup-history.jsonl (backend/cmd/unyport/main.go)  *)
(* and the heat map of the year that is drawn from it, or from unyport.log *)
(* when it has nothing to say (RebootsHandler, backend/sse/broker.go).     *)
(*                                                                         *)
(* A line of the history is the record of a start, or Garbage when it does *)
(* not parse. A write may be cut short, by a full disk or a power cut: it  *)
(* leaves a line without its end, and the next record is glued to it.      *)
(***************************************************************************)
EXTENDS Integers, Sequences, FiniteSets

CONSTANTS
  Hosts,              \* what hosts can tell: subsets of {"boot_id", "uptime"}
  YearLength,         \* days of a year
  Stamps,             \* the values that now minus the uptime takes during a boot
  MaxBoots, MaxDay, MaxLines, MaxFaults   \* bounds on what happens

Days == 0 .. MaxDay
Year(d) == d \div YearLength

ASSUME HistAssumption ==
  /\ Hosts \subseteq SUBSET {"boot_id", "uptime"}
  /\ YearLength \in Nat \ {0}
  /\ MaxBoots \in Nat /\ MaxDay \in Nat /\ MaxLines \in Nat /\ MaxFaults \in Nat

VARIABLES
  host,       \* what /proc tells on this host
  today,
  bootDay,    \* the day of each boot of the host, the last one being current
  process,    \* "down", "checking", "recording" or "running"
  lines,      \* startup-history.jsonl
  openLine,   \* its last line has no end
  logLines,   \* lines of unyport.log that startupLogPattern matches, by day (the
              \* clock is UTC: in another zone the pattern matches no line)
  starts,     \* history: starts of the process, by day
  started,    \* history: boots in which the process came to run
  faults      \* history: appends that were cut short, that wrote nothing

histVars == <<host, today, bootDay, process, lines, openLine, logLines, starts,
              started, faults>>

NoStamp == << >>
Garbage == [of |-> 0, boot_id |-> 0, rebooted_at |-> NoStamp, day |-> 0]

boot == Len(bootDay)

\* One more today, up to the bound.
OneMore(counts) ==
  [counts EXCEPT ![today] = IF @ < MaxLines THEN @ + 1 ELSE @]

HistInit ==
  /\ host \in Hosts
  /\ today = 0
  /\ bootDay = <<0>>
  /\ process = "down"
  /\ lines = <<>> /\ openLine = FALSE
  /\ logLines = [d \in Days |-> 0] /\ starts = [d \in Days |-> 0]
  /\ started = {}
  /\ faults = [short |-> 0, empty |-> 0]

-------------------------------------------------------------------------------
(* The host.                                                               *)

NextDay ==
  /\ today < MaxDay
  /\ today' = today + 1
  /\ UNCHANGED <<host, bootDay, process, lines, openLine, logLines, starts, started, faults>>

Reboot ==
  /\ boot < MaxBoots
  /\ bootDay' = Append(bootDay, today)
  /\ process' = "down"
  /\ UNCHANGED <<host, today, lines, openLine, logLines, starts, started, faults>>

StopProcess ==
  /\ process # "down"
  /\ process' = "down"
  /\ UNCHANGED <<host, today, bootDay, lines, openLine, logLines, starts, started, faults>>

\* main logs "startup".
StartProcess ==
  /\ process = "down"
  /\ process' = "checking"
  /\ logLines' = OneMore(logLines)
  /\ starts' = OneMore(starts)
  /\ UNCHANGED <<host, today, bootDay, lines, openLine, started, faults>>

-------------------------------------------------------------------------------
(* recordStartupEvent.                                                     *)

\* Mistake: the day of the start, not of the boot.
EventToday(stamp) ==
  [of |-> boot, boot_id |-> IF "boot_id" \in host THEN boot ELSE 0,
   rebooted_at |-> IF "uptime" \in host THEN <<boot, stamp>> ELSE NoStamp, day |-> today]

\* A boot_id is the boot's own; the time of the boot is computed from the
\* clock, to the nanosecond, and differs from start to start.
Event(stamp) ==
  [of |-> boot, boot_id |-> IF "boot_id" \in host THEN boot ELSE 0,
   rebooted_at |-> IF "uptime" \in host THEN <<boot, stamp>> ELSE NoStamp,
   day |-> IF "uptime" \in host THEN bootDay[boot] ELSE today]

Parsed == {i \in DOMAIN lines : lines[i] # Garbage}

\* startupHistoryContains
Contains(e) ==
  \E i \in Parsed :
    \/ e.boot_id # 0 /\ lines[i].boot_id = e.boot_id
    \/ e.rebooted_at # NoStamp /\ lines[i].rebooted_at = e.rebooted_at

\* Mistake: a record is written without the end of its line.
WrittenUnended(e, unended) ==
  /\ lines' = IF openLine THEN [lines EXCEPT ![Len(lines)] = Garbage] ELSE Append(lines, e)
  /\ openLine' = TRUE

\* The file after an append: glued to a line without an end, no line parses.
Written(e, unended) ==
  /\ lines' = IF openLine THEN [lines EXCEPT ![Len(lines)] = Garbage] ELSE Append(lines, e)
  /\ openLine' = unended

\* The start is in the history already, or goes on to append itself.
Check(stamp) ==
  /\ process = "checking"
  /\ IF Contains(Event(stamp))
       THEN process' = "running" /\ started' = started \cup {boot}
       ELSE process' = "recording" /\ UNCHANGED started
  /\ UNCHANGED <<host, today, bootDay, lines, openLine, logLines, starts, faults>>

Record(stamp) ==
  /\ process = "recording"
  /\ Len(lines) < MaxLines
  /\ Written(Event(stamp), FALSE)
  /\ process' = "running"
  /\ started' = started \cup {boot}
  /\ UNCHANGED <<host, today, bootDay, logLines, starts, faults>>

\* The disk is full: the write stops within the record, or just before the end
\* of its line. The warning starts with "startup", as the line of a start does,
\* and startupLogPattern matches it.
RecordShort(stamp) ==
  /\ process = "recording"
  /\ faults.short < MaxFaults /\ Len(lines) < MaxLines
  /\ \E e \in {Event(stamp), Garbage} : Written(e, TRUE)
  /\ faults' = [faults EXCEPT !.short = @ + 1]
  /\ logLines' = OneMore(logLines)
  /\ process' = "running"
  /\ started' = started \cup {boot}
  /\ UNCHANGED <<host, today, bootDay, starts>>

\* The power goes in the middle of the write: the host boots again.
PowerCut(stamp) ==
  /\ process = "recording"
  /\ faults.short < MaxFaults /\ Len(lines) < MaxLines /\ boot < MaxBoots
  /\ \E e \in {Event(stamp), Garbage} : Written(e, TRUE)
  /\ faults' = [faults EXCEPT !.short = @ + 1]
  /\ bootDay' = Append(bootDay, today)
  /\ process' = "down"
  /\ UNCHANGED <<host, today, logLines, starts, started>>

\* The directory or the file cannot be opened: a warning of the same kind.
RecordFails ==
  /\ process = "recording"
  /\ faults.empty < MaxFaults
  /\ faults' = [faults EXCEPT !.empty = @ + 1]
  /\ logLines' = OneMore(logLines)
  /\ process' = "running"
  /\ started' = started \cup {boot}
  /\ UNCHANGED <<host, today, bootDay, lines, openLine, starts>>

-------------------------------------------------------------------------------
(* RebootsHandler.                                                         *)

\* The first of the parsed lines with the same identity; a line with neither a
\* boot_id nor a time of the boot is always counted.
FirstOfItsBoot(i) ==
  \A j \in Parsed : j < i =>
    IF lines[i].boot_id # 0 THEN lines[j].boot_id # lines[i].boot_id
    ELSE \/ lines[i].rebooted_at = NoStamp
         \/ lines[j].boot_id # 0
         \/ lines[j].rebooted_at # lines[i].rebooted_at

\* parseStartupHistoryByDay
HistoryCount(d) == Cardinality({i \in Parsed : lines[i].day = d /\ FirstOfItsBoot(i)})

HistoryServes == \E d \in Days : Year(d) = Year(today) /\ HistoryCount(d) > 0

\* The file has never been created: the handler says so in a warning, which the
\* pattern matches too, before it reads the log.
HistoryMissing == lines = <<>>

\* What the page shows for a day of this year.
HeatMap(d) ==
  IF HistoryServes THEN HistoryCount(d)
  ELSE logLines[d] + (IF HistoryMissing /\ d = today THEN 1 ELSE 0)

ViewReboots ==
  /\ process = "running"
  /\ HistoryMissing
  /\ logLines' = OneMore(logLines)
  /\ UNCHANGED <<host, today, bootDay, process, lines, openLine, starts, started, faults>>

HistNext ==
  \/ NextDay \/ Reboot \/ StopProcess \/ StartProcess
  \/ \E stamp \in Stamps : Check(stamp) \/ Record(stamp) \/ RecordShort(stamp) \/ PowerCut(stamp)
  \/ RecordFails
  \/ ViewReboots

HistSpec == HistInit /\ [][HistNext]_histVars

-------------------------------------------------------------------------------
(* Correctness.                                                            *)

Recorded(b) == \E i \in Parsed : lines[i].of = b

\* Where the host tells its boot_id, the history has at most one record of a
\* boot however often the process restarts, and it misses a boot only for an
\* append that wrote nothing, or two boots for one that was cut short: its own
\* and the one whose record was glued to it.
HistoryHoldsEachBoot ==
  "boot_id" \in host =>
    /\ \A i, j \in Parsed : lines[i].of = lines[j].of => i = j
    /\ Cardinality({b \in started : ~Recorded(b)}) <= 2 * faults.short + faults.empty

\* There, what the heat map takes from the history are boots of the host: each
\* recorded boot counts once, on the day the host booted and not on the day the
\* process was started, where the time of the boot can be told.
HeatMapCountsBoots ==
  host = {"boot_id", "uptime"} =>
    \A d \in Days :
      HistoryCount(d) = Cardinality({b \in 1 .. boot : bootDay[b] = d /\ Recorded(b)})

\* index.html:448 calls what the map counts restarts: a day never shows more of
\* them than the process has had starts.
HeatMapCountsRestarts ==
  process = "running" => \A d \in Days : Year(d) = Year(today) => HeatMap(d) <= starts[d]
===============================================================================
