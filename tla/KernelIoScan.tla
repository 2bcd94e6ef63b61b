---------------------------- MODULE KernelIoScan ----------------------------
(***************************************************************************)
(* The kernel storage-fault scan: kernel_io_scan.py and the cron wrapper   *)
(* kernel-io-scan.sh around it.                                            *)
(*                                                                         *)
(* A scan counts the fault lines of the kernel's ring buffer, which a      *)
(* reboot empties, and publishes the counts in a file, which a reboot      *)
(* leaves.  The first scan of a new boot finds the dead boot's counts in   *)
(* the file and carries them forward.  Scans exclude one another (flock).  *)
(*                                                                         *)
(* A log line stands for the set of patterns it matches; boots are         *)
(* numbered in place of their random identifiers.                          *)
(***************************************************************************)
EXTENDS Integers, Sequences, FiniteSets, FiniteSetsExt

CONSTANTS
    Lines,         \* kinds of kernel log line: the sets of patterns they match
    MaxLog,        \* lines the ring buffer holds (bound)
    MaxBoots,      \* boots (bound)
    Faults,        \* kinds of fault that may happen
    MaxFaults      \* faults (bound)

FaultKinds == {"dmesg", "boot_id", "publish", "damage"}
NoId       == 0

VARIABLES
    \* the machine
    boot,          \* number of the current boot
    ring,          \* the ring buffer, oldest line first
    prom,          \* the published file, as parse_prom reads it
    \* the scan
    pc,            \* "idle" or "render"
    id, log,       \* the boot id and the log it has read
    \* observed by nobody: history for the properties
    published,     \* per boot: what its last scan published, NoCounts if lost
    evicted,       \* has the ring buffer lost a line of this boot
    faults         \* faults so far

scan_vars == <<id, log>>
vars      == <<boot, ring, prom, pc, scan_vars, published, evicted, faults>>
-----------------------------------------------------------------------------
FATAL_CLASSES == {"ext4_remount_ro", "scsi_offline", "disk_zero_capacity",
                  "ext4_error", "journal_aborted", "block_io_error"}

NEVER_NORMAL_CLASSES == {"usb_disconnect", "usb_over_current"}

Patterns_LinkFirst ==
    <<"usb_disconnect", "usb_reset", "usb_over_current", "uas_fault",
      "ext4_remount_ro", "scsi_offline", "disk_zero_capacity",
      "ext4_error", "journal_aborted", "block_io_error">>

\* _PATTERNS, in the order in which they are tried.
Patterns == <<"ext4_remount_ro", "scsi_offline", "disk_zero_capacity",
              "ext4_error", "journal_aborted", "block_io_error",
              "uas_fault", "usb_disconnect", "usb_reset", "usb_over_current">>

CLASSES == {Patterns[k] : k \in DOMAIN Patterns}

ASSUME KernelScanAssumption ==
    /\ Lines \subseteq SUBSET CLASSES
    /\ MaxLog \in Nat \ {0} /\ MaxBoots \in Nat \ {0}
    /\ Faults \subseteq FaultKinds /\ MaxFaults \in Nat

severity_of(c) == IF c \in FATAL_CLASSES THEN "fatal" ELSE
                  IF c \in NEVER_NORMAL_CLASSES THEN "dropout" ELSE "precursor"

\* classify: the first pattern a line matches, "none" if there is none.
classify(line) ==
    LET hits == {k \in DOMAIN Patterns : Patterns[k] \in line}
    IN IF hits = {} THEN "none" ELSE Patterns[Min(hits)]

\* scan: every class has a count.
scan(lines) ==
    [c \in CLASSES |-> Cardinality({k \in DOMAIN lines : classify(lines[k]) = c})]

Zero     == [c \in CLASSES |-> 0]
NoCounts == [c \in {} |-> 0]

\* A file that is missing, empty or unreadable.
NoFile == [boot_id |-> NoId, counts |-> Zero, last_boot |-> NoCounts]

\* parse_prom gives zeros for a snapshot the file does not hold.
LastBootOf(p) == IF p.last_boot = NoCounts THEN Zero ELSE p.last_boot

carry_forward_Mirrors(p, current) ==
    IF p.boot_id = NoId \/ current = NoId THEN LastBootOf(p) ELSE p.counts

carry_forward_Trusting(p, current) ==
    IF p.boot_id # current THEN p.counts ELSE LastBootOf(p)

\* carry_forward: the counts of the boot before, on the first scan of a new
\* one; else what was carried before.
carry_forward(p, current) ==
    IF p.boot_id = NoId \/ current = NoId THEN LastBootOf(p)
    ELSE IF p.boot_id # current THEN p.counts
    ELSE LastBootOf(p)

render_prom_NoSnapshot(lines, current, p) ==
    [boot_id |-> current, counts |-> scan(lines),
     last_boot |-> IF p.boot_id = NoId THEN NoCounts ELSE carry_forward(p, current)]

render_prom_LosesId(lines, current, p) ==
    [boot_id |-> IF p.boot_id = NoId THEN NoId ELSE current, counts |-> scan(lines),
     last_boot |-> carry_forward(p, current)]

\* main and render_prom: without a boot id the file holds the live counts only.
render_prom(lines, current, p) ==
    [boot_id |-> current, counts |-> scan(lines),
     last_boot |-> IF current = NoId THEN NoCounts ELSE carry_forward(p, current)]
-----------------------------------------------------------------------------
Boots  == 1..MaxBoots
Counts == [CLASSES -> 0..MaxLog]

TypeOK ==
    /\ boot \in Boots
    /\ Len(ring) <= MaxLog /\ \A k \in DOMAIN ring : ring[k] \in Lines
    /\ prom.boot_id \in Boots \union {NoId} /\ prom.boot_id <= boot
    /\ prom.counts \in Counts
    /\ prom.boot_id # NoId => prom.last_boot \in Counts
    /\ pc \in {"idle", "render"} /\ id \in {NoId, boot}
    /\ \A b \in Boots : published[b] = NoCounts \/ published[b] \in Counts
    /\ evicted \in BOOLEAN /\ faults \in 0..MaxFaults

Init ==
    /\ boot = 1 /\ ring = <<>> /\ prom = NoFile
    /\ pc = "idle" /\ id = NoId /\ log = <<>>
    /\ published = [b \in Boots |-> NoCounts]
    /\ evicted = FALSE /\ faults = 0

Fault(kind) == kind \in Faults /\ faults < MaxFaults /\ faults' = faults + 1

\* The kernel logs a line; a full buffer drops its oldest.
KernelLogs(line) ==
    /\ IF Len(ring) < MaxLog
       THEN ring' = Append(ring, line) /\ UNCHANGED evicted
       ELSE ring' = Append(Tail(ring), line) /\ evicted' = TRUE
    /\ UNCHANGED <<boot, prom, pc, scan_vars, published, faults>>

ReadLog_EmptyOnError ==
    /\ pc = "idle"
    /\ \/ id' = boot /\ log' = ring /\ UNCHANGED faults
       \/ id' = NoId /\ log' = ring /\ Fault("boot_id")
       \/ id' = boot /\ log' = <<>> /\ Fault("dmesg")
    /\ pc' = "render"
    /\ UNCHANGED <<boot, ring, prom, published, evicted>>

\* The wrapper reads the boot id, empty if it cannot, and the log.  Without
\* the log it leaves the published file alone.
ReadLog ==
    /\ pc = "idle"
    /\ \/ id' = boot /\ log' = ring /\ pc' = "render" /\ UNCHANGED faults
       \/ id' = NoId /\ log' = ring /\ pc' = "render" /\ Fault("boot_id")
       \/ UNCHANGED <<scan_vars, pc>> /\ Fault("dmesg")
    /\ UNCHANGED <<boot, ring, prom, published, evicted>>

\* What remains to be told of earlier boots once a file without a boot id has
\* replaced the one that named them.
Recorded(p) ==
    IF p.boot_id = NoId THEN [b \in Boots |-> NoCounts]
    ELSE [published EXCEPT ![boot] = p.counts]

\* The scanner reads the file of the scan before and its output replaces it;
\* an output that could not be written in full is thrown away.
Publish ==
    /\ pc = "render"
    /\ \/ /\ prom' = render_prom(log, id, prom)
          /\ published' = Recorded(prom')
          /\ UNCHANGED faults
       \/ UNCHANGED <<prom, published>> /\ Fault("publish")
    /\ pc' = "idle" /\ id' = NoId /\ log' = <<>>
    /\ UNCHANGED <<boot, ring, evicted>>

\* The machine restarts, perhaps in the middle of a scan.  A power cut may
\* leave the file empty, or cut off before the line with the boot id.
Reboot ==
    /\ boot < MaxBoots
    /\ boot' = boot + 1 /\ ring' = <<>> /\ evicted' = FALSE
    /\ pc' = "idle" /\ id' = NoId /\ log' = <<>>
    /\ \/ UNCHANGED <<prom, published, faults>>
       \/ /\ Fault("damage")
          /\ \/ prom' = NoFile /\ published' = [b \in Boots |-> NoCounts]
             \/ /\ prom' = [prom EXCEPT !.boot_id = NoId]
                /\ published' = IF prom.boot_id = NoId THEN published
                                ELSE [published EXCEPT ![prom.boot_id] = NoCounts]

Next ==
    \/ \E line \in Lines : KernelLogs(line)
    \/ ReadLog \/ Publish \/ Reboot

Spec == Init /\ [][Next]_vars

\* cron runs the scan every five minutes.
FairSpec == Spec /\ WF_vars(ReadLog) /\ WF_vars(Publish)
-----------------------------------------------------------------------------
(* Properties.                                                             *)

\* What the last boot before this one that published anything published.
Evidence ==
    LET earlier == {b \in Boots : b < boot /\ published[b] # NoCounts}
    IN IF earlier = {} THEN Zero ELSE published[Max(earlier)]

\* Once a boot has published, the snapshot it shows is the last scan of the
\* boot before, whatever scans failed and however many reboots cut a scan off:
\* neither a second scan nor a damaged file replaces the evidence by the live
\* counts (kernel_io_scan.py:241-264).
EvidenceSurvives == prom.boot_id = boot => prom.last_boot = Evidence

\* Every line that matches a fatal pattern counts in a fatal class, whatever
\* else it matches: the order of the patterns hides none behind a precursor
\* (kernel_io_scan.py:50-52, 166-178).
FatalVisible ==
    pc = "render" =>
        LET live == scan(log)
        IN Cardinality({k \in DOMAIN log : log[k] \cap FATAL_CLASSES # {}})
           <= MapThenSumSet(LAMBDA c : live[c], {c \in CLASSES : severity_of(c) = "fatal"})

\* Within a boot no published count falls unless the ring buffer has wrapped:
\* a scan that fails does not zero out a real fault
\* (kernel-io-scan.sh.j2:56-62 and 70-81).
NeverZeroed ==
    [][boot' = boot /\ prom.boot_id = boot /\ ~evicted
          => \A c \in CLASSES : prom'.counts[c] >= prom.counts[c]]_vars

\* A boot's scans come to publish under its own id again, after a failed scan,
\* a damaged file and a reboot in the middle of a scan
\* (kernel_io_scan.py:205-238, 336-350).
ScanResumes == []<>(prom.boot_id = boot)
=============================================================================
