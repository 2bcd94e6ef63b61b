------------------------ MODULE KernelIoScanProofs --------------------------
(***************************************************************************)
(* Proofs about the kernel storage-fault scan, for any kinds of log line,  *)
(* any size of the ring buffer, and any number of boots and faults.        *)
(***************************************************************************)
EXTENDS KernelIoScan, FiniteSetTheorems, WellFoundedInduction, TLAPS

(* Counts.                                                                 *)

\* The lines of a log that count in a class.
Hits(lines, c) == {k \in DOMAIN lines : classify(lines[k]) = c}

LEMMA ClassesExist == CLASSES # {}
<1>1. Patterns[1] \in CLASSES
    BY DEF CLASSES, Patterns
<1>2. QED
    BY <1>1

LEMMA HitsFinite ==
    ASSUME NEW lines \in Seq(Lines), NEW c
    PROVE  /\ IsFiniteSet(Hits(lines, c))
           /\ Cardinality(Hits(lines, c)) \in 0..Len(lines)
<1>1. Len(lines) \in Nat /\ DOMAIN lines = 1..Len(lines)
    OBVIOUS
<1>2. Hits(lines, c) \in SUBSET (1..Len(lines))
    BY <1>1 DEF Hits
<1>3. IsFiniteSet(1..Len(lines)) /\ Cardinality(1..Len(lines)) = Len(lines)
    BY <1>1, FS_Interval
<1>4. IsFiniteSet(Hits(lines, c)) /\ Cardinality(Hits(lines, c)) <= Len(lines)
    BY <1>2, <1>3, FS_Subset
<1>5. QED
    BY <1>1, <1>4, FS_CardinalityType

LEMMA ScanIs ==
    ASSUME NEW lines
    PROVE  scan(lines) = [c \in CLASSES |-> Cardinality(Hits(lines, c))]
BY DEF scan, Hits

LEMMA ScanType ==
    ASSUME NEW lines \in Seq(Lines), Len(lines) <= MaxLog
    PROVE  scan(lines) \in Counts
<1>1. \A c \in CLASSES : Cardinality(Hits(lines, c)) \in 0..MaxLog
    BY HitsFinite, KernelScanAssumption
<1>2. QED
    BY <1>1, ScanIs DEF Counts

\* A log that goes on counts no less in any class.
LEMMA ScanGrows ==
    ASSUME NEW early \in Seq(Lines), NEW late \in Seq(Lines), Len(early) <= Len(late),
           \A k \in 1..Len(early) : early[k] = late[k]
    PROVE  \A c \in CLASSES : scan(early)[c] <= scan(late)[c]
<1>1. SUFFICES ASSUME NEW c \in CLASSES
               PROVE  Cardinality(Hits(early, c)) <= Cardinality(Hits(late, c))
    BY ScanIs
<1>2. Hits(early, c) \in SUBSET Hits(late, c)
    BY DEF Hits
<1>3. QED
    BY <1>2, HitsFinite, FS_Subset

LEMMA CountsAreCounts == Zero \in Counts /\ NoCounts \notin Counts
<1>1. Zero \in Counts
    BY KernelScanAssumption DEF Zero, Counts
<1>2. DOMAIN NoCounts = {}
    BY DEF NoCounts
<1>3. QED
    BY <1>1, <1>2, ClassesExist DEF Counts
-----------------------------------------------------------------------------
(* Types.                                                                  *)

MachineTypes ==
    /\ boot \in Boots /\ ring \in Seq(Lines) /\ Len(ring) <= MaxLog
    /\ evicted \in BOOLEAN

ScanTypes ==
    /\ pc \in {"idle", "render"} /\ id \in {NoId, boot}
    /\ log \in Seq(Lines) /\ Len(log) <= MaxLog

PromTypes ==
    /\ prom \in [boot_id : 0..boot, counts : Counts, last_boot : Counts \union {NoCounts}]
    /\ prom.boot_id # NoId => prom.last_boot \in Counts
    /\ published \in [Boots -> Counts \union {NoCounts}]

Types == MachineTypes /\ ScanTypes /\ PromTypes /\ faults \in 0..MaxFaults

LEMMA TypesImply == Types => TypeOK
<1> SUFFICES ASSUME Types PROVE TypeOK
    OBVIOUS
<1>1. boot \in Boots /\ Len(ring) <= MaxLog /\ \A k \in DOMAIN ring : ring[k] \in Lines
    BY DEF Types, MachineTypes
<1>2. prom.boot_id \in 0..boot /\ prom.counts \in Counts
    BY DEF Types, PromTypes
<1>3. prom.boot_id \in Boots \union {NoId} /\ prom.boot_id <= boot
    BY <1>1, <1>2, KernelScanAssumption DEF Boots, NoId
<1>4. \A b \in Boots : published[b] = NoCounts \/ published[b] \in Counts
    BY DEF Types, PromTypes
<1>5. QED
    BY <1>1, <1>2, <1>3, <1>4 DEF TypeOK, Types, MachineTypes, ScanTypes, PromTypes

LEMMA FaultType ==
    ASSUME Types, NEW k, Fault(k)
    PROVE  faults' \in 0..MaxFaults
BY KernelScanAssumption DEF Types, Fault

LEMMA CarriedType ==
    ASSUME NEW p, p.counts \in Counts, p.last_boot \in Counts \union {NoCounts}, NEW current
    PROVE  LastBootOf(p) \in Counts /\ carry_forward(p, current) \in Counts
BY CountsAreCounts DEF LastBootOf, carry_forward

LEMMA EmptyLog == <<>> \in Seq(Lines) /\ Len(<<>>) = 0 /\ Len(<<>>) <= MaxLog
BY KernelScanAssumption

LEMMA MachineKept ==
    ASSUME Types, [Next]_vars
    PROVE  MachineTypes'
<1>1. MachineTypes /\ MaxLog \in Nat \ {0} /\ MaxBoots \in Nat \ {0}
    BY KernelScanAssumption DEF Types
<1>2. ASSUME NEW line \in Lines, KernelLogs(line)
      PROVE  MachineTypes'
    <2>1. CASE Len(ring) < MaxLog
        BY <1>1, <1>2, <2>1 DEF KernelLogs, MachineTypes
    <2>2. CASE ~(Len(ring) < MaxLog)
        <3>1. Len(ring) = MaxLog /\ ring # <<>>
            BY <1>1, <2>2 DEF MachineTypes
        <3>2. Tail(ring) \in Seq(Lines) /\ Len(Tail(ring)) = Len(ring) - 1
            BY <1>1, <3>1 DEF MachineTypes
        <3>3. ring' \in Seq(Lines) /\ Len(ring') <= MaxLog
            BY <1>1, <1>2, <2>2, <3>1, <3>2 DEF KernelLogs
        <3>4. QED
            BY <1>1, <1>2, <2>2, <3>3 DEF KernelLogs, MachineTypes
    <2>3. QED
        BY <2>1, <2>2
<1>3. CASE Reboot
    <2>1. boot' \in Boots
        BY <1>1, <1>3 DEF Reboot, MachineTypes, Boots
    <2>2. ring' = <<>> /\ evicted' = FALSE
        BY <1>3 DEF Reboot
    <2>3. QED
        BY <2>1, <2>2, EmptyLog DEF MachineTypes
<1>4. CASE UNCHANGED <<boot, ring, evicted>>
    BY <1>1, <1>4 DEF MachineTypes
<1>5. QED
    BY <1>2, <1>3, <1>4 DEF Next, ReadLog, Publish, vars

LEMMA ScanKept ==
    ASSUME Types, [Next]_vars
    PROVE  ScanTypes'
<1>1. MachineTypes /\ ScanTypes /\ MaxLog \in Nat \ {0}
    BY KernelScanAssumption DEF Types
<1>2. CASE ReadLog
    BY <1>1, <1>2 DEF ReadLog, MachineTypes, ScanTypes, scan_vars
<1>3. CASE pc' = "idle" /\ id' = NoId /\ log' = <<>>
    BY <1>1, <1>3 DEF ScanTypes
<1>4. CASE UNCHANGED <<boot, pc, scan_vars>>
    BY <1>1, <1>4 DEF ScanTypes, scan_vars
<1>5. QED
    BY <1>2, <1>3, <1>4 DEF Next, KernelLogs, Publish, Reboot, vars

LEMMA PublishedFile ==
    ASSUME Types
    PROVE  LET p == render_prom(log, id, prom)
           IN /\ p.boot_id = id /\ p.counts = scan(log)
              /\ p.last_boot = IF id = NoId THEN NoCounts ELSE carry_forward(prom, id)
              /\ p \in [boot_id : 0..boot, counts : Counts, last_boot : Counts \union {NoCounts}]
              /\ id # NoId => p.last_boot \in Counts
<1>1. scan(log) \in Counts
    BY ScanType DEF Types, ScanTypes
<1>2. carry_forward(prom, id) \in Counts
    BY CarriedType DEF Types, PromTypes
<1>3. id \in 0..boot
    BY KernelScanAssumption DEF Types, ScanTypes, MachineTypes, Boots, NoId
<1>4. QED
    BY <1>1, <1>2, <1>3 DEF render_prom

LEMMA PromKept ==
    ASSUME Types, [Next]_vars
    PROVE  PromTypes'
<1>1. PromTypes /\ MachineTypes
    BY DEF Types
<1>2. CASE Publish
    <2>1. CASE prom' = render_prom(log, id, prom) /\ published' = Recorded(prom')
        <3>1. /\ prom' \in [boot_id : 0..boot, counts : Counts, last_boot : Counts \union {NoCounts}]
              /\ prom'.boot_id # NoId => prom'.last_boot \in Counts
            BY <2>1, PublishedFile
        <3>2. published' \in [Boots -> Counts \union {NoCounts}]
            BY <1>1, <2>1, <3>1 DEF Recorded, PromTypes, MachineTypes
        <3>3. boot' = boot
            BY <1>2 DEF Publish
        <3>4. QED
            BY <3>1, <3>2, <3>3 DEF PromTypes
    <2>2. CASE UNCHANGED <<prom, published>>
        BY <1>1, <1>2, <2>2 DEF Publish, PromTypes
    <2>3. QED
        BY <1>2, <2>1, <2>2 DEF Publish
<1>3. CASE Reboot
    <2>1. boot' = boot + 1 /\ boot \in Nat /\ 0..boot \subseteq 0..boot' /\ NoId \in 0..boot'
        BY <1>1, <1>3, KernelScanAssumption DEF Reboot, MachineTypes, Boots, NoId
    <2>2. CASE UNCHANGED <<prom, published>>
        BY <1>1, <2>1, <2>2 DEF PromTypes
    <2>3. CASE prom' = NoFile /\ published' = [b \in Boots |-> NoCounts]
        BY <2>1, <2>3, CountsAreCounts DEF PromTypes, NoFile
    <2>4. CASE /\ prom' = [prom EXCEPT !.boot_id = NoId]
               /\ published' = IF prom.boot_id = NoId THEN published
                               ELSE [published EXCEPT ![prom.boot_id] = NoCounts]
        BY <1>1, <2>1, <2>4 DEF PromTypes
    <2>5. QED
        BY <1>3, <2>2, <2>3, <2>4 DEF Reboot
<1>4. CASE UNCHANGED <<boot, prom, published>>
    BY <1>1, <1>4 DEF PromTypes
<1>5. QED
    BY <1>2, <1>3, <1>4 DEF Next, KernelLogs, ReadLog, vars

LEMMA TypesKept == Types /\ [Next]_vars => Types'
<1> SUFFICES ASSUME Types, [Next]_vars PROVE Types'
    OBVIOUS
<1>1. faults' \in 0..MaxFaults
    <2>1. CASE \E k : Fault(k)
        BY <2>1, FaultType
    <2>2. CASE UNCHANGED faults
        BY <2>2 DEF Types
    <2>3. QED
        BY <2>1, <2>2 DEF Next, KernelLogs, ReadLog, Publish, Reboot, vars
<1>2. QED
    BY <1>1, MachineKept, ScanKept, PromKept DEF Types

LEMMA TypesInit == Init => Types
<1> SUFFICES ASSUME Init PROVE Types
    OBVIOUS
<1>1. boot \in Boots /\ faults \in 0..MaxFaults
    BY KernelScanAssumption DEF Init, Boots
<1>2. MachineTypes
    BY <1>1, EmptyLog DEF Init, MachineTypes
<1>3. ScanTypes
    BY EmptyLog DEF Init, ScanTypes
<1>4. PromTypes
    BY <1>1, CountsAreCounts DEF Init, PromTypes, NoFile, NoId
<1>5. QED
    BY <1>1, <1>2, <1>3, <1>4 DEF Types

LEMMA TypesAlways == Spec => []Types
BY TypesInit, TypesKept, PTL DEF Spec

\* Every published file of every boot is well formed: a count for every class,
\* none above what the ring buffer holds, and a snapshot whenever the file
\* names its boot.
THEOREM KernelScanTypes == Spec => []TypeOK
BY TypesAlways, TypesImply, PTL
-----------------------------------------------------------------------------
(* The evidence of the boot before.                                        *)

\* The boots before b that have published and whose counts are not lost.
Earlier(pub, b) == {e \in Boots : e < b /\ pub[e] # NoCounts}

\* Evidence, of any boot and any history.
EvidenceAt(pub, b) == IF Earlier(pub, b) = {} THEN Zero ELSE pub[Max(Earlier(pub, b))]

LEMMA EvidenceIs == Evidence = EvidenceAt(published, boot)
BY DEF Evidence, EvidenceAt, Earlier

LEMMA MaxMember ==
    ASSUME NEW S \in SUBSET Boots, S # {}
    PROVE  Max(S) \in S /\ \A e \in S : e <= Max(S)
<1>1. MaxBoots \in Nat /\ S \subseteq 1..MaxBoots
    BY KernelScanAssumption DEF Boots
<1> DEFINE gaps == {MaxBoots - e : e \in S}
<1>2. gaps \subseteq Nat /\ gaps # {}
    <2>1. \A e \in S : MaxBoots - e \in Nat
        BY <1>1
    <2>2. PICK e \in S : TRUE
        OBVIOUS
    <2>3. MaxBoots - e \in gaps
        OBVIOUS
    <2>4. QED
        BY <2>1, <2>3
<1>3. \E x \in gaps : \A y \in gaps : ~(<<y, x>> \in OpToRel(<, Nat))
    BY <1>2, WFMin, NatLessThanWellFounded
<1>4. PICK x \in gaps : \A y \in gaps : ~(y < x)
    BY <1>2, <1>3 DEF OpToRel
<1>5. PICK m \in S : x = MaxBoots - m
    OBVIOUS
<1>6. \A e \in S : MaxBoots - e \in gaps
    OBVIOUS
<1> HIDE DEF gaps
<1>7. \A e \in S : m >= e
    BY <1>1, <1>4, <1>5, <1>6
<1>8. Max(S) \in S /\ \A e \in S : Max(S) >= e
    BY <1>7 DEF Max
<1>9. QED
    BY <1>1, <1>8

\* Evidence depends on the boots before only.
LEMMA EvidenceLocal ==
    ASSUME NEW old, NEW new, NEW b,
           \A e \in Boots : e < b => old[e] = new[e]
    PROVE  EvidenceAt(old, b) = EvidenceAt(new, b)
<1>1. Earlier(old, b) = Earlier(new, b)
    BY DEF Earlier
<1>2. CASE Earlier(old, b) = {}
    BY <1>1, <1>2 DEF EvidenceAt
<1>3. CASE Earlier(old, b) # {}
    <2>1. Max(Earlier(old, b)) \in Earlier(old, b)
        BY <1>3, MaxMember DEF Earlier
    <2>2. old[Max(Earlier(old, b))] = new[Max(Earlier(old, b))]
        BY <2>1 DEF Earlier
    <2>3. QED
        BY <1>1, <1>3, <2>2 DEF EvidenceAt
<1>4. QED
    BY <1>2, <1>3

\* Boots that have not published add nothing.
LEMMA EvidenceSkips ==
    ASSUME NEW pub, NEW a \in Int, NEW b \in Int, a <= b,
           \A e \in Boots : a <= e /\ e < b => pub[e] = NoCounts
    PROVE  EvidenceAt(pub, b) = EvidenceAt(pub, a)
<1>1. Boots \subseteq Int
    BY KernelScanAssumption DEF Boots
<1>2. \A e \in Boots : (e < b /\ pub[e] # NoCounts) <=> (e < a /\ pub[e] # NoCounts)
    <2>1. SUFFICES ASSUME NEW e \in Boots
                   PROVE  (e < b /\ pub[e] # NoCounts) <=> (e < a /\ pub[e] # NoCounts)
        OBVIOUS
    <2>2. e \in Int /\ (a <= e /\ e < b => pub[e] = NoCounts)
        BY <1>1
    <2>3. QED
        BY <2>2
<1>3. Earlier(pub, b) = Earlier(pub, a)
    BY <1>2 DEF Earlier
<1>4. QED
    BY <1>3 DEF EvidenceAt

\* The last boot that has published is the evidence.
LEMMA EvidenceLatest ==
    ASSUME NEW pub, NEW a \in Boots, NEW b \in Int, a < b, pub[a] # NoCounts,
           \A e \in Boots : a < e /\ e < b => pub[e] = NoCounts
    PROVE  EvidenceAt(pub, b) = pub[a]
<1>1. Boots \subseteq Int
    BY KernelScanAssumption DEF Boots
<1>2. a \in Earlier(pub, b) /\ \A e \in Earlier(pub, b) : e <= a
    BY <1>1 DEF Earlier
<1>3. Max(Earlier(pub, b)) \in Earlier(pub, b) /\ a <= Max(Earlier(pub, b))
    BY <1>2, MaxMember DEF Earlier
<1>4. Max(Earlier(pub, b)) = a
    <2>1. Max(Earlier(pub, b)) \in Int /\ Max(Earlier(pub, b)) <= a
        BY <1>1, <1>2, <1>3 DEF Earlier
    <2>2. QED
        BY <1>1, <1>3, <2>1
<1>5. QED
    BY <1>2, <1>4 DEF EvidenceAt

\* The boot whose snapshot the file holds.
Holder == IF prom.boot_id = NoId THEN boot ELSE prom.boot_id

\* No boot after the one the file names has published; without a name, no boot
\* from the present one on.
NothingLater ==
    \A e \in Boots : e > prom.boot_id /\ e >= Holder => published[e] = NoCounts

\* The file's own counts are what its boot published last.
OwnCounts == prom.boot_id # NoId => published[prom.boot_id] = prom.counts

SnapshotHeld == LastBootOf(prom) = EvidenceAt(published, Holder)

EvidenceInv == NothingLater /\ OwnCounts /\ SnapshotHeld

LEMMA WipedEvidence ==
    ASSUME NEW b
    PROVE  EvidenceAt([e \in Boots |-> NoCounts], b) = Zero
BY DEF EvidenceAt, Earlier

LEMMA PublishKeeps ==
    ASSUME Types, EvidenceInv, Publish,
           prom' = render_prom(log, id, prom), published' = Recorded(prom')
    PROVE  EvidenceInv'
<1>1. /\ prom'.boot_id = id /\ prom'.counts = scan(log)
      /\ prom'.last_boot = IF id = NoId THEN NoCounts ELSE carry_forward(prom, id)
      /\ id # NoId => prom'.last_boot \in Counts
    BY PublishedFile
<1>2. boot' = boot /\ boot \in Boots /\ boot \in Nat /\ boot # NoId /\ id \in {NoId, boot}
    BY KernelScanAssumption DEF Publish, Types, MachineTypes, ScanTypes, Boots, NoId
<1>3. CASE id = NoId
    <2>1. published' = [e \in Boots |-> NoCounts]
        BY <1>1, <1>3 DEF Recorded
    <2>2. LastBootOf(prom') = Zero
        BY <1>1, <1>3 DEF LastBootOf
    <2>3. NothingLater' /\ OwnCounts'
        BY <1>1, <1>3, <2>1 DEF NothingLater, OwnCounts
    <2>4. SnapshotHeld'
        BY <2>1, <2>2, WipedEvidence DEF SnapshotHeld
    <2>5. QED
        BY <2>3, <2>4 DEF EvidenceInv
<1>4. CASE id = boot
    <2>1. published' = [published EXCEPT ![boot] = prom'.counts] /\ Holder' = boot
        BY <1>1, <1>2, <1>4 DEF Recorded, Holder
    <2>2. /\ prom.boot_id \in 0..boot /\ prom.counts \in Counts
          /\ published \in [Boots -> Counts \union {NoCounts}]
        BY DEF Types, PromTypes
    <2>3. Holder \in Nat /\ Holder <= boot /\ prom.boot_id <= Holder
        BY <1>2, <2>2 DEF Holder, NoId
    <2>4. \A e \in Boots : e # boot => published'[e] = published[e]
        BY <2>1, <2>2
    <2>5. published'[boot] = prom'.counts
        BY <1>2, <2>1, <2>2
    <2>6. Boots \subseteq Nat
        BY KernelScanAssumption DEF Boots
    <2>7. \A e \in Boots : e > boot => published[e] = NoCounts
        <3>1. SUFFICES ASSUME NEW e \in Boots, e > boot PROVE published[e] = NoCounts
            OBVIOUS
        <3>2. e > prom.boot_id /\ e >= Holder
            BY <1>2, <2>2, <2>3, <2>6, <3>1
        <3>3. QED
            BY <3>2 DEF EvidenceInv, NothingLater
    <2>8. NothingLater' /\ OwnCounts'
        BY <1>1, <1>2, <1>4, <2>4, <2>5, <2>6, <2>7 DEF NothingLater, OwnCounts
    <2>9. EvidenceAt(published', boot) = EvidenceAt(published, boot)
        BY <1>2, <2>4, <2>6, EvidenceLocal
    <2>10. carry_forward(prom, boot) = EvidenceAt(published, boot)
        <3>1. CASE prom.boot_id = NoId \/ prom.boot_id = boot
            <4>1. Holder = boot /\ carry_forward(prom, boot) = LastBootOf(prom)
                BY <1>2, <3>1 DEF Holder, carry_forward
            <4>2. QED
                BY <4>1 DEF EvidenceInv, SnapshotHeld
        <3>2. CASE prom.boot_id # NoId /\ prom.boot_id # boot
            <4>1. Holder = prom.boot_id /\ carry_forward(prom, boot) = prom.counts
                BY <1>2, <3>2 DEF Holder, carry_forward
            <4>2. prom.boot_id \in Boots /\ prom.boot_id < boot
                BY <1>2, <2>2, <3>2, KernelScanAssumption DEF Boots, NoId
            <4>3. published[prom.boot_id] = prom.counts /\ prom.counts # NoCounts
                BY <2>2, <3>2, CountsAreCounts DEF EvidenceInv, OwnCounts
            <4>4. \A e \in Boots : prom.boot_id < e /\ e < boot => published[e] = NoCounts
                BY <2>2, <2>6, <4>1 DEF EvidenceInv, NothingLater
            <4>5. EvidenceAt(published, boot) = published[prom.boot_id]
                <5>1. boot \in Int /\ published[prom.boot_id] # NoCounts
                    BY <1>2, <4>3
                <5>2. QED
                    BY <4>2, <4>4, <5>1, EvidenceLatest
            <4>6. QED
                BY <4>1, <4>3, <4>5
        <3>3. QED
            BY <3>1, <3>2
    <2>11. LastBootOf(prom') = carry_forward(prom, boot)
        BY <1>1, <1>2, <1>4, CountsAreCounts DEF LastBootOf
    <2>12. QED
        BY <2>1, <2>8, <2>9, <2>10, <2>11 DEF EvidenceInv, SnapshotHeld
<1>5. QED
    BY <1>2, <1>3, <1>4

LEMMA RebootKeeps ==
    ASSUME Types, EvidenceInv, Reboot
    PROVE  EvidenceInv'
<1>1. /\ boot' = boot + 1 /\ boot \in Nat /\ boot # NoId /\ Boots \subseteq Nat
      /\ prom.boot_id \in 0..boot /\ published \in [Boots -> Counts \union {NoCounts}]
      /\ prom \in [boot_id : 0..boot, counts : Counts, last_boot : Counts \union {NoCounts}]
    BY KernelScanAssumption DEF Reboot, Types, MachineTypes, PromTypes, Boots, NoId
<1>2. NothingLater /\ OwnCounts /\ SnapshotHeld
    BY DEF EvidenceInv
<1>3. CASE UNCHANGED <<prom, published>>
    <2>1. CASE prom.boot_id = NoId
        <3>1. Holder = boot /\ Holder' = boot + 1
            BY <1>1, <1>3, <2>1 DEF Holder
        <3>2. \A e \in Boots : e >= boot => published[e] = NoCounts
            BY <1>1, <1>2, <2>1, <3>1 DEF NothingLater, NoId
        <3>3. EvidenceAt(published, boot + 1) = EvidenceAt(published, boot)
            BY <1>1, <3>2, EvidenceSkips
        <3>4. NothingLater' /\ OwnCounts'
            BY <1>1, <1>3, <2>1, <3>1, <3>2 DEF NothingLater, OwnCounts
        <3>5. SnapshotHeld'
            BY <1>2, <1>3, <3>1, <3>3 DEF SnapshotHeld
        <3>6. QED
            BY <3>4, <3>5 DEF EvidenceInv
    <2>2. CASE prom.boot_id # NoId
        <3>1. Holder' = Holder
            BY <1>3, <2>2 DEF Holder
        <3>2. QED
            BY <1>2, <1>3, <3>1 DEF EvidenceInv, NothingLater, OwnCounts, SnapshotHeld
    <2>3. QED
        BY <2>1, <2>2
<1>4. CASE prom' = NoFile /\ published' = [e \in Boots |-> NoCounts]
    <2>1. LastBootOf(prom') = Zero /\ prom'.boot_id = NoId
        BY <1>4 DEF NoFile, LastBootOf
    <2>2. SnapshotHeld'
        BY <1>4, <2>1, WipedEvidence DEF SnapshotHeld
    <2>3. QED
        BY <1>4, <2>1, <2>2 DEF EvidenceInv, NothingLater, OwnCounts
<1>5. CASE /\ prom' = [prom EXCEPT !.boot_id = NoId]
           /\ published' = IF prom.boot_id = NoId THEN published
                           ELSE [published EXCEPT ![prom.boot_id] = NoCounts]
    <2>1. prom'.boot_id = NoId /\ prom'.last_boot = prom.last_boot
        BY <1>1, <1>5
    <2>2. Holder' = boot + 1 /\ LastBootOf(prom') = LastBootOf(prom)
        BY <1>1, <2>1 DEF Holder, LastBootOf
    <2>3. Holder \in Nat /\ Holder <= boot
        BY <1>1 DEF Holder, NoId
    <2>4. \A e \in Boots : e >= Holder => published'[e] = NoCounts
        <3>1. CASE prom.boot_id = NoId
            BY <1>1, <1>2, <1>5, <3>1 DEF NothingLater, Holder, NoId
        <3>2. CASE prom.boot_id # NoId
            BY <1>1, <1>2, <1>5, <3>2 DEF NothingLater, Holder
        <3>3. QED
            BY <3>1, <3>2
    <2>5. \A e \in Boots : e < Holder => published[e] = published'[e]
        BY <1>1, <1>5 DEF Holder
    <2>6. EvidenceAt(published, Holder) = EvidenceAt(published', Holder)
        BY <2>5, EvidenceLocal
    <2>7. EvidenceAt(published', boot + 1) = EvidenceAt(published', Holder)
        BY <1>1, <2>3, <2>4, EvidenceSkips
    <2>8. SnapshotHeld'
        BY <1>2, <2>2, <2>6, <2>7 DEF SnapshotHeld
    <2>9. NothingLater' /\ OwnCounts'
        BY <1>1, <2>1, <2>2, <2>3, <2>4 DEF NothingLater, OwnCounts
    <2>10. QED
        BY <2>8, <2>9 DEF EvidenceInv
<1>6. QED
    BY <1>3, <1>4, <1>5 DEF Reboot

LEMMA EvidenceInvKept == Types /\ EvidenceInv /\ [Next]_vars => EvidenceInv'
<1> SUFFICES ASSUME Types, EvidenceInv, [Next]_vars PROVE EvidenceInv'
    OBVIOUS
<1>1. CASE UNCHANGED <<boot, prom, published>>
    BY <1>1 DEF EvidenceInv, NothingLater, OwnCounts, SnapshotHeld, Holder
<1>2. CASE Publish
    <2>1. CASE prom' = render_prom(log, id, prom) /\ published' = Recorded(prom')
        BY <1>2, <2>1, PublishKeeps
    <2>2. QED
        BY <1>1, <1>2, <2>1 DEF Publish
<1>3. CASE Reboot
    BY <1>3, RebootKeeps
<1>4. QED
    BY <1>1, <1>2, <1>3 DEF Next, KernelLogs, ReadLog, vars

\* The snapshot a boot shows is what the boot before published last, over any
\* number of reboots, failed scans, lost writes and damaged files.
THEOREM EvidenceCarried == Spec => []EvidenceSurvives
<1>1. Init => EvidenceInv
    <2> SUFFICES ASSUME Init PROVE EvidenceInv
        OBVIOUS
    <2>1. prom.boot_id = NoId /\ LastBootOf(prom) = Zero
        BY DEF Init, NoFile, LastBootOf
    <2>2. published = [e \in Boots |-> NoCounts]
        BY DEF Init
    <2>3. SnapshotHeld
        BY <2>1, <2>2, WipedEvidence DEF SnapshotHeld
    <2>4. QED
        BY <2>1, <2>2, <2>3 DEF EvidenceInv, NothingLater, OwnCounts
<1>2. Types /\ EvidenceInv => EvidenceSurvives
    <2> SUFFICES ASSUME Types, EvidenceInv, prom.boot_id = boot
                 PROVE  prom.last_boot = Evidence
        BY DEF EvidenceSurvives
    <2>1. boot # NoId
        BY KernelScanAssumption DEF Types, MachineTypes, Boots, NoId
    <2>2. prom.last_boot \in Counts /\ Holder = boot
        BY <2>1 DEF Types, PromTypes, Holder
    <2>3. LastBootOf(prom) = prom.last_boot
        BY <2>2, CountsAreCounts DEF LastBootOf
    <2>4. QED
        BY <2>2, <2>3, EvidenceIs DEF EvidenceInv, SnapshotHeld
<1>3. QED
    BY <1>1, <1>2, TypesAlways, EvidenceInvKept, PTL DEF Spec
-----------------------------------------------------------------------------
(* Counts within a boot.                                                   *)

Prefix(early, late) ==
    Len(early) <= Len(late) /\ \A k \in 1..Len(early) : early[k] = late[k]

AtMost(low, high) == \A c \in CLASSES : low[c] <= high[c]

\* While the ring buffer has lost nothing, the log a scan holds is a beginning
\* of it, and what the present boot has published is counted in both.
GrowthInv ==
    ~evicted =>
        /\ pc = "render" => Prefix(log, ring)
        /\ prom.boot_id = boot => AtMost(prom.counts, scan(ring))
        /\ pc = "render" /\ prom.boot_id = boot => AtMost(prom.counts, scan(log))

LEMMA AtMostTransitive ==
    ASSUME NEW x \in Counts, NEW y \in Counts, NEW z \in Counts, AtMost(x, y), AtMost(y, z)
    PROVE  AtMost(x, z)
<1>1. SUFFICES ASSUME NEW c \in CLASSES PROVE x[c] <= z[c]
    BY DEF AtMost
<1>2. x[c] \in Int /\ y[c] \in Int /\ z[c] \in Int
    BY DEF Counts
<1>3. x[c] <= y[c] /\ y[c] <= z[c]
    BY DEF AtMost
<1>4. QED
    BY <1>2, <1>3

LEMMA PrefixCounts ==
    ASSUME NEW early \in Seq(Lines), NEW late \in Seq(Lines), Prefix(early, late)
    PROVE  AtMost(scan(early), scan(late))
BY ScanGrows DEF Prefix, AtMost

LEMMA LogKeepsGrowth ==
    ASSUME Types, GrowthInv, NEW line \in Lines, KernelLogs(line)
    PROVE  GrowthInv'
<1>1. /\ ring \in Seq(Lines) /\ Len(ring) <= MaxLog /\ log \in Seq(Lines)
      /\ prom.counts \in Counts /\ MaxLog \in Nat
    BY KernelScanAssumption DEF Types, MachineTypes, ScanTypes, PromTypes
<1>2. UNCHANGED <<boot, prom, pc, log>>
    BY DEF KernelLogs, scan_vars
<1>3. CASE Len(ring) < MaxLog
    <2>1. ring' = Append(ring, line) /\ evicted' = evicted
        BY <1>3 DEF KernelLogs
    <2>2. Prefix(ring, ring') /\ ring' \in Seq(Lines) /\ Len(ring') <= MaxLog
        BY <1>1, <1>3, <2>1 DEF Prefix
    <2>3. Prefix(log, ring) => Prefix(log, ring')
        BY <1>1, <2>2 DEF Prefix
    <2>4. AtMost(scan(ring), scan(ring')) /\ scan(ring) \in Counts /\ scan(ring') \in Counts
        BY <1>1, <2>2, PrefixCounts, ScanType
    <2>5. AtMost(prom.counts, scan(ring)) => AtMost(prom.counts, scan(ring'))
        BY <1>1, <2>4, AtMostTransitive
    <2>6. QED
        BY <1>2, <2>1, <2>3, <2>5 DEF GrowthInv
<1>4. CASE ~(Len(ring) < MaxLog)
    <2>1. evicted'
        BY <1>4 DEF KernelLogs
    <2>2. QED
        BY <2>1 DEF GrowthInv
<1>5. QED
    BY <1>3, <1>4

LEMMA GrowthKept == Types /\ GrowthInv /\ [Next]_vars => GrowthInv'
<1> SUFFICES ASSUME Types, GrowthInv, [Next]_vars PROVE GrowthInv'
    OBVIOUS
<1>1. /\ ring \in Seq(Lines) /\ log \in Seq(Lines) /\ boot \in Nat \ {0}
      /\ prom.boot_id \in 0..boot
    BY KernelScanAssumption DEF Types, MachineTypes, ScanTypes, PromTypes, Boots
<1>2. CASE ReadLog
    <2>1. UNCHANGED <<boot, ring, prom, evicted>>
        BY <1>2 DEF ReadLog
    <2>2. CASE log' = ring
        <3>1. Prefix(ring, ring)
            BY <1>1 DEF Prefix
        <3>2. QED
            BY <2>1, <2>2, <3>1 DEF GrowthInv
    <2>3. CASE UNCHANGED <<scan_vars, pc>>
        BY <2>1, <2>3 DEF GrowthInv, scan_vars
    <2>4. QED
        BY <1>2, <2>2, <2>3 DEF ReadLog
<1>3. CASE Publish
    <2>1. UNCHANGED <<boot, ring, evicted>> /\ pc = "render" /\ pc' = "idle"
        BY <1>3 DEF Publish
    <2>2. CASE prom' = render_prom(log, id, prom)
        <3>1. prom'.counts = scan(log)
            BY <2>2, PublishedFile
        <3>2. ~evicted => AtMost(scan(log), scan(ring))
            BY <1>1, <2>1, PrefixCounts DEF GrowthInv
        <3>3. QED
            BY <2>1, <3>1, <3>2 DEF GrowthInv
    <2>3. CASE UNCHANGED prom
        BY <2>1, <2>3 DEF GrowthInv
    <2>4. QED
        BY <1>3, <2>2, <2>3 DEF Publish
<1>4. CASE Reboot
    <2>1. pc' = "idle" /\ boot' = boot + 1
        BY <1>4 DEF Reboot
    <2>2. prom'.boot_id = prom.boot_id \/ prom'.boot_id = NoId
        <3>1. NoFile.boot_id = NoId /\ [prom EXCEPT !.boot_id = NoId].boot_id = NoId
            BY DEF NoFile, Types, PromTypes
        <3>2. QED
            BY <1>4, <3>1 DEF Reboot
    <2>3. prom'.boot_id # boot'
        BY <1>1, <2>1, <2>2 DEF NoId
    <2>4. QED
        BY <2>1, <2>3 DEF GrowthInv
<1>5. CASE UNCHANGED vars
    BY <1>5 DEF vars, scan_vars, GrowthInv
<1>6. QED
    BY <1>2, <1>3, <1>4, <1>5, LogKeepsGrowth DEF Next

\* No scan of a boot lowers a published count while the ring buffer holds
\* everything the boot has logged: a fault that was shown stays shown.
THEOREM CountsNeverFall == Spec => NeverZeroed
<1>1. Init => GrowthInv
    BY DEF Init, GrowthInv, NoFile, NoId
<1>2. Types /\ GrowthInv /\ [Next]_vars =>
        [boot' = boot /\ prom.boot_id = boot /\ ~evicted
            => \A c \in CLASSES : prom'.counts[c] >= prom.counts[c]]_vars
    <2> SUFFICES ASSUME Types, GrowthInv, [Next]_vars, boot' = boot, prom.boot_id = boot, ~evicted,
                        NEW c \in CLASSES
                 PROVE  prom'.counts[c] >= prom.counts[c]
        OBVIOUS
    <2>1. prom.counts[c] \in Int
        BY DEF Types, PromTypes, Counts
    <2>2. CASE UNCHANGED prom
        BY <2>1, <2>2
    <2>3. CASE Publish /\ prom' = render_prom(log, id, prom)
        <3>1. prom'.counts = scan(log) /\ scan(log) \in Counts
            BY <2>3, PublishedFile, ScanType DEF Types, ScanTypes
        <3>2. prom.counts[c] <= scan(log)[c]
            BY <2>3 DEF GrowthInv, AtMost, Publish
        <3>3. scan(log)[c] \in Int
            BY <3>1 DEF Counts
        <3>4. QED
            BY <2>1, <3>1, <3>2, <3>3
    <2>4. CASE Reboot
        BY <2>4, KernelScanAssumption DEF Reboot, Types, MachineTypes, Boots
    <2>5. QED
        BY <2>2, <2>3, <2>4 DEF Next, KernelLogs, ReadLog, Publish, vars
<1>3. QED
    BY <1>1, <1>2, TypesAlways, GrowthKept, PTL DEF Spec, NeverZeroed
-----------------------------------------------------------------------------
(* Fatal lines.                                                            *)

\* The lines of a log that count in some class of S.
HitsIn(lines, S) == {k \in DOMAIN lines : classify(lines[k]) \in S}

LEMMA HitsInFinite ==
    ASSUME NEW lines \in Seq(Lines), NEW S
    PROVE  IsFiniteSet(HitsIn(lines, S))
<1>1. Len(lines) \in Nat /\ DOMAIN lines = 1..Len(lines)
    OBVIOUS
<1>2. HitsIn(lines, S) \in SUBSET (1..Len(lines)) /\ IsFiniteSet(1..Len(lines))
    BY <1>1, FS_Interval DEF HitsIn
<1>3. QED
    BY <1>2, FS_Subset

\* A line counts in one class: one class more adds that class's lines.
LEMMA HitsAdd ==
    ASSUME NEW lines \in Seq(Lines), NEW S \in SUBSET CLASSES, NEW x \in S
    PROVE  Cardinality(HitsIn(lines, S)) = scan(lines)[x] + Cardinality(HitsIn(lines, S \ {x}))
<1>1. HitsIn(lines, S) = Hits(lines, x) \union HitsIn(lines, S \ {x})
    BY DEF Hits, HitsIn
<1>2. Hits(lines, x) \cap HitsIn(lines, S \ {x}) = {}
    BY DEF Hits, HitsIn
<1>3. IsFiniteSet(Hits(lines, x)) /\ IsFiniteSet(HitsIn(lines, S \ {x}))
    BY HitsFinite, HitsInFinite
<1>4. /\ Cardinality(Hits(lines, x)) \in Nat /\ Cardinality(HitsIn(lines, S \ {x})) \in Nat
      /\ Cardinality({}) = 0
    BY <1>3, FS_CardinalityType, FS_EmptySet
<1>5. Cardinality(HitsIn(lines, S))
        = Cardinality(Hits(lines, x)) + Cardinality(HitsIn(lines, S \ {x})) - Cardinality({})
    BY <1>1, <1>2, <1>3, FS_Union
<1>6. scan(lines)[x] = Cardinality(Hits(lines, x))
    BY ScanIs
<1>7. QED
    BY <1>4, <1>5, <1>6

LEMMA ClassesFinite == IsFiniteSet(CLASSES)
<1>1. DOMAIN Patterns = 1..10
    BY DEF Patterns
<1>2. Patterns \in Surjection(1..10, CLASSES)
    BY <1>1 DEF Surjection, CLASSES, Patterns
<1>3. IsFiniteSet(1..10)
    <2>1. \A n \in Int : IsFiniteSet(1..n)
        BY FS_Interval
    <2>2. 10 \in Int
        OBVIOUS
    <2>3. QED
        BY <2>1, <2>2, Zenon
<1>4. QED
    BY <1>2, <1>3, FS_Surjection, Zenon

\* The sum of the counts of some classes is the number of lines that count in
\* one of them.
LEMMA SumOfCounts ==
    ASSUME NEW lines \in Seq(Lines), NEW S \in SUBSET CLASSES
    PROVE  MapThenSumSet(LAMBDA c : scan(lines)[c], S) = Cardinality(HitsIn(lines, S))
<1> DEFINE Step(g, s) == IF s = {} THEN 0
                         ELSE scan(lines)[CHOOSE x \in s : TRUE] + g[s \ {CHOOSE x \in s : TRUE}]
           IsSum(g) == g = [s \in SUBSET S |-> Step(g, s)]
           sum == CHOOSE g : IsSum(g)
           direct == [s \in SUBSET S |-> Cardinality(HitsIn(lines, s))]
<1>1. MapThenSumSet(LAMBDA c : scan(lines)[c], S) = sum[S]
    BY DEF MapThenSumSet, MapThenFoldSet
<1>2. \A s \in SUBSET S : Cardinality(HitsIn(lines, s)) = Step(direct, s)
    <2> TAKE s \in SUBSET S
    <2>1. CASE s = {}
        <3>1. HitsIn(lines, s) = {}
            BY <2>1 DEF HitsIn
        <3>2. QED
            BY <2>1, <3>1, FS_EmptySet
    <2>2. CASE s # {}
        <3> DEFINE x == CHOOSE x \in s : TRUE
        <3>1. x \in s
            BY <2>2
        <3> HIDE DEF x
        <3>2. s \in SUBSET CLASSES /\ s \ {x} \in SUBSET S
            OBVIOUS
        <3>3. Cardinality(HitsIn(lines, s)) = scan(lines)[x] + Cardinality(HitsIn(lines, s \ {x}))
            BY <3>1, <3>2, HitsAdd
        <3>4. direct[s \ {x}] = Cardinality(HitsIn(lines, s \ {x}))
            BY <3>2
        <3>5. QED
            BY <2>2, <3>3, <3>4 DEF x
    <2>3. QED
        BY <2>1, <2>2
<1>3. IsSum(direct)
    BY <1>2
<1>4. IsSum(sum)
    BY <1>3
<1>5. \A s \in SUBSET S : sum[s] = Step(sum, s)
    BY <1>4
<1> DEFINE wrong == {s \in SUBSET S : sum[s] # direct[s]}
<1>6. wrong = {}
    <2>1. SUFFICES ASSUME wrong # {} PROVE FALSE
        OBVIOUS
    <2>2. IsFiniteSet(S) /\ \A s \in SUBSET S : IsFiniteSet(s)
        BY ClassesFinite, FS_Subset
    <2>3. wrong \subseteq FiniteSubsetsOf(S)
        BY <2>2 DEF FiniteSubsetsOf
    <2>4. PICK s \in wrong : \A t \in wrong : ~(<<t, s>> \in StrictSubsetOrdering(S))
        BY <2>1, <2>3, FS_StrictSubsetOrderingWellFounded, WFMin
    <2>5. s # {}
        BY <1>2, <1>5
    <2> DEFINE x == CHOOSE x \in s : TRUE
    <2>6. x \in s
        BY <2>5
    <2>7. s \ {x} \in SUBSET S /\ <<s \ {x}, s>> \in StrictSubsetOrdering(S)
        BY <2>6 DEF StrictSubsetOrdering
    <2>8. sum[s \ {x}] = direct[s \ {x}]
        BY <2>4, <2>7
    <2>9. sum[s] = direct[s]
        BY <1>2, <1>5, <2>5, <2>8
    <2>10. QED
        BY <2>9
<1>7. QED
    BY <1>1, <1>6

LEMMA MinMember ==
    ASSUME NEW S \in SUBSET Nat, S # {}
    PROVE  Min(S) \in S /\ \A e \in S : Min(S) <= e
<1>1. \E x \in S : \A y \in S : ~(<<y, x>> \in OpToRel(<, Nat))
    BY WFMin, NatLessThanWellFounded
<1>2. PICK x \in S : \A y \in S : ~(y < x)
    BY <1>1 DEF OpToRel
<1>3. x \in S /\ \A y \in S : x <= y
    BY <1>2
<1>4. QED
    BY <1>3 DEF Min

\* The patterns of the fatal classes are tried first.
LEMMA FatalFirst ==
    /\ DOMAIN Patterns = 1..10
    /\ \A k \in 1..10 : Patterns[k] \in FATAL_CLASSES <=> k <= 6
    /\ FATAL_CLASSES \subseteq CLASSES
<1>1. DOMAIN Patterns = 1..10
    BY DEF Patterns
<1>2. \A k \in 1..10 : Patterns[k] \in FATAL_CLASSES <=> k <= 6
    BY DEF Patterns, FATAL_CLASSES
<1>3. FATAL_CLASSES = {Patterns[1], Patterns[2], Patterns[3], Patterns[4], Patterns[5], Patterns[6]}
    BY DEF Patterns, FATAL_CLASSES
<1>4. QED
    BY <1>1, <1>2, <1>3 DEF CLASSES

\* A line that matches a fatal pattern is put in a fatal class.
LEMMA FatalClassified ==
    ASSUME NEW line, line \cap FATAL_CLASSES # {}
    PROVE  classify(line) \in FATAL_CLASSES
<1> DEFINE hits == {k \in DOMAIN Patterns : Patterns[k] \in line}
<1>1. PICK c \in FATAL_CLASSES : c \in line
    OBVIOUS
<1>2. PICK k \in 1..10 : Patterns[k] = c
    BY FatalFirst DEF CLASSES
<1>3. k \in hits /\ k <= 6
    BY <1>1, <1>2, FatalFirst
<1>4. hits \in SUBSET Nat /\ hits \subseteq 1..10
    BY FatalFirst
<1>5. Min(hits) \in hits /\ Min(hits) <= k
    BY <1>3, <1>4, MinMember
<1>6. Min(hits) \in 1..10 /\ Min(hits) <= 6
    BY <1>2, <1>3, <1>4, <1>5
<1>7. Patterns[Min(hits)] \in FATAL_CLASSES
    BY <1>6, FatalFirst
<1>8. QED
    BY <1>3, <1>7 DEF classify

\* No fatal line hides behind the link event it arrives with: the fatal counts
\* of a scan add up to all lines of the log that match a fatal pattern.
THEOREM FatalCounted == Spec => []FatalVisible
<1>1. Types => FatalVisible
    <2> SUFFICES ASSUME Types PROVE FatalVisible
        OBVIOUS
    <2> DEFINE fatal == {c \in CLASSES : severity_of(c) = "fatal"}
               lines == {k \in DOMAIN log : log[k] \cap FATAL_CLASSES # {}}
    <2>1. log \in Seq(Lines)
        BY DEF Types, ScanTypes
    <2>2. fatal = FATAL_CLASSES
        BY FatalFirst DEF severity_of
    <2>3. lines \in SUBSET HitsIn(log, fatal)
        BY <2>2, FatalClassified DEF HitsIn
    <2>4. Cardinality(lines) <= Cardinality(HitsIn(log, fatal))
        BY <2>1, <2>3, HitsInFinite, FS_Subset
    <2>5. MapThenSumSet(LAMBDA c : scan(log)[c], fatal) = Cardinality(HitsIn(log, fatal))
        BY <2>1, SumOfCounts
    <2>6. QED
        BY <2>4, <2>5 DEF FatalVisible
<1>2. QED
    BY <1>1, TypesAlways, PTL
=============================================================================
