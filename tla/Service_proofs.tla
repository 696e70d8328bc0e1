--------------------------- MODULE Service_proofs ---------------------------
(***************************************************************************)
(* The service answers every call from one load of its region, bounds      *)
(* every search, deserves its errors and never reloads backwards, for      *)
(* every set of calls, reloads, regions, requests and command lines.       *)
(***************************************************************************)
EXTENDS Service, TLAPS, FiniteSetTheorems, SequenceTheorems, NaturalsInduction, WellFoundedInduction

-----------------------------------------------------------------------------
(* The invariant.                                                            *)

Configured ==
  phase # "failed" =>
    /\ config.regions \in Seq(Region)
    /\ config.default_region \in Named(config.regions)
    /\ config.max_search_timeout \in Nat
    /\ config.max_limit \in Nat \ {0}

LoadPlaces == {"idle", "reading", "done", "failed", "refused", "abandoned"}

\* Only the startup and the reloads of a serving process read, each file once.
LoadsInOrder ==
  /\ load \in [Loader -> [at : LoadPlaces, read : Seq(0..edits)]]
  /\ \A l \in Loader :
       /\ load[l].at # "reading" => load[l].read = <<>>
       /\ load[l].at = "reading" =>
            /\ phase \in IF l = Startup THEN {"starting"} ELSE {"serving", "draining"}
            /\ Len(load[l].read) <= 2 * Len(config.regions)
  /\ registry.loader # None => load[registry.loader].at = "done"

\* The file a load reads as its k-th.
RegionAt(k) == config.regions[(k - 1) \div 2 + 1]
FileAt(k) == IF (k - 1) % 2 = 0 THEN "tables" ELSE "metas"

\* What is in service or was read is not newer than the disk, and a reload that
\* nobody overtook has read nothing older than what is in service.
FilesMoveForward ==
  /\ registry.loader # None =>
       \A r \in Named(config.regions), f \in Files :
         disk[r][f] # Broken => disk[r][f] >= registry.snapshots[r][f]
  /\ \A l \in Loader : \A k \in 1..Len(load[l].read) :
       LET now == disk[RegionAt(k)][FileAt(k)]
       IN  now # Broken => now >= load[l].read[k]
  /\ \A a \in Reload : load[a].at = "reading" /\ during[a] = {registry.loader} =>
       \A k \in 1..Len(load[a].read) :
         load[a].read[k] >= registry.snapshots[RegionAt(k)][FileAt(k)]

Fates == {"new", "refused", "waiting", "running", "finished", "panicked"}
Tolds == {"none", "Ok", "QueueFull", "QueueTimeout", "Failed"}

\* A call's place in its handler, its job's fate, and what it was told.
PlacesAndFates ==
  /\ fate \in [Call -> Fates] /\ told \in [Call -> Tolds]
  /\ open <=> phase # "stopped"
  /\ \A c \in Call :
       /\ place[c] \in {"arrived", "resolved", "submitted"} => phase \in {"serving", "draining"}
       /\ place[c] = "ended" => registry.loader # None
       /\ place[c] \in {"new", "arrived", "resolved"} => fate[c] = "new"
       /\ place[c] = "submitted" => fate[c] # "new"
       /\ fate[c] = "new" => told[c] = "none"
       /\ told[c] = "Ok" => fate[c] = "finished"
       /\ told[c] = "Failed" => fate[c] = "panicked"
       /\ place[c] # "ended" => answer[c] = "none"
       /\ answer[c] = "Ok" => fate[c] = "finished"

\* Whoever is on its way may see the registry in service; a call holds one
\* registry it may have seen, and its job reads that one only.
HeldAndUsed ==
  /\ during \in [Call \cup Reload -> SUBSET (Loader \cup {None})]
  /\ used \in [Call -> SUBSET (Loader \cup {None})]
  /\ \A x \in Call \cup Reload : OnItsWay(x) => registry.loader \in during[x]
  /\ \A c \in Call :
       /\ place[c] = "resolved" \/ fate[c] # "new" => held[c] \in during[c]
       /\ used[c] = IF fate[c] \in {"running", "finished", "panicked"} THEN {held[c]} ELSE {}

\* Clamped when it was submitted, a call's limits stay.
Bounded(q) ==
  q.endpoint \in Searches /\ config.max_search_timeout > 0 =>
    q.timeout \in 1..config.max_search_timeout /\ q.limit <= config.max_limit

Clamped == \A c \in Call : fate[c] # "new" => Bounded(ask[c])

Ended == {c \in Call : place[c] = "ended"}
Done == {a \in Reload : load[a].at = "done"}

\* A call and a reload are counted once.
CountedOnce ==
  /\ \A e \in Endpoints, o \in Outcomes : requests[e][o] <= Cardinality(Ended)
  /\ searchTimeouts <= Cardinality(Ended)
  /\ reloads <= Cardinality(Done)

IInv ==
  /\ TypeOK
  /\ Configured
  /\ LoadsInOrder
  /\ FilesMoveForward
  /\ PlacesAndFates
  /\ HeldAndUsed
  /\ Clamped
  /\ CountedOnce
  /\ ErrorsAreDeserved

-----------------------------------------------------------------------------
(* What a load reads, and what goes into service.                           *)

(* A name in a sequence has a last place there.                            *)
LEMMA LastPlace ==
  ASSUME NEW S, NEW s \in Seq(S), NEW x \in Named(s)
  PROVE  \E i \in 1..Len(s) : s[i] = x /\ \A j \in i + 1..Len(s) : s[j] # x
<1> DEFINE D == {d \in Nat : \E i \in 1..Len(s) : s[i] = x /\ d = Len(s) - i}
<1>0. Len(s) \in Nat /\ DOMAIN s = 1..Len(s)
  OBVIOUS
<1>1. D # {}
  <2>1. PICK i \in 1..Len(s) : s[i] = x
    BY <1>0 DEF Named
  <2>2. Len(s) - i \in D
    BY <1>0, <2>1
  <2> QED BY <2>2
<1>2. D \subseteq Nat
  OBVIOUS
<1> HIDE DEF D
<1>3. PICK d \in D : \A e \in D : <<e, d>> \notin OpToRel(<, Nat)
  BY <1>1, <1>2, WFMin, NatLessThanWellFounded
<1>4. \A e \in D : ~(e < d)
  BY <1>2, <1>3 DEF OpToRel
<1>5. PICK i \in 1..Len(s) : s[i] = x /\ d = Len(s) - i
  BY DEF D
<1>6. ASSUME NEW j \in i + 1..Len(s), s[j] = x PROVE FALSE
  <2>0. j \in 1..Len(s) /\ Len(s) - j \in Nat
    BY <1>0, <1>6
  <2>1. Len(s) - j \in D
    BY <2>0, <1>6 DEF D
  <2> QED BY <1>0, <1>4, <1>5, <2>1
<1> QED BY <1>5, <1>6

(* The place a region's snapshot is loaded from, the last it is named at,  *)
(* names that region.                                                      *)
LEMMA LastOfProperties ==
  ASSUME NEW S, config.regions \in Seq(S), NEW r \in Named(config.regions)
  PROVE  LastOf(r) \in 1..Len(config.regions) /\ config.regions[LastOf(r)] = r
<1>1. \E i \in 1..Len(config.regions) :
        config.regions[i] = r /\ \A j \in i + 1..Len(config.regions) : config.regions[j] # r
  BY LastPlace
<1>2. DOMAIN config.regions = 1..Len(config.regions)
  OBVIOUS
<1> QED BY <1>1, <1>2 DEF LastOf

(* Each region has two files, the tables before the metas.                 *)
LEMMA TwoFiles ==
  ASSUME NEW i \in Nat \ {0}
  PROVE  /\ 2 * i - 1 \in Nat \ {0} /\ 2 * i \in Nat \ {0}
         /\ RegionAt(2 * i - 1) = config.regions[i] /\ FileAt(2 * i - 1) = "tables"
         /\ RegionAt(2 * i) = config.regions[i] /\ FileAt(2 * i) = "metas"
<1>1. /\ ((2 * i - 1) - 1) \div 2 + 1 = i /\ ((2 * i - 1) - 1) % 2 = 0
      /\ (2 * i - 1) \div 2 + 1 = i /\ (2 * i - 1) % 2 = 1
  OBVIOUS
<1> QED BY <1>1 DEF RegionAt, FileAt

(* A load reads the files of the configured regions only.                  *)
LEMMA FilesOfRegions ==
  ASSUME NEW S, config.regions \in Seq(S), NEW k \in 1..2 * Len(config.regions)
  PROVE  /\ RegionAt(k) \in Named(config.regions) /\ RegionAt(k) \in S
         /\ FileAt(k) \in Files
<1>1. Len(config.regions) \in Nat
  OBVIOUS
<1>2. (k - 1) \div 2 + 1 \in 1..Len(config.regions)
  BY <1>1
<1>3. DOMAIN config.regions = 1..Len(config.regions)
      /\ \A i \in 1..Len(config.regions) : config.regions[i] \in S
  OBVIOUS
<1> QED BY <1>2, <1>3 DEF RegionAt, FileAt, Named, Files

(* The file a load reads next is the one after those it has read.          *)
LEMMA NextFileIs ==
  ASSUME NEW l, Len(load[l].read) \in Nat
  PROVE  NextFile(l) = disk[RegionAt(Len(load[l].read) + 1)][FileAt(Len(load[l].read) + 1)]
<1>1. Len(load[l].read) + 1 - 1 = Len(load[l].read)
  OBVIOUS
<1> QED BY <1>1 DEF NextFile, RegionAt, FileAt

\* What a load that went into service has read.
RegistryShape(reg) ==
  reg.snapshots \in [Named(config.regions) -> [tables : 0..edits, metas : 0..edits]]

(* The registry of a load that has read every file holds, for every        *)
(* region and file, a version that load has read.                          *)
LEMMA RegistryOfProperties ==
  ASSUME IInv, phase # "failed", NEW l \in Loader, Loaded(l)
  PROVE  /\ RegistryOf(l).loader = l
         /\ RegistryShape(RegistryOf(l))
         /\ \A r \in Named(config.regions), f \in Files :
              \E k \in 1..Len(load[l].read) :
                /\ RegionAt(k) = r /\ FileAt(k) = f
                /\ RegistryOf(l).snapshots[r][f] = load[l].read[k]
<1>1. /\ config.regions \in Seq(Region) /\ Len(config.regions) \in Nat
      /\ load[l].read \in Seq(0..edits)
      /\ Len(load[l].read) = 2 * Len(config.regions)
  BY DEF IInv, Configured, TypeOK, Loaded
<1>2. \A k \in 1..2 * Len(config.regions) : load[l].read[k] \in 0..edits
  <2>1. \A s \in Seq(0..edits) : \A k \in 1..Len(s) : s[k] \in 0..edits
    BY ElementOfSeq
  <2> QED BY <1>1, <2>1, Zenon
<1>3. ASSUME NEW r \in Named(config.regions)
      PROVE  LET i == LastOf(r)
             IN  /\ 2 * i - 1 \in 1..2 * Len(config.regions)
                 /\ 2 * i \in 1..2 * Len(config.regions)
                 /\ RegionAt(2 * i - 1) = r /\ FileAt(2 * i - 1) = "tables"
                 /\ RegionAt(2 * i) = r /\ FileAt(2 * i) = "metas"
  <2>1. LastOf(r) \in 1..Len(config.regions) /\ config.regions[LastOf(r)] = r
    BY <1>1, LastOfProperties
  <2>2. LastOf(r) \in Nat \ {0}
    BY <1>1, <2>1
  <2>3. /\ 2 * LastOf(r) - 1 \in 1..2 * Len(config.regions)
        /\ 2 * LastOf(r) \in 1..2 * Len(config.regions)
    BY <1>1, <2>1
  <2> QED BY <2>1, <2>2, <2>3, TwoFiles
<1>4. \A r \in Named(config.regions) :
        /\ load[l].read[2 * LastOf(r) - 1] \in 0..edits
        /\ load[l].read[2 * LastOf(r)] \in 0..edits
  BY <1>2, <1>3, Zenon
<1>8. \A r \in Named(config.regions) :
        /\ RegistryOf(l).snapshots[r] = [tables |-> load[l].read[2 * LastOf(r) - 1],
                                         metas |-> load[l].read[2 * LastOf(r)]]
        /\ RegistryOf(l).snapshots[r]["tables"] = load[l].read[2 * LastOf(r) - 1]
        /\ RegistryOf(l).snapshots[r]["metas"] = load[l].read[2 * LastOf(r)]
  BY DEF RegistryOf
<1>5. RegistryShape(RegistryOf(l))
  <2>1. DOMAIN RegistryOf(l).snapshots = Named(config.regions)
        /\ RegistryOf(l).snapshots =
             [r \in Named(config.regions) |-> RegistryOf(l).snapshots[r]]
    BY DEF RegistryOf
  <2>2. \A x, y \in 0..edits :
          [tables |-> x, metas |-> y] \in [tables : 0..edits, metas : 0..edits]
    OBVIOUS
  <2>3. ASSUME NEW r \in Named(config.regions)
        PROVE  RegistryOf(l).snapshots[r] \in [tables : 0..edits, metas : 0..edits]
    <3> DEFINE a == load[l].read[2 * LastOf(r) - 1]
               b == load[l].read[2 * LastOf(r)]
    <3>1. a \in 0..edits /\ b \in 0..edits
      BY <1>4
    <3>2. RegistryOf(l).snapshots[r] = [tables |-> a, metas |-> b]
      BY <1>8
    <3> HIDE DEF a, b
    <3> QED BY <2>2, <3>1, <3>2
  <2> QED BY <2>1, <2>3 DEF RegistryShape
<1>6. RegistryOf(l).loader = l
  BY DEF RegistryOf
<1>7. ASSUME NEW r \in Named(config.regions), NEW f \in Files
      PROVE  \E k \in 1..Len(load[l].read) :
                /\ RegionAt(k) = r /\ FileAt(k) = f
                /\ RegistryOf(l).snapshots[r][f] = load[l].read[k]
  <2>1. CASE f = "tables"
    BY <1>1, <1>3, <1>8, <2>1, Zenon
  <2>2. CASE f = "metas"
    BY <1>1, <1>3, <1>8, <2>2, Zenon
  <2> QED BY <2>1, <2>2 DEF Files
<1> QED BY <1>5, <1>6, <1>7

-----------------------------------------------------------------------------
(* The files, the loads and the registry.                                   *)

FilesTyped ==
  edits \in Nat /\ disk \in [Region -> [Files -> (0..edits) \cup {Broken}]]

RegistryTyped ==
  /\ phase \in {"starting", "failed", "serving", "draining", "stopped"}
  /\ registry.loader \in Loader \cup {None}
  /\ registry.loader = None <=> phase \in {"starting", "failed"}
  /\ registry.loader # None => RegistryShape(registry)

Process ==
  FilesTyped /\ RegistryTyped /\ Configured /\ LoadsInOrder /\ FilesMoveForward

(* The part of the invariant that is about the process, its files and its  *)
(* registry.                                                               *)
LEMMA ProcessHolds == IInv => Process
BY DEF IInv, TypeOK, Process, FilesTyped, RegistryTyped, RegistryShape

(* The versions in service and of the files read.                          *)
LEMMA Versions ==
  ASSUME Process
  PROVE  /\ phase # "failed" => Named(config.regions) \subseteq Region
         /\ \A r \in Region, f \in Files : disk[r][f] # Broken => disk[r][f] \in 0..edits
         /\ registry.loader # None =>
              \A r \in Named(config.regions), f \in Files : registry.snapshots[r][f] \in 0..edits
         /\ \A l \in Loader : \A k \in 1..Len(load[l].read) :
              /\ load[l].read[k] \in 0..edits /\ phase # "failed"
              /\ RegionAt(k) \in Named(config.regions) /\ FileAt(k) \in Files
<1>1. phase # "failed" => Named(config.regions) \subseteq Region
  <2>1. ASSUME NEW s \in Seq(Region) PROVE Named(s) \subseteq Region
    <3>1. \A i \in DOMAIN s : s[i] \in Region
      OBVIOUS
    <3> QED BY <3>1 DEF Named
  <2> QED BY <2>1 DEF Process, Configured
<1>2. \A r \in Region, f \in Files : disk[r][f] # Broken => disk[r][f] \in 0..edits
  BY DEF Process, FilesTyped
<1>3. ASSUME registry.loader # None, NEW r \in Named(config.regions), NEW f \in Files
      PROVE  registry.snapshots[r][f] \in 0..edits
  <2>1. registry.snapshots[r] \in [tables : 0..edits, metas : 0..edits]
    BY <1>3 DEF Process, RegistryTyped, RegistryShape
  <2>2. \A x \in [tables : 0..edits, metas : 0..edits] :
          x["tables"] \in 0..edits /\ x["metas"] \in 0..edits
    OBVIOUS
  <2> QED BY <2>1, <2>2, Zenon DEF Files
<1>4. ASSUME NEW l \in Loader, NEW k \in 1..Len(load[l].read)
      PROVE  /\ load[l].read[k] \in 0..edits /\ phase # "failed"
             /\ RegionAt(k) \in Named(config.regions) /\ FileAt(k) \in Files
  <2>1. load[l].read \in Seq(0..edits)
    BY DEF Process, LoadsInOrder
  <2>2. load[l].at = "reading"
    <3>1. load[l].read # <<>>
      OBVIOUS
    <3> QED BY <3>1 DEF Process, LoadsInOrder
  <2>3. phase # "failed" /\ Len(load[l].read) <= 2 * Len(config.regions)
    BY <2>2 DEF Process, LoadsInOrder
  <2>4. config.regions \in Seq(Region)
    BY <2>3 DEF Process, Configured
  <2>5. Len(load[l].read) \in Nat /\ Len(config.regions) \in Nat
    BY <2>1, <2>4, LenProperties
  <2>6. k \in 1..2 * Len(config.regions)
    BY <2>3, <2>5
  <2>7. load[l].read[k] \in 0..edits
    BY <2>1, ElementOfSeq
  <2> QED BY <2>3, <2>4, <2>6, <2>7, FilesOfRegions
<1> QED BY <1>1, <1>2, <1>3, <1>4

\* A load that ends keeps nothing of what it read.
LEMMA FinishedEffect ==
  ASSUME Process, NEW l \in Loader, NEW how \in LoadPlaces, Finished(l, how)
  PROVE  /\ load' \in [Loader -> [at : LoadPlaces, read : Seq(0..edits)]]
         /\ load'[l].at = how /\ load'[l].read = <<>>
         /\ \A k \in Loader : k # l => load'[k] = load[k]
<1>1. load \in [Loader -> [at : LoadPlaces, read : Seq(0..edits)]]
  BY DEF Process, LoadsInOrder
<1>2. <<>> \in Seq(0..edits)
  BY EmptySeq
<1>3. [at |-> how, read |-> <<>>] \in [at : LoadPlaces, read : Seq(0..edits)]
  BY <1>2
<1>4. load' = [load EXCEPT ![l] = [at |-> how, read |-> <<>>]]
  BY DEF Finished
<1> QED BY <1>1, <1>3, <1>4

(* The operator's edit is newer than anything in service or read.          *)
LEMMA EditProcess ==
  ASSUME Process, phase # "failed", NEW r \in Named(config.regions), NEW f \in Files, Edit(r, f)
  PROVE  Process'
<1>1. PICK v \in {edits + 1, Broken} :
        /\ edits' = edits + 1 /\ disk' = [disk EXCEPT ![r][f] = v]
        /\ UNCHANGED <<config, phase, registry, load, during>>
  BY DEF Edit
<1>2. edits \in Nat /\ disk \in [Region -> [Files -> (0..edits) \cup {Broken}]] /\ r \in Region
  BY Versions DEF Process, FilesTyped
<1>3. \A q \in Region, g \in Files :
        disk'[q][g] = disk[q][g] \/ disk'[q][g] = edits + 1 \/ disk'[q][g] = Broken
  BY <1>1, <1>2
<1>w. 0..edits \subseteq 0..edits'
  BY <1>1, <1>2
<1>4. FilesTyped'
  <2>1. \A q \in Region, g \in Files : disk'[q][g] \in (0..edits') \cup {Broken}
    <3>1. edits + 1 \in 0..edits'
      BY <1>1, <1>2
    <3>2. \A q \in Region, g \in Files : disk[q][g] \in (0..edits) \cup {Broken}
      BY <1>2
    <3> QED BY <1>3, <1>w, <3>1, <3>2
  <2>2. disk' \in [Region -> [Files -> (0..edits') \cup {Broken}]]
    <3>1. /\ DOMAIN disk' = Region /\ disk' = [q \in Region |-> disk'[q]]
          /\ \A q \in Region : DOMAIN disk'[q] = Files /\ disk'[q] = [g \in Files |-> disk'[q][g]]
      BY <1>1, <1>2
    <3> QED BY <2>1, <3>1
  <2> QED BY <1>1, <1>2, <2>2 DEF FilesTyped
<1>5. RegistryTyped'
  <2>1. RegistryShape(registry) => RegistryShape(registry)'
    <3>1. [tables : 0..edits, metas : 0..edits] \subseteq [tables : 0..edits', metas : 0..edits']
      BY <1>w
    <3> QED BY <1>1, <3>1 DEF RegistryShape
  <2> QED BY <1>1, <2>1 DEF Process, RegistryTyped
<1>6. Configured'
  BY <1>1 DEF Process, Configured
<1>7. LoadsInOrder'
  <2>1. Seq(0..edits) \subseteq Seq(0..edits')
    BY <1>w, SeqMonotonic
  <2>2. [at : LoadPlaces, read : Seq(0..edits)] \subseteq [at : LoadPlaces, read : Seq(0..edits')]
    BY <2>1
  <2> QED BY <1>1, <2>2 DEF Process, LoadsInOrder
<1>8. FilesMoveForward'
  <2>1. ASSUME NEW x \in 0..edits, NEW q \in Region, NEW g \in Files, disk'[q][g] # Broken,
               disk[q][g] # Broken => disk[q][g] >= x
        PROVE  disk'[q][g] >= x
    BY <1>2, <1>3, <2>1
  <2> QED BY <1>1, <2>1, Versions DEF Process, FilesMoveForward, RegionAt, FileAt
<1> QED BY <1>4, <1>5, <1>6, <1>7, <1>8 DEF Process

(* A load takes the next file as it is now.                                *)
LEMMA ReadProcess ==
  ASSUME Process, NEW l \in Loader, ReadFile(l)
  PROVE  Process'
<1> DEFINE n == Len(load[l].read)
           v == NextFile(l)
<1>t. /\ load \in [Loader -> [at : LoadPlaces, read : Seq(0..edits)]]
      /\ load[l].at = "reading" /\ load[l].read \in Seq(0..edits)
  BY DEF Process, LoadsInOrder, ReadFile, Reading
<1>1. /\ v # Broken /\ n < 2 * Len(config.regions)
      /\ load' = [load EXCEPT ![l].read = Append(@, v)]
      /\ UNCHANGED <<config, phase, disk, edits, registry, during>>
  BY DEF ReadFile, Reading, files
<1>2. /\ phase # "failed" /\ config.regions \in Seq(Region)
      /\ registry.loader # None \/ l = Startup
  <2>1. phase \in IF l = Startup THEN {"starting"} ELSE {"serving", "draining"}
    BY <1>t DEF Process, LoadsInOrder
  <2> QED BY <2>1 DEF Process, Configured, RegistryTyped
<1>3. n \in Nat /\ Len(config.regions) \in Nat
  BY <1>t, <1>2, LenProperties
<1>4. /\ v = disk[RegionAt(n + 1)][FileAt(n + 1)]
      /\ RegionAt(n + 1) \in Named(config.regions) /\ RegionAt(n + 1) \in Region
      /\ FileAt(n + 1) \in Files
  <2>1. n + 1 \in 1..2 * Len(config.regions)
    BY <1>1, <1>3
  <2>2. v = disk[RegionAt(n + 1)][FileAt(n + 1)]
    BY <1>3, NextFileIs
  <2> QED BY <1>2, <2>1, <2>2, FilesOfRegions
<1>5. v \in 0..edits
  BY <1>1, <1>4, Versions
<1>6. /\ load' \in [Loader -> [at : LoadPlaces, read : Seq(0..edits)]]
      /\ load'[l].at = "reading" /\ load'[l].read = Append(load[l].read, v)
      /\ \A k \in Loader : k # l => load'[k] = load[k]
  <2>1. Append(load[l].read, v) \in Seq(0..edits)
    BY <1>t, <1>5
  <2> HIDE DEF v
  <2> QED BY <1>t, <1>1, <2>1
<1>7. /\ Len(load'[l].read) = n + 1 /\ load'[l].read[n + 1] = v
      /\ \A k \in 1..n : load'[l].read[k] = load[l].read[k]
  BY <1>t, <1>5, <1>6
<1> HIDE DEF n, v
<1>8. LoadsInOrder'
  <2>1. \A k \in Loader : load'[k].at = load[k].at
    BY <1>t, <1>6
  <2>2. Len(load'[l].read) <= 2 * Len(config.regions)
    BY <1>1, <1>3, <1>7
  <2>3. \A k \in Loader :
          /\ load'[k].at # "reading" => load'[k].read = <<>>
          /\ load'[k].at = "reading" =>
               /\ phase \in IF k = Startup THEN {"starting"} ELSE {"serving", "draining"}
               /\ Len(load'[k].read) <= 2 * Len(config.regions)
    BY <1>t, <1>6, <2>1, <2>2 DEF Process, LoadsInOrder
  <2>4. registry.loader # None => load'[registry.loader].at = "done"
    BY <2>1 DEF Process, LoadsInOrder, RegistryTyped
  <2> QED BY <1>1, <1>6, <2>3, <2>4 DEF LoadsInOrder
<1>9. FilesMoveForward'
  <2>1. registry.loader # None =>
          \A r \in Named(config.regions), f \in Files :
            disk[r][f] # Broken => disk[r][f] >= registry.snapshots[r][f]
    BY DEF Process, FilesMoveForward
  <2>2. ASSUME NEW k \in Loader, NEW i \in 1..Len(load'[k].read),
               disk[RegionAt(i)][FileAt(i)] # Broken
        PROVE  disk[RegionAt(i)][FileAt(i)] >= load'[k].read[i]
    <3>1. CASE k = l /\ i = n + 1
      BY <1>4, <1>5, <1>7, <3>1
    <3>2. CASE ~(k = l /\ i = n + 1)
      <4>1. i \in 1..Len(load[k].read) /\ load'[k].read[i] = load[k].read[i]
        BY <1>3, <1>6, <1>7, <2>2, <3>2 DEF n
      <4> QED BY <4>1, <2>2 DEF Process, FilesMoveForward
    <3> QED BY <3>1, <3>2
  <2>3. ASSUME NEW a \in Reload, load'[a].at = "reading", during[a] = {registry.loader},
               NEW i \in 1..Len(load'[a].read)
        PROVE  load'[a].read[i] >= registry.snapshots[RegionAt(i)][FileAt(i)]
    <3>0. a \in Loader
      BY DEF Loader
    <3>1. CASE a = l /\ i = n + 1
      <4>1. registry.loader # None
        BY <1>2, <3>1, ServiceAssumption
      <4>2. disk[RegionAt(i)][FileAt(i)] >= registry.snapshots[RegionAt(i)][FileAt(i)]
        BY <1>1, <1>4, <2>1, <3>1, <4>1
      <4> QED BY <1>4, <1>7, <3>1, <4>2
    <3>2. CASE ~(a = l /\ i = n + 1)
      <4>1. i \in 1..Len(load[a].read) /\ load'[a].read[i] = load[a].read[i]
        BY <1>3, <1>6, <1>7, <2>3, <3>0, <3>2 DEF n
      <4>2. load[a].at = "reading"
        BY <1>t, <1>6, <2>3, <3>0
      <4> QED BY <4>1, <4>2, <2>3 DEF Process, FilesMoveForward
    <3> QED BY <3>1, <3>2
  <2> QED BY <1>1, <2>1, <2>2, <2>3 DEF FilesMoveForward, RegionAt, FileAt
<1> QED
  BY <1>1, <1>8, <1>9 DEF Process, FilesTyped, RegistryTyped, RegistryShape, Configured

(* A load ends without its registry going into service.                    *)
LEMMA EndLoadProcess ==
  ASSUME Process, NEW l \in Loader, load[l].at # "done",
         NEW how \in LoadPlaces \ {"reading"}, Finished(l, how),
         UNCHANGED <<config, disk, edits, registry, during>>,
         phase' = phase \/ (l = Startup /\ phase = "starting" /\ phase' = "failed")
  PROVE  Process'
<1>1. /\ load' \in [Loader -> [at : LoadPlaces, read : Seq(0..edits)]]
      /\ load'[l].at = how /\ load'[l].read = <<>>
      /\ \A k \in Loader : k # l => load'[k] = load[k]
  BY FinishedEffect
<1>2. registry.loader # l
  BY ServiceAssumption DEF Process, LoadsInOrder
<1>3. LoadsInOrder'
  <2>1. \A k \in Loader : load'[k].at = "reading" =>
          k # l /\ load[k].at = "reading" /\ load'[k] = load[k] /\ phase' = phase
    BY <1>1 DEF Process, LoadsInOrder
  <2>2. \A k \in Loader : load'[k].at # "reading" => load'[k].read = <<>>
    BY <1>1 DEF Process, LoadsInOrder
  <2>3. registry.loader # None => load'[registry.loader].at = "done"
    BY <1>1, <1>2 DEF Process, LoadsInOrder, RegistryTyped
  <2> QED BY <1>1, <2>1, <2>2, <2>3 DEF Process, LoadsInOrder
<1>4. FilesMoveForward'
  <2>1. \A k \in 1..Len(<<>>) : FALSE
    OBVIOUS
  <2> QED BY <1>1, <2>1 DEF Process, FilesMoveForward, RegionAt, FileAt, Loader
<1>5. Configured' /\ RegistryTyped' /\ FilesTyped'
  BY DEF Process, FilesTyped, RegistryTyped, RegistryShape, Configured
<1> QED BY <1>3, <1>4, <1>5 DEF Process

\* Whoever is on its way may see the registry in service.
Watched ==
  /\ during \in [Call \cup Reload -> SUBSET (Loader \cup {None})]
  /\ \A x \in Call \cup Reload : OnItsWay(x) => registry.loader \in during[x]

(* A registry goes into service: it is not newer than the disk, and every  *)
(* reload under way has been overtaken.                                    *)
LEMMA InstallProcess ==
  ASSUME IInv, NEW l \in Loader, Loaded(l), Install(l),
         UNCHANGED <<config, disk, edits, place>>,
         IF l = Startup THEN phase' = "serving" ELSE phase' = phase
  PROVE  Process' /\ Watched'
<1>p. Process
  BY ProcessHolds
<1>t. load \in [Loader -> [at : LoadPlaces, read : Seq(0..edits)]]
  BY <1>p DEF Process, LoadsInOrder
<1>1. /\ registry' = RegistryOf(l)
      /\ during' = [x \in DOMAIN during |-> IF OnItsWay(x) THEN during[x] \cup {l} ELSE during[x]]
      /\ Finished(l, "done") /\ load[l].at = "reading"
  BY DEF Install, Loaded
<1>2. /\ load' \in [Loader -> [at : LoadPlaces, read : Seq(0..edits)]]
      /\ load'[l].at = "done" /\ load'[l].read = <<>>
      /\ \A k \in Loader : k # l => load'[k] = load[k]
  BY <1>p, <1>1, FinishedEffect DEF LoadPlaces
<1>3. /\ phase \in IF l = Startup THEN {"starting"} ELSE {"serving", "draining"}
      /\ phase # "failed" /\ phase' \in {"serving", "draining"}
  BY <1>1, <1>p DEF Process, LoadsInOrder
<1>4. /\ registry'.loader = l /\ RegistryShape(registry')
      /\ \A r \in Named(config.regions), f \in Files :
           \E k \in 1..Len(load[l].read) :
             RegionAt(k) = r /\ FileAt(k) = f /\ registry'.snapshots[r][f] = load[l].read[k]
  BY <1>1, <1>3, RegistryOfProperties
<1>5. l # None
  BY ServiceAssumption
<1>6. ASSUME NEW k \in Loader, load'[k].at = "reading"
      PROVE  /\ k # l /\ load[k] = load'[k] /\ load[k].at = "reading"
             /\ phase = phase' /\ phase \in {"serving", "draining"} /\ k # Startup
  BY <1>2, <1>3, <1>6, <1>p DEF Process, LoadsInOrder
<1>7. FilesTyped' /\ Configured'
  BY <1>3, <1>p DEF Process, FilesTyped, Configured
<1>8. RegistryTyped'
  BY <1>3, <1>4, <1>5 DEF RegistryTyped, RegistryShape
<1>9. LoadsInOrder'
  <2>1. \A k \in Loader : load'[k].at # "reading" => load'[k].read = <<>>
    BY <1>2, <1>p DEF Process, LoadsInOrder
  <2>2. \A k \in Loader : load'[k].at = "reading" =>
           /\ phase' \in IF k = Startup THEN {"starting"} ELSE {"serving", "draining"}
           /\ Len(load'[k].read) <= 2 * Len(config.regions)
    BY <1>6, <1>p DEF Process, LoadsInOrder
  <2> QED BY <1>2, <1>4, <2>1, <2>2 DEF LoadsInOrder
<1>d. /\ DOMAIN during = Call \cup Reload
      /\ \A x \in Call \cup Reload : during[x] \in SUBSET (Loader \cup {None})
  BY DEF IInv, HeldAndUsed
<1>10. ASSUME NEW a \in Reload, load'[a].at = "reading" PROVE during'[a] # {l}
  <2>1. a \in Loader /\ a \notin Call /\ a \in Call \cup Reload
    BY ServiceAssumption DEF Loader
  <2>2. load[a].at = "reading" /\ phase \in {"serving", "draining"}
    BY <1>6, <1>10, <2>1
  <2>3. OnItsWay(a)
    BY <2>1, <2>2 DEF OnItsWay
  <2>4. registry.loader \in during[a] /\ during'[a] = during[a] \cup {l}
    BY <1>1, <1>d, <2>1, <2>3 DEF IInv, HeldAndUsed
  <2>5. registry.loader # None /\ load[registry.loader].at = "done"
    BY <2>2, <1>p DEF Process, LoadsInOrder, RegistryTyped
  <2>6. registry.loader # l
    BY <1>1, <2>5
  <2> QED BY <2>4, <2>6
<1>11. FilesMoveForward'
  <2>1. ASSUME NEW r \in Named(config.regions), NEW f \in Files, disk[r][f] # Broken
        PROVE  disk[r][f] >= registry'.snapshots[r][f]
    <3>1. PICK k \in 1..Len(load[l].read) :
            RegionAt(k) = r /\ FileAt(k) = f /\ registry'.snapshots[r][f] = load[l].read[k]
      BY <1>4
    <3> QED BY <2>1, <3>1, <1>p DEF Process, FilesMoveForward
  <2>2. \A k \in 1..Len(<<>>) : FALSE
    OBVIOUS
  <2>3. \A k \in Loader : \A i \in 1..Len(load'[k].read) :
          disk[RegionAt(i)][FileAt(i)] # Broken =>
            disk[RegionAt(i)][FileAt(i)] >= load'[k].read[i]
    BY <1>2, <2>2, <1>p DEF Process, FilesMoveForward
  <2> QED BY <1>4, <1>10, <2>1, <2>3 DEF FilesMoveForward, RegionAt, FileAt
<1>12. Watched'
  <2>1. \A x \in Call \cup Reload :
          during'[x] = IF OnItsWay(x) THEN during[x] \cup {l} ELSE during[x]
    BY <1>1, <1>d
  <2>2. \A x \in Call \cup Reload : OnItsWay(x)' => OnItsWay(x)
    <3>1. ASSUME NEW x \in Reload, load'[x].at = "reading" PROVE load[x].at = "reading"
      BY <1>6, <3>1 DEF Loader
    <3> QED BY <3>1 DEF OnItsWay
  <2>3. DOMAIN during' = Call \cup Reload /\ during' = [x \in Call \cup Reload |-> during'[x]]
    BY <1>1, <1>d
  <2>4. \A x \in Call \cup Reload : during'[x] \in SUBSET (Loader \cup {None})
    BY <1>d, <2>1
  <2> QED BY <1>4, <2>1, <2>2, <2>3, <2>4 DEF Watched
<1> QED BY <1>7, <1>8, <1>9, <1>11, <1>12 DEF Process

(* A call's step is invisible to the loads and to every other call.        *)
LEMMA HandleLeaves ==
  ASSUME IInv, NEW c \in Call, Handle(c)
  PROVE  /\ UNCHANGED <<config, phase, disk, edits, registry, load, open, reloads>>
         /\ \A x \in Call : x # c =>
              /\ place'[x] = place[x] /\ ask'[x] = ask[x] /\ held'[x] = held[x]
              /\ used'[x] = used[x] /\ fate'[x] = fate[x] /\ told'[x] = told[x]
         /\ \A x \in Call \cup Reload : x # c => answer'[x] = answer[x] /\ during'[x] = during[x]
<1>t. /\ place \in [Call -> {"new", "arrived", "resolved", "submitted", "ended"}]
      /\ ask \in [Call -> AskType] /\ held \in [Call -> Loader \cup {None}]
      /\ answer \in [Call \cup Reload -> Answers]
      /\ fate \in [Call -> Fates] /\ told \in [Call -> Tolds]
      /\ during \in [Call \cup Reload -> SUBSET (Loader \cup {None})]
      /\ used \in [Call -> SUBSET (Loader \cup {None})]
  BY DEF IInv, TypeOK, PlacesAndFates, HeldAndUsed
<1> USE DEF Step, Answer, Finish, Record, files, calls, poolState, metrics
<1>1. CASE Arrive(c)
  BY <1>t, <1>1 DEF Arrive
<1>2. CASE TakeSnapshot(c)
  BY <1>t, <1>2 DEF TakeSnapshot
<1>3. CASE Submit(c)
  <2>1. /\ UNCHANGED <<config, phase, disk, edits, registry, load, held, used, answer, during, reloads>>
        /\ place' = [place EXCEPT ![c] = "submitted"]
        /\ ask' = ask \/ ask' = [ask EXCEPT ![c] = Clamp(@)]
        /\ Pool!Admit(c) \/ Pool!Refuse(c) \/ Pool!Answer(c)
    BY <1>3 DEF Submit
  <2>2. UNCHANGED open /\ \A x \in Call : x # c => fate'[x] = fate[x] /\ told'[x] = told[x]
    BY <1>t, <2>1 DEF Pool!Admit, Pool!Refuse, Pool!Answer
  <2> QED BY <1>t, <2>1, <2>2
<1>4. CASE RunJob(c)
  <2>1. \A x \in Call : x # c => used'[x] = used[x]
    BY <1>t, <1>4 DEF RunJob
  <2> QED BY <1>t, <1>4, <2>1 DEF RunJob, Pool!Begin
<1>5. CASE EndJob(c)
  BY <1>t, <1>5 DEF EndJob, Pool!End
<1>6. CASE Respond(c)
  BY <1>t, <1>6 DEF Respond, Pool!Answer
<1>7. CASE Abandon(c)
  BY <1>t, <1>7 DEF Abandon
<1> QED BY <1>1, <1>2, <1>3, <1>4, <1>5, <1>6, <1>7 DEF Handle

(* A call comes on its way seeing the registry in service.                 *)
LEMMA HandleWatched ==
  ASSUME IInv, NEW c \in Call, Handle(c)
  PROVE  Watched'
<1>t. /\ place \in [Call -> {"new", "arrived", "resolved", "submitted", "ended"}]
      /\ during \in [Call \cup Reload -> SUBSET (Loader \cup {None})]
      /\ registry.loader \in Loader \cup {None}
  BY DEF IInv, TypeOK, HeldAndUsed
<1>1. /\ UNCHANGED <<registry, load>>
      /\ \A x \in Call : x # c => place'[x] = place[x]
      /\ \A x \in Call \cup Reload : x # c => during'[x] = during[x]
  BY HandleLeaves
<1>2. /\ during' = during \/ during' = [during EXCEPT ![c] = {registry.loader}]
      /\ place[c] \in {"new", "ended"} /\ place'[c] \notin {"new", "ended"} =>
           during' = [during EXCEPT ![c] = {registry.loader}]
  <2>1. CASE Arrive(c)
    BY <1>t, <2>1 DEF Arrive, Step
  <2>2. CASE TakeSnapshot(c) \/ Submit(c) \/ Respond(c) \/ Abandon(c)
    BY <1>t, <2>2 DEF TakeSnapshot, Submit, Respond, Abandon, Step
  <2>3. CASE RunJob(c) \/ EndJob(c)
    BY <2>3 DEF RunJob, EndJob
  <2> QED BY <2>1, <2>2, <2>3 DEF Handle
<1>3. during' \in [Call \cup Reload -> SUBSET (Loader \cup {None})]
  BY <1>t, <1>2
<1>4. ASSUME NEW x \in Call \cup Reload, OnItsWay(x)' PROVE registry.loader \in during'[x]
  <2>1. CASE x # c
    <3>1. OnItsWay(x)
      BY <1>1, <1>4, <2>1 DEF OnItsWay
    <3> QED BY <1>1, <2>1, <3>1 DEF IInv, HeldAndUsed
  <2>2. CASE x = c /\ OnItsWay(x)
    BY <1>t, <1>2, <2>2 DEF IInv, HeldAndUsed
  <2>3. CASE x = c /\ ~OnItsWay(x)
    BY <1>t, <1>2, <1>4, <2>3 DEF OnItsWay
  <2> QED BY <2>1, <2>2, <2>3
<1> QED BY <1>1, <1>3, <1>4 DEF Watched

(* A reload begins with nothing read, seeing the registry in service.      *)
LEMMA StartReloadProcess ==
  ASSUME IInv, NEW a \in Reload, NEW token, StartReload(a, token)
  PROVE  Process' /\ Watched'
<1>p. Process
  BY ProcessHolds
<1>t. /\ load \in [Loader -> [at : LoadPlaces, read : Seq(0..edits)]] /\ a \in Loader
      /\ a # Startup /\ a \notin Call
      /\ during \in [Call \cup Reload -> SUBSET (Loader \cup {None})]
  BY <1>p, ServiceAssumption DEF Process, LoadsInOrder, Loader, IInv, HeldAndUsed
<1>1. /\ phase = "serving" /\ load[a].at = "idle"
      /\ load' = [load EXCEPT ![a].at = "reading"]
      /\ during' = [during EXCEPT ![a] = {registry.loader}]
      /\ UNCHANGED <<config, phase, disk, edits, registry, place>>
  BY DEF StartReload, files, calls
<1>2. /\ load' \in [Loader -> [at : LoadPlaces, read : Seq(0..edits)]]
      /\ load'[a].at = "reading" /\ load'[a].read = load[a].read
      /\ \A k \in Loader : k # a => load'[k] = load[k]
  BY <1>t, <1>1 DEF LoadPlaces
<1>3. load[a].read = <<>>
  BY <1>t, <1>1, <1>p DEF Process, LoadsInOrder
<1>4. LoadsInOrder'
  <2>1. Len(config.regions) \in Nat /\ Len(<<>>) = 0
    BY <1>1, <1>p DEF Process, Configured
  <2>2. Len(load'[a].read) <= 2 * Len(config.regions)
    BY <1>2, <1>3, <2>1
  <2>3. registry.loader # None => registry.loader # a
    BY <1>1, <1>p DEF Process, LoadsInOrder
  <2> QED BY <1>t, <1>1, <1>2, <2>2, <2>3, <1>p DEF Process, LoadsInOrder, RegistryTyped
<1>5. FilesMoveForward'
  <2>1. \A k \in 1..Len(<<>>) : FALSE
    OBVIOUS
  <2>2. \A b \in Reload : b # a => during'[b] = during[b] /\ load'[b] = load[b]
    BY <1>t, <1>1, <1>2 DEF Loader
  <2>3. \A k \in Loader : load'[k].read = load[k].read
    BY <1>2
  <2>4. \A b \in Reload : load'[b].at = "reading" /\ during'[b] = {registry.loader} =>
          \A k \in 1..Len(load'[b].read) :
            load'[b].read[k] >= registry.snapshots[RegionAt(k)][FileAt(k)]
    BY <1>2, <1>3, <2>1, <2>2, <1>p DEF Process, FilesMoveForward
  <2> QED BY <1>1, <2>3, <2>4, <1>p DEF Process, FilesMoveForward, RegionAt, FileAt
<1>6. Configured' /\ RegistryTyped' /\ FilesTyped'
  BY <1>1, <1>p DEF Process, FilesTyped, RegistryTyped, RegistryShape, Configured
<1>7. Watched'
  <2>1. registry.loader \in Loader \cup {None}
    BY <1>p DEF Process, RegistryTyped
  <2>2. \A x \in Call \cup Reload : x # a => during'[x] = during[x] /\ (OnItsWay(x)' => OnItsWay(x))
    BY <1>t, <1>1, <1>2 DEF OnItsWay, Loader
  <2>3. during' \in [Call \cup Reload -> SUBSET (Loader \cup {None})] /\ during'[a] = {registry.loader}
    BY <1>t, <1>1, <2>1
  <2> QED BY <1>1, <2>2, <2>3 DEF Watched, IInv, HeldAndUsed
<1> QED BY <1>4, <1>5, <1>6, <1>7 DEF Process

(* The process keeps its files, loads and registry in order.               *)
LEMMA ProcessStep ==
  ASSUME IInv, [Next]_vars
  PROVE  Process' /\ Watched'
<1>p. Process /\ Watched
  BY ProcessHolds DEF IInv, HeldAndUsed, Watched
<1> USE DEF files, calls, poolState, metrics
<1>w. ASSUME UNCHANGED <<registry, during>>,
             \A x \in Call \cup Reload : OnItsWay(x)' => OnItsWay(x)
      PROVE  Watched'
  BY <1>w, <1>p DEF Watched
<1>n. registry.loader = None => phase \notin {"serving", "draining"}
  BY <1>p DEF Process, RegistryTyped
<1>e. ASSUME NEW l \in Loader, load[l].at # "done", NEW how \in LoadPlaces \ {"reading"},
             Finished(l, how), UNCHANGED <<config, disk, edits, registry, during, place>>,
             phase' = phase \/ (l = Startup /\ phase = "starting" /\ phase' = "failed")
      PROVE  Process' /\ Watched'
  <2>1. Process'
    BY <1>e, <1>p, EndLoadProcess
  <2>2. \A x \in Call \cup Reload : OnItsWay(x)' => OnItsWay(x)
    <3>1. \A k \in Reload : load'[k].at = "reading" => load[k].at = "reading"
      BY <1>e, <1>p, FinishedEffect DEF Loader
    <3> QED BY <1>e, <3>1 DEF OnItsWay
  <2> QED BY <1>e, <1>w, <2>1, <2>2
<1>1. ASSUME phase # "failed", NEW r \in Named(config.regions), NEW f \in Files, Edit(r, f)
      PROVE  Process' /\ Watched'
  <2>1. UNCHANGED <<registry, during, place, load>>
    BY <1>1 DEF Edit
  <2>2. \A x \in Call \cup Reload : OnItsWay(x)' => OnItsWay(x)
    BY <2>1 DEF OnItsWay
  <2> QED BY <1>1, <1>p, <1>w, <2>1, <2>2, EditProcess
<1>2. ASSUME NEW l \in Loader, ReadFile(l) PROVE Process' /\ Watched'
  <2>1. UNCHANGED <<registry, during, place>> /\ load' = [load EXCEPT ![l].read = Append(@, NextFile(l))]
    BY <1>2 DEF ReadFile
  <2>2. \A k \in Loader : load'[k].at = load[k].at
    BY <2>1, <1>p DEF Process, LoadsInOrder
  <2>3. \A x \in Call \cup Reload : OnItsWay(x)' => OnItsWay(x)
    BY <2>1, <2>2 DEF OnItsWay, Loader
  <2> QED BY <1>2, <1>p, <1>w, <2>1, <2>3, ReadProcess
<1>3. CASE Listen
  BY <1>3, InstallProcess DEF Listen, Loader
<1>4. CASE FailToStart
  BY <1>4, <1>e DEF FailToStart, Fail, Reading, Loader, LoadPlaces
<1>5. CASE Signal \/ Stop
  <2>1. /\ UNCHANGED <<config, disk, edits, registry, load, during, place>>
        /\ phase \in {"serving", "draining"} /\ phase' \in {"draining", "stopped"}
        /\ phase' = "stopped" => \A a \in Reload : load[a].at # "reading"
    BY <1>5 DEF Signal, Stop
  <2>2. Process'
    BY <2>1, <1>p DEF Process, FilesTyped, RegistryTyped, RegistryShape, Configured, LoadsInOrder,
                      FilesMoveForward, RegionAt, FileAt, Loader
  <2>3. \A x \in Call \cup Reload : OnItsWay(x)' => OnItsWay(x)
    BY <2>1 DEF OnItsWay
  <2> QED BY <1>w, <2>1, <2>2, <2>3
<1>6. ASSUME NEW a \in Reload, HandleReload(a) PROVE Process' /\ Watched'
  <2>1. ASSUME NEW token, RefuseReload(a, token) PROVE Process' /\ Watched'
    BY <2>1, <1>e DEF RefuseReload, Loader, LoadPlaces
  <2>2. ASSUME NEW token, StartReload(a, token) PROVE Process' /\ Watched'
    BY <2>2, StartReloadProcess
  <2>3. CASE Replace(a)
    <3>1. a # Startup /\ a \in Loader
      BY ServiceAssumption DEF Loader
    <3> QED BY <2>3, <3>1, InstallProcess DEF Replace
  <2>4. CASE FailReload(a)
    BY <2>4, <1>e DEF FailReload, Fail, Reading, Loader, LoadPlaces
  <2>5. CASE AbandonReload(a)
    BY <2>5, <1>e DEF AbandonReload, Loader, LoadPlaces
  <2> QED BY <1>6, <2>1, <2>2, <2>3, <2>4, <2>5 DEF HandleReload
<1>7. ASSUME NEW c \in Call, Handle(c) PROVE Process' /\ Watched'
  <2>1. UNCHANGED <<config, phase, disk, edits, registry, load>>
        /\ \A a \in Reload : during'[a] = during[a]
    BY <1>7, HandleLeaves, ServiceAssumption
  <2>2. Process'
    BY <2>1, <1>p DEF Process, FilesTyped, RegistryTyped, RegistryShape, Configured, LoadsInOrder,
                      FilesMoveForward, RegionAt, FileAt
  <2> QED BY <1>7, <2>2, HandleWatched
<1>8. CASE UNCHANGED vars
  <2>1. UNCHANGED <<config, phase, disk, edits, registry, load, during, place>>
    BY <1>8 DEF vars
  <2> QED BY <2>1, <1>p DEF Process, FilesTyped, RegistryTyped, RegistryShape, Configured, LoadsInOrder,
                           FilesMoveForward, RegionAt, FileAt, Watched, OnItsWay
<1> QED BY <1>1, <1>2, <1>3, <1>4, <1>5, <1>6, <1>7, <1>8 DEF Next

-----------------------------------------------------------------------------
(* The calls.                                                               *)

Unknown(q) == q.region \notin Named(config.regions) \cup {None}

CallsTyped ==
  /\ place \in [Call -> {"new", "arrived", "resolved", "submitted", "ended"}]
  /\ ask \in [Call -> AskType] /\ held \in [Call -> Loader \cup {None}]
  /\ used \in [Call -> SUBSET (Loader \cup {None})]
  /\ fate \in [Call -> Fates] /\ told \in [Call -> Tolds]
  /\ answer \in [Call \cup Reload -> Answers]

\* Everything the invariant says of one call.
InOrder(c) ==
  /\ place[c] \in {"arrived", "resolved", "submitted"} => phase \in {"serving", "draining"}
  /\ place[c] = "ended" => registry.loader # None
  /\ place[c] \in {"new", "arrived", "resolved"} => fate[c] = "new"
  /\ place[c] = "submitted" => fate[c] # "new"
  /\ fate[c] = "new" => told[c] = "none"
  /\ told[c] = "Ok" => fate[c] = "finished"
  /\ told[c] = "Failed" => fate[c] = "panicked"
  /\ place[c] # "ended" => answer[c] = "none"
  /\ answer[c] = "Ok" => fate[c] = "finished"
  /\ answer[c] = "Internal" => fate[c] = "panicked"
  /\ answer[c] = "UnknownRegion" => Unknown(ask[c])
  /\ fate[c] # "new" => Bounded(ask[c])
  /\ place[c] = "resolved" \/ fate[c] # "new" => held[c] \in during[c]
  /\ used[c] = IF fate[c] \in {"running", "finished", "panicked"} THEN {held[c]} ELSE {}

ByCall ==
  /\ Process /\ Watched /\ CallsTyped /\ CountedOnce
  /\ open <=> phase # "stopped"
  /\ requests \in [Endpoints -> [Outcomes -> Nat]] /\ searchTimeouts \in Nat /\ reloads \in Nat
  /\ \A c \in Call : InOrder(c)

(* The calls and the reloads that have ended are finite sets.              *)
LEMMA FiniteSets ==
  /\ IsFiniteSet(Ended) /\ Cardinality(Ended) \in Nat /\ Cardinality(Ended) <= Cardinality(Call)
  /\ IsFiniteSet(Done) /\ Cardinality(Done) \in Nat /\ Cardinality(Done) <= Cardinality(Reload)
  /\ Cardinality(Call) \in Nat /\ Cardinality(Reload) \in Nat
<1>1. Ended \in SUBSET Call /\ Done \in SUBSET Reload
  BY DEF Ended, Done
<1>2. IsFiniteSet(Call) /\ IsFiniteSet(Reload)
  BY ServiceAssumption
<1> QED BY <1>1, <1>2, FS_Subset, FS_CardinalityType

(* The invariant is what the steps below establish, call by call.          *)
LEMMA CallByCall == IInv <=> ByCall
<1>1. ASSUME IInv PROVE ByCall
  <2>1. Process /\ Watched
    BY <1>1, ProcessHolds DEF IInv, HeldAndUsed, Watched
  <2>2. CallsTyped /\ CountedOnce /\ (open <=> phase # "stopped")
    BY <1>1 DEF IInv, TypeOK, HeldAndUsed, PlacesAndFates, CallsTyped
  <2>3. ASSUME NEW c \in Call PROVE InOrder(c)
    BY <1>1 DEF IInv, PlacesAndFates, HeldAndUsed, Clamped, ErrorsAreDeserved, InOrder, Unknown
  <2>4. requests \in [Endpoints -> [Outcomes -> Nat]] /\ searchTimeouts \in Nat /\ reloads \in Nat
    <3>1. 0..Cardinality(Call) \subseteq Nat /\ 0..Cardinality(Reload) \subseteq Nat
      OBVIOUS
    <3> QED BY <1>1, <3>1 DEF IInv, TypeOK
  <2> QED BY <2>1, <2>2, <2>3, <2>4 DEF ByCall
<1>2. ASSUME ByCall PROVE IInv
  <2>1. ASSUME NEW e \in Endpoints, NEW o \in Outcomes
        PROVE  requests[e][o] \in 0..Cardinality(Call)
    <3>1. requests[e][o] \in Nat /\ requests[e][o] <= Cardinality(Ended)
      BY <1>2 DEF ByCall, CountedOnce
    <3> QED BY <3>1, FiniteSets
  <2>2. requests \in [Endpoints -> [Outcomes -> 0..Cardinality(Call)]]
    BY <1>2, <2>1 DEF ByCall
  <2>3. searchTimeouts \in 0..Cardinality(Call) /\ reloads \in 0..Cardinality(Reload)
    BY <1>2, FiniteSets DEF ByCall, CountedOnce
  <2>4. \A l \in Loader : load[l].read \in Seq(0..edits)
    BY <1>2 DEF ByCall, Process, LoadsInOrder
  <2>5. TypeOK
    BY <1>2, <2>2, <2>3, <2>4
       DEF TypeOK, ByCall, Process, FilesTyped, RegistryTyped, RegistryShape, CallsTyped
  <2>6. PlacesAndFates /\ Clamped /\ ErrorsAreDeserved
    BY <1>2 DEF ByCall, InOrder, PlacesAndFates, Clamped, ErrorsAreDeserved, CallsTyped, Unknown
  <2>7. HeldAndUsed
    BY <1>2 DEF ByCall, InOrder, HeldAndUsed, CallsTyped, Watched
  <2> QED BY <1>2, <2>5, <2>6, <2>7 DEF IInv, ByCall, Process
<1> QED BY <1>1, <1>2

(* AppState::clamp keeps what is asked and bounds it.                      *)
LEMMA ClampProperties ==
  ASSUME config.max_search_timeout \in Nat, config.max_limit \in Nat \ {0}, NEW q \in AskType
  PROVE  /\ Clamp(q) \in AskType /\ Bounded(Clamp(q))
         /\ Clamp(q).region = q.region
<1> DEFINE t == IF q.timeout = 0 THEN config.max_search_timeout
                ELSE Min(q.timeout, config.max_search_timeout)
           n == Min(q.limit, config.max_limit)
<1>1. q.timeout \in Nat /\ q.limit \in Nat \ {0}
  BY DEF AskType
<1>2. /\ t \in Nat /\ n \in Nat \ {0} /\ n <= config.max_limit
      /\ config.max_search_timeout > 0 => t \in 1..config.max_search_timeout
  BY <1>1 DEF Min
<1>3. Clamp(q) = [q EXCEPT !.limit = n, !.timeout = t]
  BY DEF Clamp
<1> HIDE DEF t, n
<1>4. Clamp(q) \in AskType /\ Clamp(q).timeout = t /\ Clamp(q).limit = n /\ Clamp(q).region = q.region
  BY <1>2, <1>3 DEF AskType
<1> QED BY <1>2, <1>4 DEF Bounded

(* The response a handler gives is never that of a call that found no      *)
(* region, and an internal error or a success comes from what the pool     *)
(* told the handler.                                                       *)
LEMMA ResponseProperties ==
  ASSUME NEW c \in Call, NEW heard \in Tolds
  PROVE  /\ Response(c, heard) \in Answers \ {"none", "UnknownRegion"}
         /\ Response(c, heard) = "Internal" => heard = "Failed"
         /\ Response(c, heard) = "Ok" => heard \in {"none", "Ok"}
<1> DEFINE failed == result[c].value = "error"
<1>1. Response(c, heard) =
        CASE heard = "QueueFull" -> "Overloaded"
          [] heard = "QueueTimeout" -> "Timeout"
          [] heard = "Failed" -> "Internal"
          [] heard = "Ok" /\ failed -> "BadRequest"
          [] OTHER -> "Ok"
  BY DEF Response
<1> HIDE DEF failed
<1>2. /\ heard = "QueueFull" => Response(c, heard) = "Overloaded"
      /\ heard = "QueueTimeout" => Response(c, heard) = "Timeout"
      /\ heard = "Failed" => Response(c, heard) = "Internal"
      /\ heard \in {"none", "Ok"} => Response(c, heard) \in {"BadRequest", "Ok"}
  BY <1>1
<1> QED BY <1>2 DEF Tolds, Answers

(* A call's step keeps what the invariant says of it.                      *)
LEMMA HandleInOrder ==
  ASSUME IInv, NEW c \in Call, Handle(c)
  PROVE  CallsTyped' /\ InOrder(c)'
<1>i. InOrder(c) /\ CallsTyped /\ Process /\ Watched /\ (open <=> phase # "stopped")
  BY CallByCall DEF ByCall
<1>t. /\ place \in [Call -> {"new", "arrived", "resolved", "submitted", "ended"}]
      /\ ask \in [Call -> AskType] /\ held \in [Call -> Loader \cup {None}]
      /\ used \in [Call -> SUBSET (Loader \cup {None})]
      /\ fate \in [Call -> Fates] /\ told \in [Call -> Tolds]
      /\ answer \in [Call \cup Reload -> Answers]
      /\ during \in [Call \cup Reload -> SUBSET (Loader \cup {None})]
      /\ registry.loader \in Loader \cup {None}
  BY <1>i DEF CallsTyped, Process, RegistryTyped, Watched
<1>p. /\ phase \in {"serving", "draining"} => registry.loader # None /\ phase # "failed"
      /\ registry.loader # None => DOMAIN registry.snapshots = Named(config.regions)
      /\ phase # "failed" => /\ config.default_region \in Named(config.regions)
                             /\ config.max_search_timeout \in Nat /\ config.max_limit \in Nat \ {0}
  BY <1>i DEF Process, RegistryTyped, RegistryShape, Configured
<1>u. UNCHANGED <<config, phase, registry>>
  BY HandleLeaves
<1> USE DEF Step, Answer, Finish
<1>1. CASE Arrive(c)
  <2>1. PICK q \in Asks :
          /\ ask' = [ask EXCEPT ![c] = q]
          /\ \/ /\ place' = [place EXCEPT ![c] = "ended"]
                /\ answer' = [answer EXCEPT ![c] = "BadRequest"] /\ UNCHANGED during
             \/ /\ place' = [place EXCEPT ![c] = "arrived"] /\ UNCHANGED answer
                /\ during' = [during EXCEPT ![c] = {registry.loader}]
    BY <1>1 DEF Arrive
  <2>2. phase = "serving" /\ place[c] = "new" /\ UNCHANGED <<held, used, fate, told>>
    BY <1>1 DEF Arrive, poolState
  <2>3. q \in AskType
    BY ServiceAssumption
  <2>4. ask' \in [Call -> AskType] /\ answer' \in [Call \cup Reload -> Answers]
        /\ place' \in [Call -> {"new", "arrived", "resolved", "submitted", "ended"}]
    BY <1>t, <2>1, <2>3 DEF Answers
  <2>5. \/ place'[c] = "ended" /\ answer'[c] = "BadRequest"
        \/ place'[c] = "arrived" /\ answer'[c] = answer[c]
    BY <1>t, <2>1
  <2>6. InOrder(c)'
    BY <1>i, <1>p, <1>u, <2>2, <2>5 DEF InOrder
  <2> QED BY <1>t, <2>2, <2>4, <2>6 DEF CallsTyped
<1>2. CASE TakeSnapshot(c)
  <2>1. place[c] = "arrived" /\ UNCHANGED <<ask, used, fate, told, during>>
    BY <1>2 DEF TakeSnapshot, poolState
  <2>2. \/ /\ place' = [place EXCEPT ![c] = "ended"] /\ UNCHANGED held
           /\ \/ /\ answer' = [answer EXCEPT ![c] = "UnknownRegion"]
                 /\ Asked(c) \notin DOMAIN registry.snapshots
              \/ answer' = [answer EXCEPT ![c] = "BadRequest"]
        \/ /\ place' = [place EXCEPT ![c] = "resolved"] /\ UNCHANGED answer
           /\ held' = [held EXCEPT ![c] = registry.loader]
    BY <1>2 DEF TakeSnapshot
  <2>3. \/ /\ place'[c] = "ended" /\ held'[c] = held[c]
           /\ \/ answer'[c] = "UnknownRegion" /\ Asked(c) \notin DOMAIN registry.snapshots
              \/ answer'[c] = "BadRequest"
        \/ place'[c] = "resolved" /\ answer'[c] = answer[c] /\ held'[c] = registry.loader
    BY <1>t, <2>2
  <2>4. /\ place' \in [Call -> {"new", "arrived", "resolved", "submitted", "ended"}]
        /\ answer' \in [Call \cup Reload -> Answers] /\ held' \in [Call -> Loader \cup {None}]
    BY <1>t, <2>2 DEF Answers
  <2>5. answer'[c] = "UnknownRegion" => Unknown(ask[c])
    BY <1>i, <1>p, <2>1, <2>3 DEF InOrder, Asked, Unknown
  <2>6. registry.loader \in during[c]
    BY <1>i, <2>1 DEF Watched, OnItsWay
  <2>7. Unknown(ask[c])' = Unknown(ask[c]) /\ ask'[c] = ask[c]
    BY <1>u, <2>1 DEF Unknown
  <2>8. InOrder(c)'
    BY <1>i, <1>p, <1>u, <2>1, <2>3, <2>5, <2>6, <2>7 DEF InOrder
  <2> QED BY <1>t, <2>1, <2>4, <2>8 DEF CallsTyped
<1>3. CASE Submit(c)
  <2>1. /\ place[c] = "resolved" /\ place' = [place EXCEPT ![c] = "submitted"]
        /\ UNCHANGED <<held, used, answer, during>>
        /\ IF open THEN Pool!Admit(c) \/ Pool!Refuse(c) ELSE Pool!Answer(c)
    BY <1>3 DEF Submit
  <2>2. ask' = IF ask[c].endpoint \in Searches THEN [ask EXCEPT ![c] = Clamp(ask[c])] ELSE ask
    BY <1>3 DEF Submit
  <2>3. open /\ fate[c] = "new" /\ phase # "failed"
    BY <1>i, <1>p, <2>1 DEF InOrder
  <2>4. \/ fate' = [fate EXCEPT ![c] = "waiting"] /\ UNCHANGED told
        \/ fate' = [fate EXCEPT ![c] = "refused"] /\ told' = [told EXCEPT ![c] = "QueueFull"]
    BY <2>1, <2>3 DEF Pool!Admit, Pool!Refuse
  <2>5. /\ fate'[c] \in {"waiting", "refused"} /\ told'[c] \in {told[c], "QueueFull"}
        /\ place'[c] = "submitted"
    BY <1>t, <2>1, <2>4
  <2>6. ask[c] \in AskType
    BY <1>t
  <2>7. Clamp(ask[c]) \in AskType /\ Bounded(Clamp(ask[c]))
    BY <1>p, <2>3, <2>6, ClampProperties
  <2>8. ask' \in [Call -> AskType] /\ Bounded(ask'[c])
    <3> DEFINE q == Clamp(ask[c])
    <3>1. q \in AskType /\ Bounded(q)
      BY <2>7
    <3>2. ask' = IF ask[c].endpoint \in Searches THEN [ask EXCEPT ![c] = q] ELSE ask
      BY <2>2
    <3> HIDE DEF q
    <3>3. ask' \in [Call -> AskType]
          /\ ask'[c] = IF ask[c].endpoint \in Searches THEN q ELSE ask[c]
      BY <1>t, <3>1, <3>2
    <3>4. ask[c].endpoint \notin Searches => Bounded(ask[c])
      BY DEF Bounded
    <3> QED BY <3>1, <3>3, <3>4
  <2>9. place' \in [Call -> {"new", "arrived", "resolved", "submitted", "ended"}]
        /\ fate' \in [Call -> Fates] /\ told' \in [Call -> Tolds]
    BY <1>t, <2>1, <2>4 DEF Fates, Tolds
  <2>10. Bounded(ask[c])'
    BY <1>u, <2>8 DEF Bounded
  <2>11. InOrder(c)'
    BY <1>i, <1>u, <2>1, <2>3, <2>5, <2>10 DEF InOrder
  <2> QED BY <1>t, <2>1, <2>8, <2>9, <2>11 DEF CallsTyped
<1>4. CASE RunJob(c)
  <2>1. /\ fate[c] = "waiting" /\ fate' = [fate EXCEPT ![c] = "running"]
        /\ used' = [used EXCEPT ![c] = {held[c]}]
        /\ UNCHANGED <<place, ask, held, told, answer, during>>
    BY <1>4 DEF RunJob, Pool!Begin
  <2>2. fate'[c] = "running" /\ used'[c] = {held[c]}
        /\ fate' \in [Call -> Fates] /\ used' \in [Call -> SUBSET (Loader \cup {None})]
    BY <1>t, <2>1 DEF Fates
  <2>3. (Unknown(ask[c])' <=> Unknown(ask[c])) /\ (Bounded(ask[c])' <=> Bounded(ask[c]))
    BY <1>u, <2>1 DEF Unknown, Bounded
  <2>4. InOrder(c)'
    BY <1>i, <1>u, <2>1, <2>2, <2>3 DEF InOrder
  <2> QED BY <1>t, <2>1, <2>2, <2>4 DEF CallsTyped
<1>5. CASE EndJob(c)
  <2>1. /\ fate[c] = "running"
        /\ \E f \in {"finished", "panicked"} : fate' = [fate EXCEPT ![c] = f]
        /\ UNCHANGED <<place, ask, held, used, told, answer, during>>
    BY <1>5 DEF EndJob, Pool!End
  <2>2. fate'[c] \in {"finished", "panicked"} /\ fate' \in [Call -> Fates]
    BY <1>t, <2>1 DEF Fates
  <2>3. (Unknown(ask[c])' <=> Unknown(ask[c])) /\ (Bounded(ask[c])' <=> Bounded(ask[c]))
    BY <1>u, <2>1 DEF Unknown, Bounded
  <2>4. InOrder(c)'
    BY <1>i, <1>u, <2>1, <2>2, <2>3 DEF InOrder
  <2> QED BY <1>t, <2>1, <2>2, <2>4 DEF CallsTyped
<1>6. CASE Respond(c)
  <2>1. /\ place[c] = "submitted" /\ place' = [place EXCEPT ![c] = "ended"]
        /\ answer' = [answer EXCEPT ![c] = Response(c, told'[c])]
        /\ UNCHANGED <<ask, held, used, during>>
        /\ (told[c] # "none" /\ UNCHANGED poolState) \/ Pool!Answer(c)
    BY <1>6 DEF Respond
  <2>2. UNCHANGED fate /\ told' \in [Call -> Tolds] /\ told'[c] # "none"
        /\ (told'[c] = "Ok" => fate[c] = "finished") /\ (told'[c] = "Failed" => fate[c] = "panicked")
    <3>1. CASE told[c] # "none" /\ UNCHANGED poolState
      BY <1>t, <1>i, <3>1 DEF poolState, InOrder
    <3>2. CASE Pool!Answer(c)
      <4>1. PICK a \in Pool!Truthful(c) : told' = [told EXCEPT ![c] = a]
        BY <3>2 DEF Pool!Answer
      <4>2. fate[c] # "new" /\ fate[c] \in Fates
        BY <1>t, <1>i, <2>1 DEF InOrder
      <4>3. a \in {"Ok", "Failed", "QueueTimeout"}
            /\ (a = "Ok" => fate[c] = "finished") /\ (a = "Failed" => fate[c] = "panicked")
        BY <4>2 DEF Pool!Truthful
      <4>4. told'[c] = a /\ told' \in [Call -> Tolds] /\ UNCHANGED fate
        BY <1>t, <3>2, <4>1, <4>3 DEF Pool!Answer, Tolds
      <4> QED BY <4>3, <4>4
    <3> QED BY <2>1, <3>1, <3>2
  <2>3. told'[c] \in Tolds
    BY <2>2
  <2>4. /\ Response(c, told'[c]) \in Answers \ {"none", "UnknownRegion"}
        /\ Response(c, told'[c]) = "Internal" => told'[c] = "Failed"
        /\ Response(c, told'[c]) = "Ok" => told'[c] \in {"none", "Ok"}
    BY <2>3, ResponseProperties
  <2>5. answer'[c] = Response(c, told'[c]) /\ place'[c] = "ended"
        /\ answer' \in [Call \cup Reload -> Answers]
        /\ place' \in [Call -> {"new", "arrived", "resolved", "submitted", "ended"}]
    <3> DEFINE a == Response(c, told'[c])
    <3>1. a \in Answers /\ answer' = [answer EXCEPT ![c] = a]
      BY <2>1, <2>4
    <3> HIDE DEF a
    <3>2. answer'[c] = a /\ answer' \in [Call \cup Reload -> Answers]
      BY <1>t, <3>1
    <3> QED BY <1>t, <2>1, <3>2 DEF a
  <2>6. /\ place'[c] = "ended" /\ answer'[c] \notin {"none", "UnknownRegion"}
        /\ answer'[c] = "Internal" => fate[c] = "panicked"
        /\ answer'[c] = "Ok" => fate[c] = "finished"
    BY <2>2, <2>4, <2>5
  <2>7. (Unknown(ask[c])' <=> Unknown(ask[c])) /\ (Bounded(ask[c])' <=> Bounded(ask[c]))
    BY <1>u, <2>1 DEF Unknown, Bounded
  <2>8. fate[c] # "new" /\ phase \in {"serving", "draining"}
    BY <1>i, <2>1 DEF InOrder
  <2>9. UNCHANGED <<ask, held, used, during, fate>>
    BY <2>1, <2>2
  <2>10. InOrder(c)'
    BY <1>i, <1>p, <1>u, <2>2, <2>6, <2>7, <2>8, <2>9 DEF InOrder
  <2> QED BY <1>t, <2>1, <2>2, <2>5, <2>10 DEF CallsTyped
<1>7. CASE Abandon(c)
  <2>1. /\ place[c] = "submitted" /\ place' = [place EXCEPT ![c] = "ended"]
        /\ answer' = [answer EXCEPT ![c] = "gone"]
        /\ UNCHANGED <<ask, held, used, fate, told, during>>
    BY <1>7 DEF Abandon, poolState
  <2>2. /\ place'[c] = "ended" /\ answer'[c] = "gone" /\ answer' \in [Call \cup Reload -> Answers]
        /\ place' \in [Call -> {"new", "arrived", "resolved", "submitted", "ended"}]
    BY <1>t, <2>1 DEF Answers
  <2>3. (Unknown(ask[c])' <=> Unknown(ask[c])) /\ (Bounded(ask[c])' <=> Bounded(ask[c]))
    BY <1>u, <2>1 DEF Unknown, Bounded
  <2>4. InOrder(c)'
    BY <1>i, <1>p, <1>u, <2>1, <2>2, <2>3 DEF InOrder
  <2> QED BY <1>t, <2>1, <2>2, <2>4 DEF CallsTyped
<1> QED BY <1>1, <1>2, <1>3, <1>4, <1>5, <1>6, <1>7 DEF Handle

(* A call that ends adds one to the calls that have ended.                 *)
LEMMA EndedGrows ==
  ASSUME NEW c \in Call, place[c] # "ended", Ended' = Ended \cup {c}
  PROVE  Cardinality(Ended)' = Cardinality(Ended) + 1
<1>1. IsFiniteSet(Ended) /\ c \notin Ended
  BY FiniteSets DEF Ended
<1>2. Cardinality(Ended \cup {c}) = Cardinality(Ended) + 1
  BY <1>1, FS_AddElement
<1> QED BY <1>2

(* A call is counted when it ends, and only then.                          *)
LEMMA HandleCounts ==
  ASSUME IInv, NEW c \in Call, Handle(c)
  PROVE  /\ CountedOnce'
         /\ requests' \in [Endpoints -> [Outcomes -> Nat]] /\ searchTimeouts' \in Nat
         /\ reloads' \in Nat
<1>i. /\ CallsTyped /\ CountedOnce
      /\ requests \in [Endpoints -> [Outcomes -> Nat]] /\ searchTimeouts \in Nat /\ reloads \in Nat
  BY CallByCall DEF ByCall
<1>p. place \in [Call -> {"new", "arrived", "resolved", "submitted", "ended"}]
  BY <1>i DEF CallsTyped
<1>u. UNCHANGED <<load, reloads>> /\ \A x \in Call : x # c => place'[x] = place[x]
  BY HandleLeaves
<1>d. reloads' <= Cardinality(Done)'
  BY <1>i, <1>u DEF CountedOnce, Done
<1>n. Cardinality(Ended) \in Nat
  BY FiniteSets
<1>1. ASSUME UNCHANGED <<requests, searchTimeouts>>, place[c] # "ended"
      PROVE  CountedOnce'
  <2>1. Ended' = Ended \/ Ended' = Ended \cup {c}
    <3>1. CASE place'[c] = "ended"
      BY <1>u, <3>1 DEF Ended
    <3>2. CASE place'[c] # "ended"
      BY <1>1, <1>u, <3>2 DEF Ended
    <3> QED BY <3>1, <3>2
  <2>2. Cardinality(Ended)' \in Nat /\ Cardinality(Ended) <= Cardinality(Ended)'
    <3>1. CASE Ended' = Ended
      BY <1>n, <3>1
    <3>2. CASE Ended' = Ended \cup {c}
      <4>1. Cardinality(Ended)' = Cardinality(Ended) + 1
        BY <1>1, <3>2, EndedGrows
      <4>2. \A n \in Nat : n + 1 \in Nat /\ n <= n + 1
        OBVIOUS
      <4> QED BY <1>n, <4>1, <4>2
    <3> QED BY <2>1, <3>1, <3>2
  <2> DEFINE n == Cardinality(Ended)
             m == Cardinality(Ended)'
  <2>3. n \in Nat /\ m \in Nat /\ n <= m
    BY <1>n, <2>2
  <2>4. /\ \A e \in Endpoints, o \in Outcomes : requests[e][o] \in Nat /\ requests[e][o] <= n
        /\ searchTimeouts <= n
    BY <1>i DEF CountedOnce
  <2> HIDE DEF n, m
  <2>5. /\ \A e \in Endpoints, o \in Outcomes : requests[e][o] <= m
        /\ searchTimeouts <= m
    BY <1>i, <2>3, <2>4
  <2> QED BY <1>1, <1>d, <2>5 DEF CountedOnce, m
<1>2. ASSUME NEW a, Finish(c, a), place[c] # "ended"
      PROVE  /\ CountedOnce' /\ searchTimeouts' \in Nat
             /\ requests' \in [Endpoints -> [Outcomes -> Nat]]
  <2> DEFINE n == Cardinality(Ended)
             e == ask[c].endpoint
             o == Outcome(a)
  <2>1. Ended' = Ended \cup {c}
    BY <1>p, <1>2 DEF Ended, Finish
  <2>2. Cardinality(Ended)' = n + 1
    BY <1>2, <2>1, EndedGrows
  <2>3. /\ requests' = [requests EXCEPT ![e][o] = @ + 1]
        /\ searchTimeouts' \in {searchTimeouts, searchTimeouts + 1}
    BY <1>i, <1>2 DEF Finish, Record
  <2>4. /\ \A x \in Endpoints, y \in Outcomes : requests[x][y] \in Nat /\ requests[x][y] <= n
        /\ searchTimeouts <= n /\ n \in Nat
    BY <1>i, <1>n DEF CountedOnce
  <2> HIDE DEF n, e, o
  <2>5. requests' \in [Endpoints -> [Outcomes -> Nat]]
        /\ \A x \in Endpoints, y \in Outcomes : requests'[x][y] \in {requests[x][y], requests[x][y] + 1}
    <3>1. ASSUME NEW f \in [Outcomes -> Nat]
          PROVE  /\ [f EXCEPT ![o] = @ + 1] \in [Outcomes -> Nat]
                 /\ \A y \in Outcomes : [f EXCEPT ![o] = @ + 1][y] \in {f[y], f[y] + 1}
      <4> DEFINE h == [f EXCEPT ![o] = @ + 1]
      <4>1. \A y \in Outcomes : f[y] \in Nat /\ f[y] + 1 \in Nat
        OBVIOUS
      <4>2. DOMAIN h = Outcomes /\ h = [y \in Outcomes |-> h[y]]
        OBVIOUS
      <4>3. \A y \in Outcomes : h[y] = IF y = o THEN f[y] + 1 ELSE f[y]
        OBVIOUS
      <4> HIDE DEF h
      <4>4. \A y \in Outcomes : h[y] \in {f[y], f[y] + 1} /\ h[y] \in Nat
        BY <4>1, <4>3
      <4>5. h \in [Outcomes -> Nat]
        BY <4>2, <4>4
      <4> QED BY <4>4, <4>5 DEF h
    <3>2. requests' = [requests EXCEPT ![e] = [requests[e] EXCEPT ![o] = @ + 1]]
      BY <2>3
    <3>3. e \in Endpoints
      BY <1>i DEF CallsTyped, AskType, e
    <3> DEFINE g == [requests[e] EXCEPT ![o] = @ + 1]
    <3>4. /\ g \in [Outcomes -> Nat]
          /\ \A y \in Outcomes : g[y] \in {requests[e][y], requests[e][y] + 1}
      BY <1>i, <3>1, <3>3
    <3>5. requests' = [requests EXCEPT ![e] = g]
      BY <3>2
    <3> HIDE DEF g
    <3>6. requests' \in [Endpoints -> [Outcomes -> Nat]] /\ requests'[e] = g
          /\ \A x \in Endpoints : x # e => requests'[x] = requests[x]
      BY <1>i, <3>3, <3>4, <3>5
    <3> QED BY <3>4, <3>6
  <2>6. /\ \A x \in Endpoints, y \in Outcomes : requests'[x][y] <= n + 1
        /\ searchTimeouts' <= n + 1 /\ searchTimeouts' \in Nat
    BY <1>i, <2>3, <2>4, <2>5
  <2> QED BY <1>d, <2>2, <2>5, <2>6 DEF CountedOnce
<1>3. CASE Arrive(c)
  BY <1>i, <1>1, <1>u, <1>3 DEF Arrive, Step, metrics
<1>4. CASE TakeSnapshot(c)
  BY <1>i, <1>1, <1>2, <1>u, <1>4 DEF TakeSnapshot, metrics
<1>5. CASE Submit(c) \/ Abandon(c)
  BY <1>i, <1>1, <1>u, <1>5 DEF Submit, Abandon, Step, metrics
<1>6. CASE RunJob(c) \/ EndJob(c)
  <2>1. UNCHANGED <<place, load, requests, searchTimeouts, reloads>>
    BY <1>6 DEF RunJob, EndJob, metrics
  <2>2. Ended' = Ended /\ Done' = Done
    BY <2>1 DEF Ended, Done
  <2> QED BY <1>i, <2>1, <2>2 DEF CountedOnce
<1>7. CASE Respond(c)
  BY <1>i, <1>2, <1>u, <1>7 DEF Respond
<1> QED BY <1>3, <1>4, <1>5, <1>6, <1>7 DEF Handle

(* Each call's step keeps the invariant.                                   *)
LEMMA HandleStep ==
  ASSUME IInv, NEW c \in Call, Handle(c)
  PROVE  IInv'
<1>1. ByCall
  BY CallByCall
<1>2. [Next]_vars
  BY DEF Next
<1>3. Process' /\ Watched'
  BY <1>2, ProcessStep
<1>4. CallsTyped' /\ InOrder(c)'
  BY HandleInOrder
<1>5. /\ UNCHANGED <<config, phase, registry, open, reloads>>
      /\ \A x \in Call : x # c =>
           /\ place'[x] = place[x] /\ ask'[x] = ask[x] /\ held'[x] = held[x]
           /\ used'[x] = used[x] /\ fate'[x] = fate[x] /\ told'[x] = told[x]
           /\ answer'[x] = answer[x] /\ during'[x] = during[x]
  BY HandleLeaves
<1>6. ASSUME NEW x \in Call, x # c PROVE InOrder(x)'
  <2>1. InOrder(x)
    BY <1>1 DEF ByCall
  <2>2. (Unknown(ask[x])' <=> Unknown(ask[x])) /\ (Bounded(ask[x])' <=> Bounded(ask[x]))
    BY <1>5, <1>6 DEF Unknown, Bounded
  <2> QED BY <1>5, <1>6, <2>1, <2>2 DEF InOrder
<1>7. ByCall'
  BY <1>1, <1>3, <1>4, <1>5, <1>6, HandleCounts DEF ByCall
<1>8. ByCall' => IInv'
  <2>1. ByCall <=> IInv
    BY CallByCall
  <2> QED BY <2>1, CallByCall, PTL
<1> QED BY <1>7, <1>8

-----------------------------------------------------------------------------
(* The operator, the process and the reloads.                               *)

(* A step of nobody's call keeps what the invariant says of the calls.     *)
LEMMA OtherStep ==
  ASSUME IInv, Process', Watched',
         UNCHANGED <<config, place, ask, held, used, fate, told, requests, searchTimeouts>>,
         answer' \in [Call \cup Reload -> Answers],
         \A c \in Call : answer'[c] = answer[c] /\ during[c] \subseteq during'[c],
         registry.loader # None => registry'.loader # None,
         \/ phase' = phase \/ phase' \in {"serving", "draining"}
         \/ \A c \in Call : place[c] \in {"new", "ended"},
         open' <=> phase' # "stopped",
         reloads' \in Nat, reloads' <= Cardinality(Done)'
  PROVE  IInv'
<1>1. ByCall
  BY CallByCall
<1>2. CallsTyped' /\ CountedOnce'
  <2>1. Ended' = Ended
    BY DEF Ended
  <2> QED BY <1>1, <2>1 DEF ByCall, CallsTyped, CountedOnce
<1>3. ASSUME NEW c \in Call PROVE InOrder(c)'
  <2>1. InOrder(c)
    BY <1>1 DEF ByCall
  <2>2. (Unknown(ask[c])' <=> Unknown(ask[c])) /\ (Bounded(ask[c])' <=> Bounded(ask[c]))
    BY DEF Unknown, Bounded
  <2>3. place[c] \in {"arrived", "resolved", "submitted"} => phase' \in {"serving", "draining"}
    BY <2>1 DEF InOrder
  <2> QED BY <2>1, <2>2, <2>3 DEF InOrder
<1>4. ByCall'
  BY <1>1, <1>2, <1>3 DEF ByCall
<1>5. ByCall' => IInv'
  <2>1. ByCall <=> IInv
    BY CallByCall
  <2> QED BY <2>1, CallByCall, PTL
<1> QED BY <1>4, <1>5

(* A reload that is done stays done.                                       *)
LEMMA DoneStays ==
  ASSUME \A a \in Reload : load[a].at = "done" => load'[a].at = "done"
  PROVE  Cardinality(Done)' \in Nat /\ Cardinality(Done) <= Cardinality(Done)'
<1>1. Done' \in SUBSET Reload /\ Done \in SUBSET Done'
  BY DEF Done
<1>2. IsFiniteSet(Reload)
  BY ServiceAssumption
<1>3. IsFiniteSet(Done')
  BY <1>1, <1>2, FS_Subset
<1> QED BY <1>1, <1>3, FS_Subset, FS_CardinalityType

(* A reload that ends adds one to the reloads that have ended.             *)
LEMMA DoneGrows ==
  ASSUME NEW a \in Reload, load[a].at # "done", Done' = Done \cup {a}
  PROVE  Cardinality(Done)' = Cardinality(Done) + 1
<1>1. IsFiniteSet(Done) /\ a \notin Done
  BY FiniteSets DEF Done
<1>2. Cardinality(Done \cup {a}) = Cardinality(Done) + 1
  BY <1>1, FS_AddElement
<1> QED BY <1>2

(* Every step keeps the invariant.                                         *)
LEMMA StepInvariant == IInv /\ [Next]_vars => IInv'
<1> SUFFICES ASSUME IInv, [Next]_vars PROVE IInv'
  OBVIOUS
<1> USE DEF files, calls, poolState, metrics
<1>p. Process' /\ Watched'
  BY ProcessStep
<1>i. /\ Process /\ Watched /\ CallsTyped /\ CountedOnce
      /\ open <=> phase # "stopped"
      /\ reloads \in Nat /\ \A c \in Call : InOrder(c)
  BY CallByCall DEF ByCall
<1>t. /\ answer \in [Call \cup Reload -> Answers]
      /\ during \in [Call \cup Reload -> SUBSET (Loader \cup {None})]
      /\ load \in [Loader -> [at : LoadPlaces, read : Seq(0..edits)]]
      /\ \A a \in Reload : a \in Loader /\ a \notin Call /\ a # Startup
      /\ None \notin Loader
  BY <1>i, ServiceAssumption DEF CallsTyped, Watched, Process, LoadsInOrder, Loader
<1>n. reloads <= Cardinality(Done) /\ Cardinality(Done) \in Nat
  BY <1>i, FiniteSets DEF CountedOnce
<1>k. ASSUME UNCHANGED reloads, \A a \in Reload : load[a].at = "done" => load'[a].at = "done"
      PROVE  reloads' \in Nat /\ reloads' <= Cardinality(Done)'
  <2>1. Cardinality(Done)' \in Nat /\ Cardinality(Done) <= Cardinality(Done)'
    BY <1>k, DoneStays
  <2>2. \A x, y, z \in Nat : x <= y /\ y <= z => x <= z
    OBVIOUS
  <2> QED BY <1>i, <1>n, <1>k, <2>1, <2>2, Zenon
<1>f. ASSUME NEW l \in Loader, load[l].at # "done", NEW how \in LoadPlaces, Finished(l, how)
      PROVE  \A a \in Reload : load[a].at = "done" => load'[a].at = "done"
  BY <1>f, <1>t, <1>i, FinishedEffect
<1>s. ASSUME UNCHANGED <<config, registry, phase, place, ask, held, used, fate, told, open, during,
                         requests, searchTimeouts, reloads>>,
             answer' = answer \/ \E a \in Reload, v \in Answers : answer' = [answer EXCEPT ![a] = v],
             \A a \in Reload : load[a].at = "done" => load'[a].at = "done"
      PROVE  IInv'
  <2>1. answer' \in [Call \cup Reload -> Answers] /\ \A c \in Call : answer'[c] = answer[c]
    BY <1>s, <1>t
  <2> QED BY <1>s, <1>p, <1>i, <1>k, <2>1, OtherStep
<1>1. ASSUME NEW r \in Named(config.regions), NEW f \in Files, Edit(r, f) PROVE IInv'
  BY <1>1, <1>s DEF Edit
<1>2. ASSUME NEW l \in Loader, ReadFile(l) PROVE IInv'
  <2>1. load' = [load EXCEPT ![l].read = Append(@, NextFile(l))]
    BY <1>2 DEF ReadFile
  <2>2. \A k \in Loader : load'[k].at = load[k].at
    BY <1>t, <2>1
  <2> QED BY <1>2, <1>s, <1>t, <2>2 DEF ReadFile
<1>3. CASE Listen
  <2>1. /\ load[Startup].at = "reading" /\ Finished(Startup, "done")
        /\ registry'.loader = Startup /\ phase' = "serving" /\ phase = "starting"
        /\ during' = [x \in DOMAIN during |-> IF OnItsWay(x) THEN during[x] \cup {Startup} ELSE during[x]]
        /\ UNCHANGED <<config, place, ask, held, used, fate, told, open, answer, requests,
                       searchTimeouts, reloads>>
    BY <1>3 DEF Listen, Install, Loaded, RegistryOf
  <2>2. \A c \in Call : during[c] \subseteq during'[c]
    BY <1>t, <2>1
  <2>3. reloads' \in Nat /\ reloads' <= Cardinality(Done)'
    BY <1>k, <1>f, <2>1 DEF Loader, LoadPlaces
  <2> QED BY <1>p, <1>i, <1>t, <2>1, <2>2, <2>3, OtherStep DEF Loader
<1>4. CASE FailToStart
  <2>1. /\ load[Startup].at = "reading" /\ Finished(Startup, "failed")
        /\ phase' = "failed" /\ phase = "starting"
        /\ UNCHANGED <<config, registry, place, ask, held, used, fate, told, open, answer, during,
                       requests, searchTimeouts, reloads>>
    BY <1>4 DEF FailToStart, Fail, Reading
  <2>2. reloads' \in Nat /\ reloads' <= Cardinality(Done)'
    BY <1>k, <1>f, <2>1 DEF Loader, LoadPlaces
  <2>3. \A c \in Call : place[c] \in {"new", "ended"}
    BY <1>i, <1>t, <2>1 DEF CallsTyped, InOrder
  <2> QED BY <1>p, <1>i, <1>t, <2>1, <2>2, <2>3, OtherStep
<1>5. CASE Signal
  <2>1. /\ phase' = "draining" /\ phase = "serving"
        /\ UNCHANGED <<config, registry, load, place, ask, held, used, fate, told, open, answer, during,
                       requests, searchTimeouts, reloads>>
    BY <1>5 DEF Signal
  <2>2. reloads' \in Nat /\ reloads' <= Cardinality(Done)'
    BY <1>k, <2>1
  <2> QED BY <1>p, <1>i, <1>t, <2>1, <2>2, OtherStep
<1>6. CASE Stop
  <2>1. /\ phase' = "stopped" /\ \A c \in Call : place[c] \in {"new", "ended"}
        /\ open' = FALSE
        /\ UNCHANGED <<config, registry, load, place, ask, held, used, fate, told, answer, during,
                       requests, searchTimeouts, reloads>>
    BY <1>6 DEF Stop, Pool!Close
  <2>2. reloads' \in Nat /\ reloads' <= Cardinality(Done)'
    BY <1>k, <2>1
  <2> QED BY <1>p, <1>i, <1>t, <2>1, <2>2, OtherStep
<1>7. ASSUME NEW a \in Reload, HandleReload(a) PROVE IInv'
  <2>a. a \in Loader
    BY <1>t
  <2>1. ASSUME NEW token, RefuseReload(a, token) PROVE IInv'
    <3>1. load[a].at = "idle" /\ Finished(a, "refused")
      BY <2>1 DEF RefuseReload
    <3>2. \A b \in Reload : load[b].at = "done" => load'[b].at = "done"
      BY <2>a, <3>1, <1>f DEF LoadPlaces
    <3> QED BY <2>1, <1>s, <3>2 DEF RefuseReload, Answer, Answers
  <2>2. ASSUME NEW token, StartReload(a, token) PROVE IInv'
    <3>1. /\ load[a].at = "idle" /\ load' = [load EXCEPT ![a].at = "reading"]
          /\ during' = [during EXCEPT ![a] = {registry.loader}]
          /\ UNCHANGED <<config, registry, phase, place, ask, held, used, fate, told, open, answer,
                         requests, searchTimeouts, reloads>>
      BY <2>2 DEF StartReload
    <3>2. \A b \in Reload : load[b].at = "done" => load'[b].at = "done"
      BY <1>t, <3>1
    <3>3. \A c \in Call : during'[c] = during[c]
      BY <1>t, <3>1
    <3>4. reloads' \in Nat /\ reloads' <= Cardinality(Done)'
      BY <1>k, <3>1, <3>2
    <3> QED BY <1>p, <1>i, <1>t, <3>1, <3>3, <3>4, OtherStep
  <2>3. CASE Replace(a)
    <3>1. /\ load[a].at = "reading" /\ Finished(a, "done")
          /\ registry'.loader = a /\ reloads' = reloads + 1 /\ answer' = [answer EXCEPT ![a] = "Ok"]
          /\ during' = [x \in DOMAIN during |-> IF OnItsWay(x) THEN during[x] \cup {a} ELSE during[x]]
          /\ UNCHANGED <<config, phase, place, ask, held, used, fate, told, open, requests,
                         searchTimeouts>>
      BY <2>3 DEF Replace, Install, Loaded, RegistryOf, Answer
    <3>2. \A c \in Call : during[c] \subseteq during'[c]
      BY <1>t, <3>1
    <3>3. answer' \in [Call \cup Reload -> Answers] /\ \A c \in Call : answer'[c] = answer[c]
      BY <1>t, <3>1 DEF Answers
    <3>4. load'[a].at = "done" /\ \A b \in Reload : b # a => load'[b] = load[b]
      BY <1>i, <1>t, <3>1, FinishedEffect DEF LoadPlaces
    <3>5. Done' = Done \cup {a}
      BY <3>4 DEF Done
    <3>6. Cardinality(Done)' = Cardinality(Done) + 1
      BY <3>1, <3>5, DoneGrows
    <3>7. reloads' \in Nat /\ reloads' <= Cardinality(Done)'
      <4>1. \A x, y \in Nat : x <= y => x + 1 \in Nat /\ x + 1 <= y + 1
        OBVIOUS
      <4> QED BY <1>i, <1>n, <3>1, <3>6, <4>1
    <3> QED BY <1>p, <1>i, <1>t, <3>1, <3>2, <3>3, <3>7, OtherStep
  <2>4. CASE FailReload(a) \/ AbandonReload(a)
    <3>1. PICK how \in {"failed", "abandoned"} : load[a].at = "reading" /\ Finished(a, how)
      BY <2>4 DEF FailReload, AbandonReload, Fail, Reading
    <3>2. \A b \in Reload : load[b].at = "done" => load'[b].at = "done"
      BY <2>a, <3>1, <1>f DEF LoadPlaces
    <3> QED BY <2>4, <1>s, <3>2 DEF FailReload, AbandonReload, Answer, Answers
  <2> QED BY <1>7, <2>1, <2>2, <2>3, <2>4 DEF HandleReload
<1>8. ASSUME NEW c \in Call, Handle(c) PROVE IInv'
  BY <1>8, HandleStep
<1>9. CASE UNCHANGED vars
  BY <1>9, <1>s DEF vars
<1> QED BY <1>1, <1>2, <1>3, <1>4, <1>5, <1>6, <1>7, <1>8, <1>9 DEF Next

-----------------------------------------------------------------------------
(* The service starts in order.                                             *)

(* An accepted command line gives regions, a default region among them,    *)
(* and bounds within which requests are clamped.                           *)
LEMMA SettingsProperties ==
  ASSUME NEW args \in CommandLines, Accepted(args)
  PROVE  /\ Settings(args).regions \in Seq(Region)
         /\ Settings(args).default_region \in Named(Settings(args).regions)
         /\ Settings(args).max_search_timeout \in Nat
         /\ Settings(args).max_limit \in Nat \ {0}
<1>1. \A given \in {args.flag, args.env} :
        /\ given.masterdata \in Seq(Region)
        /\ given.max_search_timeout \in Nat \cup {None} /\ given.max_limit \in Nat \cup {None}
  <2>1. \A given \in {args.flag, args.env} :
          /\ given.masterdata \in Seq(Region)
          /\ {given.max_search_timeout, given.max_limit} \subseteq Nat \cup {None}
    BY ServiceAssumption
  <2> QED BY <2>1
<1>2. Pairs(args, "masterdata") \in Seq(Region)
  <2>1. Pairs(args, "masterdata") \in {args.flag.masterdata, args.env.masterdata}
    BY DEF Pairs
  <2> QED BY <1>1, <2>1
<1>3. /\ Value(args, "max_search_timeout") \in Nat \cup {None}
      /\ Value(args, "max_limit") \in Nat \cup {None}
  <2>1. /\ Value(args, "max_search_timeout") \in {args.flag.max_search_timeout, args.env.max_search_timeout}
        /\ Value(args, "max_limit") \in {args.flag.max_limit, args.env.max_limit}
    BY DEF Value
  <2> QED BY <1>1, <2>1
<1>4. ValueOr(args, "max_search_timeout", 2) \in Nat /\ ValueOr(args, "max_limit", 2) \in Nat
  BY <1>3 DEF ValueOr
<1>5. AtLeastOne(ValueOr(args, "max_limit", 2)) \in Nat \ {0}
  BY <1>4 DEF AtLeastOne
<1>6. DefaultRegion(args) \in Named(Pairs(args, "masterdata"))
  BY DEF Accepted
<1> QED BY <1>2, <1>4, <1>5, <1>6 DEF Settings

(* A process that starts satisfies the invariant.                          *)
LEMMA InitInvariant == Init => IInv
<1> SUFFICES ASSUME Init PROVE IInv
  OBVIOUS
<1>0. /\ 0 \in 0..0 /\ <<>> \in Seq(0..0) /\ edits = 0 /\ None \notin Loader
      /\ \A a \in Reload : a \notin Call /\ a # Startup
  BY EmptySeq, ServiceAssumption DEF Init
<1>1. /\ phase \in {"starting", "failed"} /\ registry = [loader |-> None, snapshots |-> <<>>]
      /\ phase = "starting" => \E args \in CommandLines : Accepted(args) /\ config = Settings(args)
  BY DEF Init
<1>2. Configured
  BY <1>1, SettingsProperties DEF Configured
<1>3. FilesTyped /\ RegistryTyped
  BY <1>0, <1>1 DEF Init, FilesTyped, RegistryTyped
<1>4. \A l \in Loader : load[l].read = <<>>
                        /\ load[l].at = IF l = Startup /\ phase = "starting" THEN "reading" ELSE "idle"
  BY DEF Init
<1>5. LoadsInOrder
  <2>1. load \in [Loader -> [at : LoadPlaces, read : Seq(0..edits)]]
    BY <1>0 DEF Init, LoadPlaces
  <2>2. \A l \in Loader : load[l].at = "reading" => l = Startup /\ phase = "starting"
    BY <1>4
  <2>3. phase = "starting" => Len(<<>>) <= 2 * Len(config.regions)
    <3>1. phase = "starting" => Len(config.regions) \in Nat
      BY <1>2 DEF Configured
    <3>2. Len(<<>>) = 0 /\ \A n \in Nat : 0 <= 2 * n
      OBVIOUS
    <3> QED BY <3>1, <3>2
  <2> QED BY <1>1, <1>4, <2>1, <2>2, <2>3 DEF LoadsInOrder
<1>6. FilesMoveForward
  <2>1. \A k \in 1..Len(<<>>) : FALSE
    OBVIOUS
  <2> QED BY <1>1, <1>4, <2>1 DEF FilesMoveForward, Loader
<1>7. Watched
  <2>1. during = [x \in Call \cup Reload |-> {}]
    BY DEF Init
  <2>2. \A x \in Call \cup Reload : ~OnItsWay(x)
    BY <1>0, <1>4 DEF OnItsWay, Init, Loader
  <2> QED BY <2>1, <2>2 DEF Watched
<1>8. CallsTyped
  <2>1. Unasked \in AskType
    BY DEF Unasked, AskType, Endpoints, Searches
  <2> QED BY <2>1 DEF Init, Pool!Init, CallsTyped, Fates, Tolds, Answers
<1>9. \A c \in Call : InOrder(c)
  BY DEF Init, Pool!Init, InOrder
<1>10. /\ requests \in [Endpoints -> [Outcomes -> Nat]] /\ searchTimeouts \in Nat /\ reloads \in Nat
       /\ CountedOnce
  BY FiniteSets DEF Init, CountedOnce
<1>11. open <=> phase # "stopped"
  BY <1>1 DEF Init, Pool!Init
<1> QED BY <1>2, <1>3, <1>5, <1>6, <1>7, <1>8, <1>9, <1>10, <1>11, CallByCall DEF ByCall, Process

-----------------------------------------------------------------------------
(* What every execution keeps.                                              *)

(* The service, its loads and its calls stay in order, for every set of    *)
(* calls, reloads, regions and command lines.                              *)
THEOREM Invariant == Spec => []IInv
BY InitInvariant, StepInvariant, PTL DEF Spec

(* Every variable keeps its type, and the metrics count a call or a reload *)
(* at most once.                                                           *)
THEOREM TypeCorrect == Spec => []TypeOK
<1>1. IInv => TypeOK
  BY DEF IInv
<1> QED BY <1>1, Invariant, PTL

(* A call is answered from one load only, and from one that was in service *)
(* while the call was on its way, whatever reloads finish meanwhile.       *)
THEOREM EachCallFromOneLoad == Spec => []AnsweredFromOneLoad
<1>1. IInv => AnsweredFromOneLoad
  <2> SUFFICES ASSUME IInv, NEW c \in Call
               PROVE  /\ Cardinality(used[c]) <= 1
                      /\ used[c] \subseteq during[c]
                      /\ answer[c] = "Ok" => used[c] # {}
    BY DEF AnsweredFromOneLoad
  <2>1. InOrder(c)
    BY CallByCall DEF ByCall
  <2>2. used[c] = {} \/ used[c] = {held[c]}
    BY <2>1 DEF InOrder
  <2>3. Cardinality(used[c]) \in {0, 1}
    BY <2>2, FS_EmptySet, FS_Singleton
  <2>4. used[c] \subseteq during[c] /\ (answer[c] = "Ok" => used[c] # {})
    BY <2>1 DEF InOrder
  <2> QED BY <2>3, <2>4
<1> QED BY <1>1, Invariant, PTL

(* No search runs past the configured ceilings, whatever a request asks.   *)
THEOREM EverySearchBounded == Spec => []SearchesAreBounded
<1>1. IInv => SearchesAreBounded
  BY DEF IInv, Clamped, Bounded, SearchesAreBounded
<1> QED BY <1>1, Invariant, PTL

(* An unknown region is not configured, and an internal error is a panic:  *)
(* neither reloads nor the shutdown fail a request that was let in.        *)
THEOREM EveryErrorDeserved == Spec => []ErrorsAreDeserved
<1>1. IInv => ErrorsAreDeserved
  BY DEF IInv
<1> QED BY <1>1, Invariant, PTL

\* A step that puts files into service.
MovesForward ==
  registry.loader # None /\ registry' # registry /\ during[registry'.loader] = {registry.loader}
    => \A r \in Named(config.regions), f \in Files :
         registry'.snapshots[r][f] >= registry.snapshots[r][f]

(* Only a reload that another one overtook puts older files into service.  *)
LEMMA StepMovesForward == IInv /\ [Next]_vars => MovesForward
<1> SUFFICES ASSUME IInv, [Next]_vars, registry.loader # None, registry' # registry,
                    during[registry'.loader] = {registry.loader},
                    NEW r \in Named(config.regions), NEW f \in Files
             PROVE  registry'.snapshots[r][f] >= registry.snapshots[r][f]
  BY DEF MovesForward
<1>1. PICK a \in Reload : Replace(a)
  <2>1. ~Listen
    BY DEF Listen, IInv, TypeOK
  <2>2. \A c \in Call : ~Handle(c)
    BY HandleLeaves
  <2>3. ASSUME NEW b \in Reload, HandleReload(b) PROVE Replace(b)
    BY <2>3 DEF HandleReload, RefuseReload, StartReload, FailReload, AbandonReload
  <2> QED BY <2>1, <2>2, <2>3 DEF Next, vars, Edit, ReadFile, FailToStart, Signal, Stop
<1>2. /\ a \in Loader /\ load[a].at = "reading" /\ Loaded(a)
      /\ registry' = RegistryOf(a) /\ phase # "failed"
  BY <1>1 DEF Replace, Install, Loaded, Loader, IInv, TypeOK
<1>3. registry'.loader = a
  BY <1>2 DEF RegistryOf
<1>4. PICK k \in 1..Len(load[a].read) :
        /\ RegionAt(k) = r /\ FileAt(k) = f
        /\ RegistryOf(a).snapshots[r][f] = load[a].read[k]
  BY <1>2, RegistryOfProperties
<1>5. load[a].read[k] >= registry.snapshots[RegionAt(k)][FileAt(k)]
  BY <1>1, <1>2, <1>3 DEF IInv, FilesMoveForward
<1> QED BY <1>2, <1>4, <1>5

(* A reload that nobody overtook never goes back to older files.           *)
THEOREM NoReloadGoesBack == Spec => ReloadsMoveForward
<1>1. IInv /\ [Next]_vars => MovesForward
  BY StepMovesForward
<1>2. Spec => [][MovesForward]_vars
  BY <1>1, Invariant, PTL DEF Spec
<1>3. (MovesForward \/ UNCHANGED vars) =>
        (registry.loader # None /\ registry' # registry
         /\ during[registry'.loader] = {registry.loader}
         => \A r \in Named(config.regions), f \in Files :
              registry'.snapshots[r][f] >= registry.snapshots[r][f]) \/ UNCHANGED vars
  BY DEF MovesForward
<1> QED BY <1>2, <1>3, PTL DEF ReloadsMoveForward
=============================================================================
