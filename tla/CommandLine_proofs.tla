-------------------------- MODULE CommandLine_proofs --------------------------
(***************************************************************************)
(* Whatever is typed at the terminals, for any files, orders of writing    *)
(* and reading that put the metadata last and first, any number of         *)
(* processes and trainings: an artifact is put together from a training    *)
(* and what an earlier one left only if the saves of two overlapped; no    *)
(* command uses a record the domain types refuse, and every refused file   *)
(* is refused with all its faults; every block answered reaches the        *)
(* quantile of its target, and costs least of all that do; no ride         *)
(* reported as held out is one the model was fitted to; and no ride is     *)
(* trained or evaluated with a history that was not known when it started. *)
(***************************************************************************)
EXTENDS AnswerFacts

-----------------------------------------------------------------------------
(* Artifacts: older files only from saves that overlap *)

Held == Nat \cup {Torn, Mixed}

SaveJobs ==
    [doing : {"save"}, kind : Kinds, generation : Nat, at : Nat \ {0}, file : {"closed", "open"}]
LoadJobs == [doing : {"load", "loaded"}, kind : Kinds, seen : Seq(Int)]
FailedJobs == [doing : {"load failed"}, kind : Kinds]
OtherJobs == {NoJob} \cup FailedJobs

Jobs == SaveJobs \cup LoadJobs \cup OtherJobs

Typed ==
    /\ trained \in [Kinds -> Nat]
    /\ disk \in [Kinds -> [Files -> Held]]
    /\ alongside \in [Kinds -> Seq(SUBSET Nat)]
    /\ \A k \in Kinds : Len(alongside[k]) = trained[k]
    /\ jobs \in [Processes -> Jobs]

\* No file comes from a training still to come.
NoneFromTheFuture == \A k \in Kinds : \A f \in Files : disk[k][f] <= trained[k]

\* What a file holds may be read next to what training g left.
Fits(k, f, g) == disk[k][f] = Torn \/ NoOlder(k, disk[k][f], g)

\* Every file on the disk fits the metadata that are there.
DiskInOrder ==
    \A k \in Kinds : disk[k][Metadata] >= 1 =>
        \A i \in 1 .. Len(WriteOrder[k]) : Fits(k, WriteOrder[k][i], disk[k][Metadata])

\* Training g is still being saved, as was noted with every later one.
StillSaved(k, g) ==
    /\ g \in 1 .. trained[k]
    /\ \A n \in 1 .. trained[k] : n > g => g \in alongside[k][n]

\* The files training g has written before the one at hand fit it.
Through(k, g, at) ==
    \A i \in 1 .. Len(WriteOrder[k]) : i < at => Fits(k, WriteOrder[k][i], g)

\* The file training g has open is as it was emptied, unless saves overlap.
AtHand(k, g, at) ==
    /\ at <= Len(WriteOrder[k])
    /\ disk[k][WriteOrder[k][at]] = Torn \/ Overlapped(k, g)

SaverInOrder ==
    \A p \in Processes : jobs[p].doing = "save" =>
        /\ StillSaved(jobs[p].kind, jobs[p].generation)
        /\ Through(jobs[p].kind, jobs[p].generation, jobs[p].at)
        /\ jobs[p].file = "open" => AtHand(jobs[p].kind, jobs[p].generation, jobs[p].at)

\* No training is saved by two processes.
SaversDiffer ==
    \A p, q \in Processes :
        /\ p # q /\ jobs[p].doing = "save" /\ jobs[q].doing = "save"
        /\ jobs[p].kind = jobs[q].kind
        => jobs[p].generation # jobs[q].generation

\* Whoever has read the metadata of a training has read what fits it since, and
\* would find what fits it.
ReadSoFar(k, seen) ==
    /\ seen[1] \in 1 .. trained[k]
    /\ \A i \in 1 .. Len(seen) : NoOlder(k, seen[i], seen[1])
    /\ \A i \in 1 .. Len(WriteOrder[k]) :
        WriteOrder[k][i] # Metadata => Fits(k, WriteOrder[k][i], seen[1])

HasMetadata(p) == jobs[p].doing \in {"load", "loaded"} /\ jobs[p].seen # <<>>

LoaderInOrder ==
    \A p \in Processes : HasMetadata(p) => ReadSoFar(jobs[p].kind, jobs[p].seen)

ArtifactsInOrder ==
    Typed /\ NoneFromTheFuture /\ DiskInOrder /\ SaverInOrder /\ SaversDiffer /\ LoaderInOrder

-----------------------------------------------------------------------------
\* Every file written or read is one of the artifact's files.
LEMMA OrdersAreFiles ==
    /\ \A k \in Kinds : \A i \in 1 .. Len(WriteOrder[k]) : WriteOrder[k][i] \in Files
    /\ \A k \in Kinds : \A i \in 1 .. Len(ReadOrder[k]) : ReadOrder[k][i] \in Files
    /\ Kinds = DOMAIN WriteOrder /\ \A k \in Kinds : Len(WriteOrder[k]) \in Nat
BY ArtifactAssumption

\* The metadata are written after everything else and read before it.
LEMMA MetadataLastAndFirst ==
    ASSUME NEW k \in Kinds
    PROVE  /\ \A i \in 1 .. Len(WriteOrder[k]) : WriteOrder[k][i] = Metadata <=> i = Len(WriteOrder[k])
           /\ \A i \in 1 .. Len(ReadOrder[k]) : ReadOrder[k][i] = Metadata <=> i = 1
           /\ \A i \in 1 .. Len(ReadOrder[k]) :
                \E j \in 1 .. Len(WriteOrder[k]) : WriteOrder[k][j] = ReadOrder[k][i]
           /\ ReadOrder[k] \in Seq(Files) /\ Len(ReadOrder[k]) >= 1
BY ArtifactAssumption

\* Before anything is saved or read, all files of an artifact are of one training.
LEMMA InitInOrder == ArtifactInit => ArtifactsInOrder
<1> SUFFICES ASSUME ArtifactInit PROVE ArtifactsInOrder
  OBVIOUS
<1>1. Typed
  <2>1. trained \in [Kinds -> Nat] /\ \A k \in Kinds : trained[k] \in Held
    BY DEF ArtifactInit, Held
  <2>2. Absent \in Held
    BY DEF Absent, Held
  <2>3. disk \in [Kinds -> [Files -> Held]]
    BY <2>1, <2>2 DEF ArtifactInit
  <2>4. jobs \in [Processes -> Jobs]
    BY DEF ArtifactInit, Jobs, OtherJobs
  <2>5. \A k \in Kinds : [n \in 1 .. trained[k] |-> {}] \in Seq(SUBSET Nat)
                         /\ Len([n \in 1 .. trained[k] |-> {}]) = trained[k]
    BY <2>1
  <2>6. /\ alongside \in [Kinds -> Seq(SUBSET Nat)]
        /\ \A k \in Kinds : alongside[k] = [n \in 1 .. trained[k] |-> {}]
    BY <2>5 DEF ArtifactInit
  <2> QED
    BY <2>1, <2>3, <2>4, <2>5, <2>6 DEF Typed
<1>2. NoneFromTheFuture
  <2> SUFFICES ASSUME NEW k \in Kinds, NEW f \in Files PROVE disk[k][f] <= trained[k]
    BY DEF NoneFromTheFuture
  <2>1. disk[k][f] = trained[k] \/ disk[k][f] = 0
    BY DEF ArtifactInit, Absent
  <2>2. trained[k] \in 0 .. 1
    BY DEF ArtifactInit
  <2>3. QED
    BY <2>1, <2>2
<1>3. DiskInOrder
  <2> SUFFICES ASSUME NEW k \in Kinds, NEW i \in 1 .. Len(WriteOrder[k]),
                      disk[k][Metadata] >= 1
               PROVE  Fits(k, WriteOrder[k][i], disk[k][Metadata])
    BY DEF DiskInOrder
  <2>1. WriteOrder[k] \in Seq(Files) /\ DOMAIN WriteOrder[k] = 1 .. Len(WriteOrder[k])
    BY ArtifactAssumption
  <2>2. disk[k][WriteOrder[k][i]] = trained[k]
    BY <2>1, OrdersAreFiles DEF ArtifactInit
  <2>3. disk[k][Metadata] <= trained[k]
    BY <1>2, ArtifactAssumption DEF NoneFromTheFuture
  <2>4. trained[k] \in Int /\ disk[k][Metadata] \in Int
    BY <1>1, ArtifactAssumption DEF Typed, Held, Torn, Mixed
  <2> QED
    BY <2>2, <2>3, <2>4 DEF Fits, NoOlder
<1>4. SaverInOrder /\ SaversDiffer /\ LoaderInOrder
  BY DEF ArtifactInit, SaverInOrder, SaversDiffer, LoaderInOrder, HasMetadata, NoJob
<1> QED
  BY <1>1, <1>2, <1>3, <1>4 DEF ArtifactsInOrder

-----------------------------------------------------------------------------
(* What a file holds, and what a process is doing, by the kind of its job.  *)

LEMMA FilesHold ==
    ASSUME Typed, NEW k \in Kinds, NEW f \in Files
    PROVE  disk[k][f] \in Held /\ disk[k][f] \in Int
<1>1. disk[k] \in [Files -> Held]
  BY DEF Typed
<1>2. disk[k][f] \in Held
  BY <1>1
<1> QED
  BY <1>2 DEF Held, Torn, Mixed

LEMMA JobFields ==
    ASSUME Typed, NEW p \in Processes
    PROVE  /\ jobs[p].doing = "save" => jobs[p] \in SaveJobs
           /\ jobs[p].doing \in {"load", "loaded"} => jobs[p] \in LoadJobs
<1>1. jobs[p] \in Jobs
  BY DEF Typed
<1>2. CASE jobs[p] \in SaveJobs
  BY <1>2 DEF SaveJobs
<1>3. CASE jobs[p] \in LoadJobs
  BY <1>3 DEF LoadJobs
<1>4. CASE jobs[p] \in OtherJobs
  <2>1. CASE jobs[p] = NoJob
    BY <2>1 DEF NoJob
  <2>2. CASE jobs[p] \in FailedJobs
    BY <2>2 DEF FailedJobs
  <2> QED
    BY <1>4, <2>1, <2>2 DEF OtherJobs
<1> QED
  BY <1>1, <1>2, <1>3, <1>4 DEF Jobs

\* A process that has a file at hand.
LEMMA SaverFields ==
    ASSUME ArtifactsInOrder, NEW p \in Processes, jobs[p].doing = "save",
           jobs[p].at <= Len(WriteOrder[jobs[p].kind])
    PROVE  /\ jobs[p] \in SaveJobs
           /\ jobs[p].kind \in Kinds /\ jobs[p].at \in 1 .. Len(WriteOrder[jobs[p].kind])
           /\ FileAtHand(p) = WriteOrder[jobs[p].kind][jobs[p].at] /\ FileAtHand(p) \in Files
           /\ jobs[p].generation \in Nat
           /\ StillSaved(jobs[p].kind, jobs[p].generation)
           /\ Through(jobs[p].kind, jobs[p].generation, jobs[p].at)
<1>1. jobs[p] \in SaveJobs
  BY JobFields DEF ArtifactsInOrder
<1>2. jobs[p].kind \in Kinds /\ jobs[p].at \in Nat \ {0} /\ jobs[p].generation \in Nat
  BY <1>1 DEF SaveJobs
<1> QED
  BY <1>1, <1>2, OrdersAreFiles DEF ArtifactsInOrder, SaverInOrder, FileAtHand

-----------------------------------------------------------------------------
(* Saves that overlap                                                       *)

\* Two trainings that are being saved overlap as late as any training.
LEMMA TwoSavers ==
    ASSUME Typed, NEW k \in Kinds, NEW a \in Nat, NEW b \in Nat, a # b, StillSaved(k, a), StillSaved(k, b),
           NEW g \in 1 .. trained[k]
    PROVE  Overlapped(k, g)
<1>0. trained[k] \in Nat
  BY DEF Typed
<1>1. ASSUME NEW x \in Nat, NEW y \in Nat, x < y, StillSaved(k, x), StillSaved(k, y) PROVE Overlapped(k, g)
  <2>1. CASE g > x
    <3>1. x \in alongside[k][g] /\ g \in g .. trained[k]
      BY <1>0, <1>1, <2>1 DEF StillSaved
    <3> QED
      BY <3>1 DEF Overlapped
  <2>2. CASE g <= x
    <3>1. x \in alongside[k][y] /\ y \in g .. trained[k]
      BY <1>0, <1>1, <2>2 DEF StillSaved
    <3> QED
      BY <3>1 DEF Overlapped
  <2> QED
    BY <1>1, <2>1, <2>2
<1> QED
  BY <1>1

\* A training that is still being saved and overlaps another does so as late as
\* any training.
LEMMA OverlapsLater ==
    ASSUME Typed, NEW k \in Kinds, NEW a \in Nat, StillSaved(k, a), Overlapped(k, a), NEW g \in 1 .. trained[k]
    PROVE  Overlapped(k, g)
<1>1. trained[k] \in Nat
  BY DEF Typed
<1>2. CASE g > a
  <2>1. a \in alongside[k][g] /\ g \in g .. trained[k]
    BY <1>1, <1>2 DEF StillSaved
  <2> QED
    BY <2>1 DEF Overlapped
<1>3. CASE g <= a
  BY <1>1, <1>3 DEF Overlapped
<1> QED
  BY <1>2, <1>3

-----------------------------------------------------------------------------
(* What every step keeps                                                    *)

\* Trainings are added, and what was noted of the earlier ones stays.
HistoryGoesOn ==
    \A k \in Kinds :
        /\ trained'[k] \in Nat /\ trained[k] <= trained'[k]
        /\ \A n \in 1 .. trained[k] : alongside'[k][n] = alongside[k][n]

LEMMA NoOlderStays ==
    ASSUME Typed, HistoryGoesOn, NEW k \in Kinds, NEW g \in 1 .. trained[k]
    PROVE  /\ Overlapped(k, g) => Overlapped(k, g)'
           /\ \A found : NoOlder(k, found, g) => NoOlder(k, found, g)'
           /\ g \in 1 .. trained'[k]
<1>1. /\ trained[k] \in Nat /\ trained'[k] \in Nat /\ trained[k] <= trained'[k]
      /\ \A n \in 1 .. trained[k] : alongside'[k][n] = alongside[k][n]
  BY DEF HistoryGoesOn, Typed
<1>2. Overlapped(k, g) => Overlapped(k, g)'
  BY <1>1 DEF Overlapped
<1>3. \A found : NoOlder(k, found, g) => NoOlder(k, found, g)'
  BY <1>1, <1>2 DEF NoOlder
<1> QED
  BY <1>1, <1>2, <1>3

\* A step after which every file that fitted a training still does.
FilesStay ==
    \A k \in Kinds : \A f \in Files : \A g \in 1 .. trained[k] : Fits(k, f, g) => Fits(k, f, g)'

LEMMA UntouchedFilesStay ==
    ASSUME Typed, HistoryGoesOn, UNCHANGED disk
    PROVE  FilesStay
BY NoOlderStays DEF FilesStay, Fits

\* What was in order about a saver, a loader and the disk is so still.
LEMMA OrderStays ==
    ASSUME Typed, HistoryGoesOn, FilesStay, NEW k \in Kinds
    PROVE  /\ \A g, at : g \in 1 .. trained[k] /\ Through(k, g, at) => Through(k, g, at)'
           /\ \A seen : ReadSoFar(k, seen) => ReadSoFar(k, seen)'
           /\ \A m \in 1 .. trained[k] :
                (\A i \in 1 .. Len(WriteOrder[k]) : Fits(k, WriteOrder[k][i], m))
                    => \A i \in 1 .. Len(WriteOrder[k]) : Fits(k, WriteOrder[k][i], m)'
<1>1. \A i \in 1 .. Len(WriteOrder[k]) : \A g \in 1 .. trained[k] :
        Fits(k, WriteOrder[k][i], g) => Fits(k, WriteOrder[k][i], g)'
  BY OrdersAreFiles DEF FilesStay
<1>2. \A g, at : g \in 1 .. trained[k] /\ Through(k, g, at) => Through(k, g, at)'
  BY <1>1 DEF Through
<1>3. ASSUME NEW seen, ReadSoFar(k, seen) PROVE ReadSoFar(k, seen)'
  <2>1. seen[1] \in 1 .. trained[k]
    BY <1>3 DEF ReadSoFar
  <2>2. PICK g \in 1 .. trained[k] : g = seen[1]
    BY <2>1
  <2>3. \A i \in 1 .. Len(seen) : NoOlder(k, seen[i], g)'
    BY <1>3, <2>2, NoOlderStays DEF ReadSoFar
  <2>4. \A i \in 1 .. Len(WriteOrder[k]) :
            WriteOrder[k][i] # Metadata => Fits(k, WriteOrder[k][i], g)'
    BY <1>1, <1>3, <2>2 DEF ReadSoFar
  <2>5. g \in 1 .. trained'[k]
    BY NoOlderStays
  <2> QED
    BY <2>2, <2>3, <2>4, <2>5 DEF ReadSoFar
<1> QED
  BY <1>1, <1>2, <1>3

\* Loaders that have read nothing more since.
LEMMA LoadersStay ==
    ASSUME ArtifactsInOrder, HistoryGoesOn, FilesStay,
           \A p \in Processes : HasMetadata(p)' =>
                /\ HasMetadata(p)
                /\ jobs'[p].kind = jobs[p].kind /\ jobs'[p].seen = jobs[p].seen
    PROVE  LoaderInOrder'
<1> SUFFICES ASSUME NEW p \in Processes, HasMetadata(p)'
             PROVE  ReadSoFar(jobs[p].kind, jobs[p].seen)'
  BY DEF LoaderInOrder
<1>1. /\ HasMetadata(p)
      /\ jobs'[p].kind = jobs[p].kind /\ jobs'[p].seen = jobs[p].seen
  OBVIOUS
<1>2. jobs[p].kind \in Kinds
  BY <1>1, JobFields DEF ArtifactsInOrder, HasMetadata, LoadJobs
<1>3. PICK k \in Kinds : k = jobs[p].kind
  BY <1>2
<1>4. PICK seen : seen = jobs[p].seen
  OBVIOUS
<1>5. ReadSoFar(k, seen)
  BY <1>1, <1>3, <1>4 DEF ArtifactsInOrder, LoaderInOrder
<1>6. ReadSoFar(k, seen)'
  BY <1>5, OrderStays DEF ArtifactsInOrder
<1> QED
  BY <1>1, <1>3, <1>4, <1>6 DEF ReadSoFar, Fits, NoOlder, Overlapped

\* A saver that knows of every training that has begun since, and has no other
\* file at hand.
LEMMA SaverStays ==
    ASSUME ArtifactsInOrder, HistoryGoesOn, FilesStay,
           NEW k \in Kinds, NEW g \in Nat, NEW at \in Nat, StillSaved(k, g), Through(k, g, at),
           \A n \in 1 .. trained'[k] : n > trained[k] => g \in alongside'[k][n]
    PROVE  StillSaved(k, g)' /\ Through(k, g, at)'
<1>1. g \in 1 .. trained[k] /\ trained[k] \in Nat
  BY DEF StillSaved, ArtifactsInOrder, Typed
<1>2. StillSaved(k, g)'
  BY <1>1 DEF StillSaved, HistoryGoesOn
<1> QED
  BY <1>1, <1>2, OrderStays DEF ArtifactsInOrder

\* The disk next to metadata that have not been written since.
LEMMA DiskStays ==
    ASSUME ArtifactsInOrder, HistoryGoesOn, FilesStay, NEW k \in Kinds,
           disk'[k][Metadata] >= 1, disk'[k][Metadata] = disk[k][Metadata]
    PROVE  \A i \in 1 .. Len(WriteOrder[k]) : Fits(k, WriteOrder[k][i], disk[k][Metadata])'
<1>1. disk[k][Metadata] \in 1 .. trained[k]
  <2>1. Metadata \in Files
    BY ArtifactAssumption
  <2>2. disk[k][Metadata] \in Int /\ disk[k][Metadata] <= trained[k] /\ trained[k] \in Nat
    BY <2>1, FilesHold DEF ArtifactsInOrder, NoneFromTheFuture, Typed
  <2> QED
    BY <2>2
<1>2. PICK m \in 1 .. trained[k] : m = disk[k][Metadata]
  BY <1>1
<1>3. \A i \in 1 .. Len(WriteOrder[k]) : Fits(k, WriteOrder[k][i], m)
  BY <1>2 DEF ArtifactsInOrder, DiskInOrder
<1>4. \A i \in 1 .. Len(WriteOrder[k]) : Fits(k, WriteOrder[k][i], m)'
  BY <1>3, OrderStays DEF ArtifactsInOrder
<1> QED
  BY <1>2, <1>4 DEF Fits, NoOlder, Overlapped

-----------------------------------------------------------------------------
(* The steps, one by one                                                    *)

\* A step that leaves the files and the history alone, and after which no
\* process saves or has read anything that it did not before, keeps order.
LEMMA QuietStep ==
    ASSUME ArtifactsInOrder, UNCHANGED <<disk, trained, alongside>>, jobs' \in [Processes -> Jobs],
           \A p \in Processes :
                \/ jobs'[p] = jobs[p]
                \/ jobs'[p].doing \notin {"save", "load", "loaded"}
                \/ jobs'[p].doing = "load" /\ jobs'[p].seen = <<>>
                \/ /\ jobs[p].doing = "load" /\ jobs'[p].doing = "loaded"
                   /\ jobs'[p].kind = jobs[p].kind /\ jobs'[p].seen = jobs[p].seen
    PROVE  ArtifactsInOrder'
<1>1. Typed' /\ NoneFromTheFuture' /\ HistoryGoesOn
  BY DEF ArtifactsInOrder, Typed, NoneFromTheFuture, HistoryGoesOn
<1>2. FilesStay
  BY <1>1, UntouchedFilesStay DEF ArtifactsInOrder
<1>3. DiskInOrder'
  BY DEF ArtifactsInOrder, DiskInOrder, Fits, NoOlder, Overlapped
<1>4. \A p \in Processes : jobs'[p].doing = "save" => jobs'[p] = jobs[p]
  OBVIOUS
<1>5. SaverInOrder' /\ SaversDiffer'
  BY <1>4 DEF ArtifactsInOrder, SaverInOrder, SaversDiffer, StillSaved, Through, AtHand, Fits, NoOlder, Overlapped
<1>6. LoaderInOrder'
  <2>1. \A p \in Processes : HasMetadata(p)' =>
                /\ HasMetadata(p)
                /\ jobs'[p].kind = jobs[p].kind /\ jobs'[p].seen = jobs[p].seen
    BY DEF HasMetadata
  <2> QED
    BY <1>1, <1>2, <2>1, LoadersStay
<1> QED
  BY <1>1, <1>3, <1>5, <1>6 DEF ArtifactsInOrder

LEMMA SavingIsAJob ==
    ASSUME NEW k \in Kinds, NEW g \in Nat
    PROVE  Saving(k, g) \in Jobs
<1>1. Saving(k, g) \in SaveJobs
  BY DEF Saving, SaveJobs
<1> QED
  BY <1>1 DEF Jobs

\* A training that begins to be saved is later than all others, and is noted
\* with those that are being saved.
LEMMA StartSaveKeepsOrder ==
    ASSUME ArtifactsInOrder, NEW p \in Processes, NEW k \in Kinds, StartSave(p, k)
    PROVE  ArtifactsInOrder'
<1>1. PICK new \in Nat, savers \in SUBSET Nat :
        /\ new = trained[k] + 1
        /\ savers = {jobs[q].generation : q \in Savers(k)}
        /\ \A q \in Processes : jobs[q].doing = "save" /\ jobs[q].kind = k => jobs[q].generation \in savers
  <2>1. \A q \in Savers(k) : jobs[q].generation \in Nat
    BY JobFields DEF Savers, IsDoing, ArtifactsInOrder, SaveJobs
  <2>2. {jobs[q].generation : q \in Savers(k)} \in SUBSET Nat
    BY <2>1
  <2>3. trained[k] + 1 \in Nat
    BY DEF ArtifactsInOrder, Typed
  <2>4. \A q \in Processes : jobs[q].doing = "save" /\ jobs[q].kind = k => q \in Savers(k)
    BY DEF Savers, IsDoing
  <2> QED
    BY <2>2, <2>3, <2>4
<1>2. /\ trained \in [Kinds -> Nat] /\ trained' \in [Kinds -> Nat] /\ trained'[k] = new
      /\ \A j \in Kinds : j # k => trained'[j] = trained[j]
  BY <1>1 DEF StartSave, ArtifactsInOrder, Typed
<1>3. /\ alongside' = [alongside EXCEPT ![k] = Append(@, savers)]
      /\ alongside[k] \in Seq(SUBSET Nat) /\ Len(alongside[k]) = trained[k]
  BY <1>1 DEF StartSave, ArtifactsInOrder, Typed
<1>4. /\ alongside'[k] = Append(alongside[k], savers)
      /\ \A j \in Kinds : j # k => alongside'[j] = alongside[j]
  BY <1>3 DEF ArtifactsInOrder, Typed
<1>5. /\ alongside'[k] \in Seq(SUBSET Nat) /\ Len(alongside'[k]) = new
      /\ alongside'[k][new] = savers
      /\ \A n \in 1 .. trained[k] : alongside'[k][n] = alongside[k][n]
  <2>1. PICK old \in Seq(SUBSET Nat) : old = alongside[k] /\ Len(old) = trained[k]
    BY <1>3
  <2>2. /\ Append(old, savers) \in Seq(SUBSET Nat) /\ Len(Append(old, savers)) = Len(old) + 1
        /\ Append(old, savers)[Len(old) + 1] = savers
        /\ \A n \in 1 .. Len(old) : Append(old, savers)[n] = old[n]
    OBVIOUS
  <2> QED
    BY <1>1, <1>4, <2>1, <2>2
<1>6. /\ jobs'[p] = Saving(k, new)
      /\ \A q \in Processes : q # p => jobs'[q] = jobs[q]
      /\ jobs' \in [Processes -> Jobs]
  BY <1>1, SavingIsAJob DEF StartSave, ArtifactsInOrder, Typed
<1>7. jobs'[p].doing = "save" /\ jobs'[p].kind = k /\ jobs'[p].generation = new
      /\ jobs'[p].at = 1 /\ jobs'[p].file = "closed"
  BY <1>6 DEF Saving
<1>8. Typed'
  <2>1. disk' \in [Kinds -> [Files -> Held]]
    BY DEF StartSave, ArtifactsInOrder, Typed
  <2>2. alongside' \in [Kinds -> Seq(SUBSET Nat)]
    BY <1>3, <1>5, <1>4 DEF ArtifactsInOrder, Typed
  <2>3. \A j \in Kinds : Len(alongside'[j]) = trained'[j]
    BY <1>2, <1>4, <1>5 DEF ArtifactsInOrder, Typed
  <2> QED
    BY <1>2, <1>6, <2>1, <2>2, <2>3 DEF Typed
<1>9. HistoryGoesOn
  <2> SUFFICES ASSUME NEW j \in Kinds
               PROVE  /\ trained'[j] \in Nat /\ trained[j] <= trained'[j]
                      /\ \A n \in 1 .. trained[j] : alongside'[j][n] = alongside[j][n]
    BY DEF HistoryGoesOn
  <2>1. trained'[j] \in Nat /\ trained[j] \in Nat /\ (trained'[j] = trained[j] \/ trained'[j] = trained[j] + 1)
    BY <1>1, <1>2
  <2>2. \A n \in 1 .. trained[j] : alongside'[j][n] = alongside[j][n]
    BY <1>4, <1>5
  <2> QED
    BY <2>1, <2>2
<1>10. FilesStay
  BY <1>9, UntouchedFilesStay DEF ArtifactsInOrder, StartSave
<1>11. NoneFromTheFuture'
  <2> SUFFICES ASSUME NEW j \in Kinds, NEW f \in Files PROVE disk'[j][f] <= trained'[j]
    BY DEF NoneFromTheFuture
  <2>1. disk'[j][f] = disk[j][f] /\ disk[j][f] \in Int /\ disk[j][f] <= trained[j]
    BY FilesHold DEF StartSave, ArtifactsInOrder, NoneFromTheFuture
  <2>2. trained[j] \in Nat /\ trained'[j] \in Nat /\ trained[j] <= trained'[j]
    BY <1>2, <1>9 DEF HistoryGoesOn
  <2> QED
    BY <2>1, <2>2
<1>12. DiskInOrder'
  <2> SUFFICES ASSUME NEW j \in Kinds, disk'[j][Metadata] >= 1
               PROVE  \A i \in 1 .. Len(WriteOrder[j]) : Fits(j, WriteOrder[j][i], disk[j][Metadata])'
    BY DEF DiskInOrder
  <2> QED
    BY <1>9, <1>10, DiskStays DEF StartSave
<1>13. SaverInOrder'
  <2> SUFFICES ASSUME NEW q \in Processes, jobs'[q].doing = "save"
               PROVE  (/\ StillSaved(jobs[q].kind, jobs[q].generation)
                       /\ Through(jobs[q].kind, jobs[q].generation, jobs[q].at)
                       /\ jobs[q].file = "open" => AtHand(jobs[q].kind, jobs[q].generation, jobs[q].at))'
    BY DEF SaverInOrder
  <2>1. CASE q = p
    <3>1. StillSaved(k, new)'
      BY <1>1, <1>2 DEF StillSaved
    <3>2. Through(k, new, 1)'
      BY DEF Through
    <3> QED
      BY <1>7, <2>1, <3>1, <3>2 DEF StillSaved, Through, Fits, NoOlder, Overlapped
  <2>2. CASE q # p
    <3>1. jobs'[q] = jobs[q] /\ jobs[q] \in SaveJobs /\ jobs[q].doing = "save"
      BY <1>6, <2>2, JobFields DEF ArtifactsInOrder
    <3>2. PICK j \in Kinds, g \in Nat, at \in Nat :
            j = jobs[q].kind /\ g = jobs[q].generation /\ at = jobs[q].at
      BY <3>1 DEF SaveJobs
    <3>3. StillSaved(j, g) /\ Through(j, g, at) /\ (jobs[q].file = "open" => AtHand(j, g, at))
      BY <3>1, <3>2 DEF ArtifactsInOrder, SaverInOrder
    <3>4. \A n \in 1 .. trained'[j] : n > trained[j] => g \in alongside'[j][n]
      <4>1. CASE j = k
        <5>1. g \in savers
          BY <1>1, <3>1, <3>2, <4>1
        <5>2. \A n \in 1 .. new : n > trained[k] => n = new
          BY <1>1, <1>2
        <5> QED
          BY <1>2, <1>5, <4>1, <5>1, <5>2
      <4>2. CASE j # k
        BY <1>2, <4>2
      <4> QED
        BY <4>1, <4>2
    <3>5. StillSaved(j, g)' /\ Through(j, g, at)'
      BY <1>9, <1>10, <3>3, <3>4, SaverStays
    <3>6. AtHand(j, g, at) => AtHand(j, g, at)'
      <4>1. g \in 1 .. trained[j]
        BY <3>3 DEF StillSaved
      <4>2. Overlapped(j, g) => Overlapped(j, g)'
        BY <1>9, <4>1, NoOlderStays DEF ArtifactsInOrder
      <4> QED
        BY <4>2 DEF AtHand, StartSave
    <3> QED
      BY <3>1, <3>2, <3>3, <3>5, <3>6 DEF StillSaved, Through, AtHand, Fits, NoOlder, Overlapped
  <2> QED
    BY <2>1, <2>2
<1>14. SaversDiffer'
  <2>1. ASSUME NEW q \in Processes, q # p, jobs'[q].doing = "save", jobs'[q].kind = k
        PROVE  jobs'[q].generation # new
    <3>1. jobs'[q] = jobs[q]
      BY <1>6, <2>1
    <3>2. StillSaved(k, jobs[q].generation)
      BY <2>1, <3>1 DEF ArtifactsInOrder, SaverInOrder
    <3> QED
      BY <1>1, <1>2, <3>1, <3>2 DEF StillSaved
  <2> QED
    BY <1>6, <1>7, <2>1 DEF SaversDiffer, ArtifactsInOrder
<1>15. LoaderInOrder'
  <2>1. \A q \in Processes : HasMetadata(q)' =>
                /\ HasMetadata(q)
                /\ jobs'[q].kind = jobs[q].kind /\ jobs'[q].seen = jobs[q].seen
    BY <1>6, <1>7 DEF HasMetadata
  <2> QED
    BY <1>9, <1>10, <2>1, LoadersStay
<1> QED
  BY <1>8, <1>11, <1>12, <1>13, <1>14, <1>15 DEF ArtifactsInOrder

\* What training g may leave in a file it has at hand.
MayLeave(k, g, v) == v = Torn \/ v = g \/ (v = Mixed /\ Overlapped(k, g))

\* A file touched by training g fits what it fitted before.
LEMMA FileTouched ==
    ASSUME ArtifactsInOrder, NEW k \in Kinds, NEW f \in Files, NEW g \in Nat, NEW v,
           StillSaved(k, g), MayLeave(k, g, v),
           disk' = [disk EXCEPT ![k][f] = v], UNCHANGED <<trained, alongside>>
    PROVE  /\ disk' \in [Kinds -> [Files -> Held]]
           /\ disk'[k][f] = v
           /\ \A j \in Kinds, h \in Files : j # k \/ h # f => disk'[j][h] = disk[j][h]
           /\ HistoryGoesOn /\ FilesStay /\ NoneFromTheFuture'
<1>1. v \in Held /\ v <= trained[k] /\ trained[k] \in Nat
  BY DEF MayLeave, Held, Torn, Mixed, StillSaved, ArtifactsInOrder, Typed
<1>2. /\ disk' \in [Kinds -> [Files -> Held]]
      /\ disk'[k][f] = v
      /\ \A j \in Kinds, h \in Files : j # k \/ h # f => disk'[j][h] = disk[j][h]
  BY <1>1 DEF ArtifactsInOrder, Typed
<1>3. HistoryGoesOn
  BY DEF HistoryGoesOn, ArtifactsInOrder, Typed
<1>4. FilesStay
  <2> SUFFICES ASSUME NEW j \in Kinds, NEW h \in Files, NEW m \in 1 .. trained[j], Fits(j, h, m)
               PROVE  Fits(j, h, m)'
    BY DEF FilesStay
  <2>1. CASE j = k /\ h = f
    <3>1. CASE v = Torn
      BY <1>2, <2>1, <3>1 DEF Fits
    <3>2. CASE v = g
      <4>1. NoOlder(k, v, m)
        BY <2>1, <3>2 DEF NoOlder, StillSaved
      <4> QED
        BY <1>2, <2>1, <4>1 DEF Fits, NoOlder, Overlapped
    <3>3. CASE v = Mixed /\ Overlapped(k, g)
      <4>1. Overlapped(k, m)
        BY <2>1, <3>3, OverlapsLater DEF ArtifactsInOrder
      <4> QED
        BY <1>2, <2>1, <3>3, <4>1 DEF Fits, NoOlder, Overlapped
    <3> QED
      BY <3>1, <3>2, <3>3 DEF MayLeave
  <2>2. CASE j # k \/ h # f
    BY <1>2, <2>2 DEF Fits, NoOlder, Overlapped
  <2> QED
    BY <2>1, <2>2
<1>5. NoneFromTheFuture'
  BY <1>1, <1>2 DEF NoneFromTheFuture, ArtifactsInOrder
<1> QED
  BY <1>2, <1>3, <1>4, <1>5

\* A process that goes on saving and has touched one file keeps order if its
\* own files do.
LEMMA SaverMoves ==
    ASSUME ArtifactsInOrder, NEW p \in Processes, NEW k \in Kinds, NEW f \in Files, NEW g \in Nat, NEW v,
           MayLeave(k, g, v), StillSaved(k, g), jobs[p].doing = "save", jobs[p].kind = k, jobs[p].generation = g,
           disk' = [disk EXCEPT ![k][f] = v], UNCHANGED <<trained, alongside>>,
           jobs' \in [Processes -> Jobs], \A q \in Processes : q # p => jobs'[q] = jobs[q],
           NEW now \in Nat,
           jobs'[p].doing = "save", jobs'[p].kind = k, jobs'[p].generation = g, jobs'[p].at = now,
           Through(k, g, now)', jobs'[p].file = "open" => AtHand(k, g, now)',
           f = Metadata => v = Torn \/ v = Mixed \/ \A i \in 1 .. Len(WriteOrder[k]) : Fits(k, WriteOrder[k][i], g)'
    PROVE  ArtifactsInOrder'
<1>1. /\ disk' \in [Kinds -> [Files -> Held]]
      /\ disk'[k][f] = v
      /\ \A j \in Kinds, h \in Files : j # k \/ h # f => disk'[j][h] = disk[j][h]
      /\ HistoryGoesOn /\ FilesStay /\ NoneFromTheFuture'
  BY FileTouched
<1>2. Typed'
  BY <1>1 DEF ArtifactsInOrder, Typed
<1>3. DiskInOrder'
  <2> SUFFICES ASSUME NEW j \in Kinds, disk'[j][Metadata] >= 1
               PROVE  \A i \in 1 .. Len(WriteOrder[j]) : Fits(j, WriteOrder[j][i], disk[j][Metadata])'
    BY DEF DiskInOrder
  <2>1. CASE j = k /\ f = Metadata
    <3>1. v = g
      BY <1>1, <2>1 DEF MayLeave, Torn, Mixed
    <3>2. \A i \in 1 .. Len(WriteOrder[k]) : Fits(k, WriteOrder[k][i], g)'
      BY <2>1, <3>1 DEF Torn, Mixed
    <3>3. disk'[j][Metadata] = g
      BY <1>1, <2>1, <3>1
    <3> QED
      BY <2>1, <3>2, <3>3 DEF Fits, NoOlder, Overlapped
  <2>2. CASE ~(j = k /\ f = Metadata)
    <3>1. disk'[j][Metadata] = disk[j][Metadata]
      BY <1>1, <2>2, ArtifactAssumption
    <3> QED
      BY <1>1, <3>1, DiskStays
  <2> QED
    BY <2>1, <2>2
<1>4. SaverInOrder'
  <2> SUFFICES ASSUME NEW q \in Processes, jobs'[q].doing = "save"
               PROVE  (/\ StillSaved(jobs[q].kind, jobs[q].generation)
                       /\ Through(jobs[q].kind, jobs[q].generation, jobs[q].at)
                       /\ jobs[q].file = "open" => AtHand(jobs[q].kind, jobs[q].generation, jobs[q].at))'
    BY DEF SaverInOrder
  <2>1. CASE q = p
    <3>1. StillSaved(k, g)'
      BY DEF StillSaved
    <3> QED
      BY <2>1, <3>1 DEF StillSaved, Through, AtHand, Fits, NoOlder, Overlapped
  <2>2. CASE q # p
    <3>1. jobs'[q] = jobs[q] /\ jobs[q] \in SaveJobs /\ jobs[q].doing = "save"
      BY <2>2, JobFields DEF ArtifactsInOrder
    <3>2. PICK j \in Kinds, b \in Nat, at \in Nat \ {0} :
            j = jobs[q].kind /\ b = jobs[q].generation /\ at = jobs[q].at
      BY <3>1 DEF SaveJobs
    <3>3. StillSaved(j, b) /\ Through(j, b, at) /\ (jobs[q].file = "open" => AtHand(j, b, at))
      BY <3>1, <3>2 DEF ArtifactsInOrder, SaverInOrder
    <3>4. StillSaved(j, b)' /\ Through(j, b, at)'
      <4>1. \A n \in 1 .. trained'[j] : n > trained[j] => b \in alongside'[j][n]
        BY DEF ArtifactsInOrder, Typed
      <4> QED
        BY <1>1, <3>3, <4>1, SaverStays
    <3>5. AtHand(j, b, at) => AtHand(j, b, at)'
      <4>1. CASE j = k
        <5>1. b # g
          BY <2>2, <3>1, <3>2, <4>1 DEF ArtifactsInOrder, SaversDiffer
        <5>2. b \in 1 .. trained[k]
          BY <3>3, <4>1 DEF StillSaved
        <5>3. Overlapped(k, b)
          BY <3>3, <4>1, <5>1, <5>2, TwoSavers DEF ArtifactsInOrder
        <5> QED
          BY <4>1, <5>3 DEF AtHand, Overlapped
      <4>2. CASE j # k
        <5>1. AtHand(j, b, at) => WriteOrder[j][at] \in Files
          BY OrdersAreFiles DEF AtHand
        <5> QED
          BY <1>1, <4>2, <5>1 DEF AtHand, Overlapped
      <4> QED
        BY <4>1, <4>2
    <3> QED
      BY <3>1, <3>2, <3>3, <3>4, <3>5 DEF StillSaved, Through, AtHand, Fits, NoOlder, Overlapped
  <2> QED
    BY <2>1, <2>2
<1>5. SaversDiffer'
  <2>1. \A q \in Processes :
            /\ jobs'[q].doing = "save" => jobs[q].doing = "save"
            /\ jobs'[q].doing = "save" => jobs'[q].kind = jobs[q].kind
            /\ jobs'[q].doing = "save" => jobs'[q].generation = jobs[q].generation
    OBVIOUS
  <2> QED
    BY <2>1 DEF SaversDiffer, ArtifactsInOrder
<1>6. LoaderInOrder'
  <2>1. \A q \in Processes : HasMetadata(q)' =>
                /\ HasMetadata(q)
                /\ jobs'[q].kind = jobs[q].kind /\ jobs'[q].seen = jobs[q].seen
    BY DEF HasMetadata
  <2> QED
    BY <1>1, <2>1, LoadersStay
<1> QED
  BY <1>1, <1>2, <1>3, <1>4, <1>5, <1>6 DEF ArtifactsInOrder

\* An emptied file fits every training; that another process has it open too
\* is an overlap.
LEMMA OpenFileKeepsOrder ==
    ASSUME ArtifactsInOrder, NEW p \in Processes, OpenFile(p)
    PROVE  ArtifactsInOrder'
<1>1. PICK k \in Kinds, f \in Files, g \in Nat, at \in Nat :
            /\ k = jobs[p].kind /\ f = FileAtHand(p) /\ g = jobs[p].generation /\ at = jobs[p].at
            /\ f = WriteOrder[k][at] /\ at \in 1 .. Len(WriteOrder[k])
            /\ jobs[p] \in SaveJobs
  <2>1. jobs[p].doing = "save" /\ jobs[p].at <= Len(WriteOrder[jobs[p].kind])
    BY DEF OpenFile, IsDoing
  <2>2. /\ jobs[p] \in SaveJobs
        /\ jobs[p].kind \in Kinds /\ jobs[p].at \in 1 .. Len(WriteOrder[jobs[p].kind])
        /\ FileAtHand(p) = WriteOrder[jobs[p].kind][jobs[p].at] /\ FileAtHand(p) \in Files
        /\ jobs[p].generation \in Nat
    BY <2>1, SaverFields
  <2>3. jobs[p].at \in Nat
    BY <2>2, OrdersAreFiles
  <2> QED
    BY <2>2, <2>3
<1>2. jobs[p].doing = "save" /\ jobs[p].file = "closed" /\ StillSaved(k, g) /\ Through(k, g, at)
  BY <1>1 DEF OpenFile, IsDoing, ArtifactsInOrder, SaverInOrder
<1>3. PICK v \in {Torn, Mixed} :
        /\ disk' = [disk EXCEPT ![k][f] = v]
        /\ v = Mixed => \E q \in Processes : HasOpen(q, k, f)
  <2>1. CASE \E q \in Processes : HasOpen(q, k, f)
    BY <1>1, <2>1 DEF OpenFile
  <2>2. CASE ~\E q \in Processes : HasOpen(q, k, f)
    <3>1. disk' = [disk EXCEPT ![k][f] = Torn]
      BY <1>1, <2>2 DEF OpenFile
    <3> QED
      BY <3>1 DEF Torn, Mixed
  <2> QED
    BY <2>1, <2>2
<1>4. v = Mixed => Overlapped(k, g)
  <2> SUFFICES ASSUME NEW q \in Processes, HasOpen(q, k, f) PROVE Overlapped(k, g)
    BY <1>3
  <2>1. jobs[q].doing = "save" /\ jobs[q].kind = k /\ jobs[q].file = "open"
    BY DEF HasOpen, Savers, IsDoing
  <2>2. q # p
    BY <1>2, <2>1
  <2>3. PICK b \in Nat : b = jobs[q].generation
    BY <2>1, JobFields DEF ArtifactsInOrder, SaveJobs
  <2>4. b # g
    BY <1>1, <1>2, <2>1, <2>2, <2>3 DEF ArtifactsInOrder, SaversDiffer
  <2>5. StillSaved(k, b) /\ g \in 1 .. trained[k]
    BY <1>2, <2>1, <2>3 DEF ArtifactsInOrder, SaverInOrder, StillSaved
  <2> QED
    BY <1>2, <2>4, <2>5, TwoSavers DEF ArtifactsInOrder
<1>5. MayLeave(k, g, v)
  BY <1>3, <1>4 DEF MayLeave
<1>6. UNCHANGED <<trained, alongside>> /\ jobs' = [jobs EXCEPT ![p].file = "open"]
  BY DEF OpenFile
<1>7. /\ jobs' \in [Processes -> Jobs]
      /\ \A q \in Processes : q # p => jobs'[q] = jobs[q]
      /\ jobs'[p].doing = "save" /\ jobs'[p].kind = k /\ jobs'[p].generation = g /\ jobs'[p].at = at
  <2>1. jobs' = [jobs EXCEPT ![p] = [jobs[p] EXCEPT !.file = "open"]]
    BY <1>6
  <2>2. [jobs[p] EXCEPT !.file = "open"] \in SaveJobs
    BY <1>1 DEF SaveJobs
  <2> QED
    BY <1>1, <2>1, <2>2 DEF ArtifactsInOrder, Typed, Jobs, SaveJobs
<1>8. disk'[k][f] = v /\ HistoryGoesOn /\ FilesStay
  BY <1>2, <1>3, <1>5, <1>6, FileTouched
<1>9. Through(k, g, at)'
  <2>1. g \in 1 .. trained[k]
    BY <1>2 DEF StillSaved
  <2> QED
    BY <1>2, <1>8, <2>1, OrderStays DEF ArtifactsInOrder
<1>10. AtHand(k, g, at)'
  BY <1>1, <1>3, <1>4, <1>6, <1>8 DEF AtHand, Overlapped
<1>11. f = Metadata => v = Torn \/ v = Mixed
  BY <1>3
<1> QED
  BY <1>1, <1>2, <1>3, <1>5, <1>6, <1>7, <1>9, <1>10, <1>11, SaverMoves

\* A file written fits its own training, and the metadata are written when all
\* other files are.
LEMMA WriteFileKeepsOrder ==
    ASSUME ArtifactsInOrder, NEW p \in Processes, WriteFile(p)
    PROVE  ArtifactsInOrder'
<1>1. PICK k \in Kinds, f \in Files, g \in Nat, at \in Nat :
            /\ k = jobs[p].kind /\ f = FileAtHand(p) /\ g = jobs[p].generation /\ at = jobs[p].at
            /\ jobs[p] \in SaveJobs /\ jobs[p].doing = "save" /\ jobs[p].file = "open"
            /\ StillSaved(k, g) /\ Through(k, g, at) /\ AtHand(k, g, at)
            /\ f = WriteOrder[k][at] /\ at \in 1 .. Len(WriteOrder[k])
  <2>1. jobs[p].doing = "save" /\ jobs[p].file = "open"
    BY DEF WriteFile, IsDoing
  <2>2. /\ StillSaved(jobs[p].kind, jobs[p].generation)
        /\ Through(jobs[p].kind, jobs[p].generation, jobs[p].at)
        /\ AtHand(jobs[p].kind, jobs[p].generation, jobs[p].at)
    BY <2>1 DEF ArtifactsInOrder, SaverInOrder
  <2>3. jobs[p].at <= Len(WriteOrder[jobs[p].kind])
    BY <2>2 DEF AtHand
  <2>4. /\ jobs[p] \in SaveJobs
        /\ jobs[p].kind \in Kinds /\ jobs[p].at \in 1 .. Len(WriteOrder[jobs[p].kind])
        /\ FileAtHand(p) = WriteOrder[jobs[p].kind][jobs[p].at] /\ FileAtHand(p) \in Files
        /\ jobs[p].generation \in Nat
    BY <2>1, <2>3, SaverFields
  <2>5. jobs[p].at \in Nat
    BY <2>4, OrdersAreFiles
  <2> QED
    BY <2>1, <2>2, <2>4, <2>5
<1>2. PICK v \in {g, Mixed} :
        /\ disk[k][f] = Torn => v # Mixed
        /\ disk' = [disk EXCEPT ![k][f] = v]
  BY <1>1 DEF WriteFile
<1>3. MayLeave(k, g, v)
  <2>1. v = Mixed => disk[k][f] # Torn
    BY <1>2
  <2>2. v = Mixed => Overlapped(k, g)
    BY <1>1, <2>1 DEF AtHand
  <2> QED
    BY <1>2, <2>2 DEF MayLeave
<1>4. UNCHANGED <<trained, alongside>>
  BY DEF WriteFile
<1>5. /\ jobs' \in [Processes -> Jobs]
      /\ \A q \in Processes : q # p => jobs'[q] = jobs[q]
      /\ jobs'[p].doing = "save" /\ jobs'[p].kind = k /\ jobs'[p].generation = g
      /\ jobs'[p].at = at + 1 /\ jobs'[p].file = "closed"
  <2>1. jobs' = [jobs EXCEPT ![p] = [jobs[p] EXCEPT !.file = "closed", !.at = at + 1]]
    <3>1. at = jobs[p].at
      BY <1>1
    <3> QED
      BY <3>1 DEF WriteFile
  <2>2. [jobs[p] EXCEPT !.file = "closed", !.at = at + 1] \in SaveJobs
    <3>1. jobs[p] \in SaveJobs /\ at + 1 \in Nat \ {0}
      BY <1>1
    <3> QED
      BY <3>1 DEF SaveJobs
  <2>3. jobs'[p] = [jobs[p] EXCEPT !.file = "closed", !.at = at + 1]
    BY <2>1 DEF ArtifactsInOrder, Typed
  <2>4. jobs' \in [Processes -> Jobs] /\ \A q \in Processes : q # p => jobs'[q] = jobs[q]
    BY <2>1, <2>2 DEF ArtifactsInOrder, Typed, Jobs
  <2>5. /\ jobs'[p].doing = jobs[p].doing /\ jobs'[p].kind = jobs[p].kind
        /\ jobs'[p].generation = jobs[p].generation
        /\ jobs'[p].at = at + 1 /\ jobs'[p].file = "closed"
    <3>1. jobs[p] \in SaveJobs
      BY <1>1
    <3> QED
      BY <2>3, <3>1 DEF SaveJobs
  <2>6. jobs[p].doing = "save" /\ jobs[p].kind = k /\ jobs[p].generation = g
    BY <1>1
  <2> QED
    BY <2>4, <2>5, <2>6
<1>6. disk'[k][f] = v /\ HistoryGoesOn /\ FilesStay
  <2>1. disk' = [disk EXCEPT ![k][f] = v]
    BY <1>2
  <2>2. StillSaved(k, g)
    BY <1>1
  <2> QED
    BY <1>3, <1>4, <2>1, <2>2, FileTouched
<1>7. Fits(k, f, g)'
  <2>1. v = Mixed => Overlapped(k, g)'
    BY <1>3, <1>4 DEF MayLeave, Overlapped, Torn, Mixed
  <2> QED
    BY <1>2, <1>6, <2>1 DEF Fits, NoOlder
<1>8. Through(k, g, at + 1)'
  <2>1. g \in 1 .. trained[k]
    BY <1>1 DEF StillSaved
  <2>2. Through(k, g, at)'
    BY <1>1, <1>6, <2>1, OrderStays DEF ArtifactsInOrder
  <2>3. \A i \in 1 .. Len(WriteOrder[k]) : i < at + 1 => i < at \/ i = at
    BY <1>1, OrdersAreFiles
  <2> QED
    BY <1>1, <1>7, <2>2, <2>3 DEF Through
<1>9. f = Metadata => \A i \in 1 .. Len(WriteOrder[k]) : Fits(k, WriteOrder[k][i], g)'
  <2> SUFFICES ASSUME f = Metadata, NEW i \in 1 .. Len(WriteOrder[k])
               PROVE  Fits(k, WriteOrder[k][i], g)'
    OBVIOUS
  <2>1. at = Len(WriteOrder[k])
    BY <1>1, MetadataLastAndFirst
  <2>2. i < at + 1
    BY <1>1, <2>1, OrdersAreFiles
  <2> QED
    BY <1>8, <2>2 DEF Through
<1>10. PICK now \in Nat : now = at + 1
  OBVIOUS
<1> QED
  BY <1>1, <1>2, <1>3, <1>4, <1>5, <1>8, <1>9, <1>10, SaverMoves

\* The first file read is the metadata's; whoever has them finds what fits them.
LEMMA ReadFileKeepsOrder ==
    ASSUME ArtifactsInOrder, NEW p \in Processes, ReadFile(p)
    PROVE  ArtifactsInOrder'
<1>1. jobs[p] \in LoadJobs /\ jobs[p].doing = "load"
  BY JobFields DEF ArtifactsInOrder, ReadFile, WantsMore, IsDoing
<1>2. PICK k \in Kinds, seen \in Seq(Int) : k = jobs[p].kind /\ seen = jobs[p].seen
  BY <1>1 DEF LoadJobs
<1>3. PICK next \in 1 .. Len(ReadOrder[k]) : next = Len(seen) + 1
  <2>1. Len(seen) \in Nat /\ Len(ReadOrder[k]) \in Nat
    BY <1>2, MetadataLastAndFirst
  <2> QED
    BY <1>2, <2>1 DEF ReadFile, WantsMore
<1>4. PICK at \in 1 .. Len(WriteOrder[k]) : WriteOrder[k][at] = ReadOrder[k][next]
  BY MetadataLastAndFirst
<1>5. PICK f \in Files : f = ReadOrder[k][next]
  BY OrdersAreFiles
<1>6. PICK found \in Int :
        /\ found = disk[k][f] /\ found \notin {Absent, Torn} /\ found \in Held
        /\ found <= trained[k]
        /\ found = Mixed => f # Metadata
        /\ jobs' = [jobs EXCEPT ![p].seen = Append(@, found)]
  <2>1. FileWanted(p) = f /\ Found(p) = disk[k][f]
    BY <1>2, <1>3, <1>5 DEF Found, FileWanted
  <2>2. disk[k][f] \in Int /\ disk[k][f] \in Held /\ disk[k][f] <= trained[k]
    BY FilesHold DEF ArtifactsInOrder, NoneFromTheFuture
  <2>3. /\ disk[k][f] \notin {Absent, Torn}
        /\ disk[k][f] = Mixed => f # Metadata
        /\ jobs' = [jobs EXCEPT ![p].seen = Append(@, disk[k][f])]
    BY <2>1 DEF ReadFile
  <2> QED
    BY <2>2, <2>3
<1>7. Append(seen, found) \in Seq(Int)
  BY <1>2, <1>6
<1>8. PICK more \in Seq(Int) :
        /\ more = Append(seen, found) /\ more # <<>>
        /\ jobs'[p] = [jobs[p] EXCEPT !.seen = more]
        /\ \A q \in Processes : q # p => jobs'[q] = jobs[q]
        /\ jobs' \in [Processes -> Jobs]
        /\ jobs'[p].doing = "load" /\ jobs'[p].kind = k /\ jobs'[p].seen = more
  <2>1. [jobs[p] EXCEPT !.seen = Append(seen, found)] \in LoadJobs
    BY <1>1, <1>7 DEF LoadJobs
  <2>2. jobs' = [jobs EXCEPT ![p] = [jobs[p] EXCEPT !.seen = Append(seen, found)]]
    BY <1>2, <1>6
  <2>3. /\ jobs'[p] = [jobs[p] EXCEPT !.seen = Append(seen, found)]
        /\ \A q \in Processes : q # p => jobs'[q] = jobs[q]
        /\ jobs' \in [Processes -> Jobs]
    BY <2>1, <2>2 DEF ArtifactsInOrder, Typed, Jobs
  <2>4. jobs'[p].doing = "load" /\ jobs'[p].kind = k /\ jobs'[p].seen = Append(seen, found)
    BY <1>1, <1>2, <2>3 DEF LoadJobs
  <2>5. Append(seen, found) # <<>>
    BY <1>2, <1>6
  <2> QED
    BY <1>7, <2>3, <2>4, <2>5
<1>9. UNCHANGED <<disk, trained, alongside>>
  BY DEF ReadFile
<1>10. Typed' /\ NoneFromTheFuture' /\ DiskInOrder' /\ HistoryGoesOn
  <2>1. Typed' /\ NoneFromTheFuture' /\ HistoryGoesOn
    BY <1>8, <1>9 DEF ArtifactsInOrder, Typed, NoneFromTheFuture, HistoryGoesOn
  <2>2. DiskInOrder'
    BY <1>9 DEF ArtifactsInOrder, DiskInOrder, Fits, NoOlder, Overlapped
  <2> QED
    BY <2>1, <2>2
<1>11. FilesStay
  BY <1>9, <1>10, UntouchedFilesStay DEF ArtifactsInOrder
<1>12. SaverInOrder' /\ SaversDiffer'
  <2>1. \A q \in Processes : jobs'[q].doing = "save" => jobs'[q] = jobs[q]
    BY <1>8
  <2>2. SaverInOrder'
    <3> SUFFICES ASSUME NEW q \in Processes, jobs'[q].doing = "save"
                 PROVE  (/\ StillSaved(jobs[q].kind, jobs[q].generation)
                         /\ Through(jobs[q].kind, jobs[q].generation, jobs[q].at)
                         /\ jobs[q].file = "open" => AtHand(jobs[q].kind, jobs[q].generation, jobs[q].at))'
      BY DEF SaverInOrder
    <3>1. jobs'[q] = jobs[q] /\ jobs[q].doing = "save"
      BY <2>1
    <3>2. /\ StillSaved(jobs[q].kind, jobs[q].generation)
          /\ Through(jobs[q].kind, jobs[q].generation, jobs[q].at)
          /\ jobs[q].file = "open" => AtHand(jobs[q].kind, jobs[q].generation, jobs[q].at)
      BY <3>1 DEF ArtifactsInOrder, SaverInOrder
    <3> QED
      BY <1>9, <3>1, <3>2 DEF StillSaved, Through, AtHand, Fits, NoOlder, Overlapped
  <2>3. SaversDiffer'
    BY <2>1 DEF ArtifactsInOrder, SaversDiffer
  <2> QED
    BY <2>2, <2>3
<1>13. ReadSoFar(k, more)
  <2>0. trained[k] \in Nat
    BY DEF ArtifactsInOrder, Typed
  <2>1. CASE seen = <<>>
    <3>1. next = 1 /\ f = Metadata
      <4>1. Len(seen) = 0
        BY <2>1
      <4>2. next = 1
        BY <1>3, <4>1
      <4>3. ReadOrder[k][next] = Metadata
        BY <4>2, MetadataLastAndFirst
      <4> QED
        BY <1>5, <4>2, <4>3
    <3>2. found \in 1 .. trained[k]
      BY <1>6, <2>0, <3>1 DEF Held, Absent, Torn, Mixed
    <3>3. \A i \in 1 .. Len(WriteOrder[k]) : Fits(k, WriteOrder[k][i], found)
      BY <1>6, <3>1, <3>2 DEF ArtifactsInOrder, DiskInOrder
    <3>4. more[1] = found /\ \A i \in 1 .. Len(more) : more[i] = found
      BY <1>2, <1>6, <1>8, <2>1
    <3>5. NoOlder(k, found, found)
      BY <3>2 DEF NoOlder
    <3> QED
      BY <3>2, <3>3, <3>4, <3>5 DEF ReadSoFar
  <2>2. CASE seen # <<>>
    <3>1. HasMetadata(p)
      BY <1>1, <1>2, <2>2 DEF HasMetadata
    <3>2. ReadSoFar(k, seen)
      BY <1>2, <3>1 DEF ArtifactsInOrder, LoaderInOrder
    <3>3. f # Metadata
      BY <1>2, <1>3, <1>5, <2>2, MetadataLastAndFirst
    <3>4. NoOlder(k, found, seen[1])
      <4>1. Fits(k, f, seen[1])
        BY <1>4, <1>5, <3>2, <3>3 DEF ReadSoFar
      <4> QED
        BY <1>6, <4>1 DEF Fits
    <3>5. /\ more[1] = seen[1]
          /\ \A i \in 1 .. Len(more) : more[i] = found \/ (i \in 1 .. Len(seen) /\ more[i] = seen[i])
      BY <1>2, <1>6, <1>8, <2>2, SMTT(60)
    <3> QED
      BY <3>2, <3>4, <3>5 DEF ReadSoFar
  <2> QED
    BY <2>1, <2>2
<1>14. LoaderInOrder'
  <2> SUFFICES ASSUME NEW q \in Processes, HasMetadata(q)'
               PROVE  ReadSoFar(jobs[q].kind, jobs[q].seen)'
    BY DEF LoaderInOrder
  <2>1. CASE q = p
    BY <1>8, <1>9, <1>13, <2>1 DEF ReadSoFar, Fits, NoOlder, Overlapped
  <2>2. CASE q # p
    <3>1. jobs'[q] = jobs[q] /\ HasMetadata(q)
      BY <1>8, <2>2 DEF HasMetadata
    <3>2. ReadSoFar(jobs[q].kind, jobs[q].seen)
      BY <3>1 DEF ArtifactsInOrder, LoaderInOrder
    <3> QED
      BY <1>9, <3>1, <3>2 DEF ReadSoFar, Fits, NoOlder, Overlapped
  <2> QED
    BY <2>1, <2>2
<1> QED
  BY <1>10, <1>12, <1>14 DEF ArtifactsInOrder

-----------------------------------------------------------------------------
LEMMA StepKeepsOrder == ArtifactsInOrder /\ [ArtifactNext]_artifactVars => ArtifactsInOrder'
<1> SUFFICES ASSUME ArtifactsInOrder, [ArtifactNext]_artifactVars PROVE ArtifactsInOrder'
  OBVIOUS
<1>1. CASE UNCHANGED artifactVars
  BY <1>1, QuietStep DEF artifactVars, ArtifactsInOrder, Typed
<1>2. CASE ArtifactNext
  <2> SUFFICES ASSUME NEW p \in Processes,
                      \/ \E k \in Kinds : StartSave(p, k) \/ StartLoad(p, k)
                      \/ ArtifactStep(p)
                      \/ Dispose(p)
               PROVE  ArtifactsInOrder'
    BY <1>2 DEF ArtifactNext
  <2>1. NoJob \in Jobs /\ NoJob.doing = "nothing"
    BY DEF NoJob, Jobs, OtherJobs
  \* A process that drops what it was doing.
  <2>2. ASSUME jobs' = [jobs EXCEPT ![p] = NoJob], UNCHANGED <<disk, trained, alongside>>
        PROVE  ArtifactsInOrder'
    <3>1. jobs' \in [Processes -> Jobs] /\ jobs'[p] = NoJob
          /\ \A q \in Processes : q # p => jobs'[q] = jobs[q]
      BY <2>1, <2>2 DEF ArtifactsInOrder, Typed
    <3> QED
      BY <2>1, <2>2, <3>1, QuietStep
  <2>3. ASSUME NEW k \in Kinds, StartLoad(p, k) PROVE ArtifactsInOrder'
    <3>1. Loading(k, <<>>) \in LoadJobs
      BY DEF Loading, LoadJobs
    <3>2. jobs' \in [Processes -> Jobs] /\ jobs'[p] = Loading(k, <<>>)
          /\ \A q \in Processes : q # p => jobs'[q] = jobs[q]
      BY <2>3, <3>1 DEF StartLoad, ArtifactsInOrder, Typed, Jobs
    <3>3. jobs'[p].doing = "load" /\ jobs'[p].seen = <<>>
      BY <3>2 DEF Loading
    <3> QED
      BY <2>3, <3>2, <3>3, QuietStep DEF StartLoad
  <2>4. ASSUME FailToRead(p) PROVE ArtifactsInOrder'
    <3>1. jobs[p] \in LoadJobs
      BY <2>4, JobFields DEF FailToRead, WantsMore, IsDoing, ArtifactsInOrder
    <3>2. LoadFailed(jobs[p].kind) \in FailedJobs
      BY <3>1 DEF LoadFailed, FailedJobs, LoadJobs
    <3>3. jobs' \in [Processes -> Jobs] /\ jobs'[p] = LoadFailed(jobs[p].kind)
          /\ \A q \in Processes : q # p => jobs'[q] = jobs[q]
      BY <2>4, <3>2 DEF FailToRead, ArtifactsInOrder, Typed, Jobs, OtherJobs
    <3>4. jobs'[p].doing = "load failed"
      BY <3>2, <3>3 DEF FailedJobs
    <3> QED
      BY <2>4, <3>3, <3>4, QuietStep DEF FailToRead
  <2>5. ASSUME FinishLoad(p) PROVE ArtifactsInOrder'
    <3>1. jobs[p] \in LoadJobs /\ jobs[p].doing = "load"
      BY <2>5, JobFields DEF FinishLoad, IsDoing, ArtifactsInOrder
    <3>2. Loaded(jobs[p].kind, jobs[p].seen) \in LoadJobs
      BY <3>1 DEF Loaded, LoadJobs
    <3>3. jobs' \in [Processes -> Jobs] /\ jobs'[p] = Loaded(jobs[p].kind, jobs[p].seen)
          /\ \A q \in Processes : q # p => jobs'[q] = jobs[q]
      BY <2>5, <3>2 DEF FinishLoad, ArtifactsInOrder, Typed, Jobs
    <3>4. jobs'[p].doing = "loaded" /\ jobs'[p].kind = jobs[p].kind /\ jobs'[p].seen = jobs[p].seen
      BY <3>3 DEF Loaded
    <3>5. \A q \in Processes :
            \/ jobs'[q] = jobs[q]
            \/ /\ jobs[q].doing = "load" /\ jobs'[q].doing = "loaded"
               /\ jobs'[q].kind = jobs[q].kind /\ jobs'[q].seen = jobs[q].seen
      BY <3>1, <3>3, <3>4
    <3>6. UNCHANGED <<disk, trained, alongside>>
      BY <2>5 DEF FinishLoad
    <3> QED
      BY <3>3, <3>5, <3>6, QuietStep
  <2>6. CASE \E k \in Kinds : StartSave(p, k) \/ StartLoad(p, k)
    BY <2>3, <2>6, StartSaveKeepsOrder
  <2>7. CASE OpenFile(p) \/ WriteFile(p) \/ ReadFile(p)
    BY <2>7, OpenFileKeepsOrder, WriteFileKeepsOrder, ReadFileKeepsOrder
  <2>8. CASE FinishSave(p) \/ AbandonSave(p) \/ Dispose(p)
    BY <2>2, <2>8 DEF FinishSave, AbandonSave, Dispose
  <2> QED
    BY <2>4, <2>5, <2>6, <2>7, <2>8 DEF ArtifactStep
<1> QED
  BY <1>1, <1>2

-----------------------------------------------------------------------------
(* What the proof is about.                                                *)

\* ArtifactsInOrder is inductive: every file next to the metadata on the disk,
\* those a save has passed, and all a reader of the metadata may still meet,
\* are of that training or a later one, or of one whose save overlapped it
\* (the save and load functions of prediction/persistence.py and
\* personalization/persistence.py).
THEOREM ArtifactsAreInOrder == ArtifactSpec => []ArtifactsInOrder
<1>1. ArtifactsInOrder /\ [ArtifactNext]_artifactVars => ArtifactsInOrder'
  BY StepKeepsOrder
<1> QED
  BY InitInOrder, <1>1, PTL DEF ArtifactSpec

\* However many processes train and save one kind of artifact, in whatever
\* order their files are emptied, written and read and wherever they die: what
\* a load puts together is older than its metadata only if the saves
\* overlapped (load_prediction_artifact, load_personalized_prediction_artifact).
THEOREM OnlyOverlappingSavesMix == ArtifactSpec => []OlderOnlyIfOverlapping
<1>1. ArtifactsInOrder => OlderOnlyIfOverlapping
  <2> SUFFICES ASSUME ArtifactsInOrder, NEW p \in Processes, jobs[p].doing \in {"load", "loaded"},
                      NEW i \in DOMAIN jobs[p].seen
               PROVE  NoOlder(jobs[p].kind, jobs[p].seen[i], jobs[p].seen[1])
    BY DEF OlderOnlyIfOverlapping
  <2>1. jobs[p].seen \in Seq(Int)
    BY JobFields DEF ArtifactsInOrder, LoadJobs
  <2>2. jobs[p].seen # <<>> /\ i \in 1 .. Len(jobs[p].seen)
    BY <2>1
  <2> QED
    BY <2>2 DEF ArtifactsInOrder, LoaderInOrder, HasMetadata, ReadSoFar
<1> QED
  BY ArtifactsAreInOrder, <1>1, PTL

-----------------------------------------------------------------------------
(* The commands handle artifacts as the store says *)

\* A command's step is one of a job with an artifact, or leaves artifacts alone.
LEMMA CommandStepIsArtifactStep ==
    [CommandNext]_commandVars => [ArtifactNext]_artifactVars
<1> SUFFICES ASSUME [CommandNext]_commandVars
             PROVE  ArtifactNext \/ UNCHANGED artifactVars
  OBVIOUS
<1>1. CASE UNCHANGED commandVars
  BY <1>1 DEF commandVars, artifactVars
<1>2. ASSUME NEW p \in Processes, NEW k \in Kinds, Load(p, k) \/ Save(p, k)
      PROVE  ArtifactNext
  BY <1>2 DEF Load, Save, ArtifactNext
<1>3. ASSUME NEW p \in Processes,
             UseFiles(p) \/ LoadReturns(p) \/ SaveReturns(p) \/ Killed(p)
      PROVE  ArtifactNext
  BY <1>3 DEF UseFiles, LoadReturns, SaveReturns, Killed, ArtifactStep, ArtifactNext
<1>4. ASSUME NEW p \in Processes, Type(p)
      PROVE  UNCHANGED artifactVars
  BY <1>4 DEF Type, artifactVars
<1>5. ASSUME NEW p \in Processes,
             \/ ReadRide(p) \/ ReadRides(p) \/ Validate(p)
             \/ Learn(p) \/ EvaluatePredictor(p)
             \/ ProvideHistory(p) \/ Answer(p) \/ Compare(p)
             \/ ReadScenario(p) \/ ReadTrips(p) \/ ReadCustomers(p) \/ Follow(p) \/ FollowTrips(p)
             \/ CompareCustomer(p) \/ CustomersCompared(p)
             \/ BeginSweep(p) \/ SweepOn(p) \/ EndSweep(p) \/ LearnCases(p) \/ EvaluateCases(p)
      PROVE  UNCHANGED artifactVars
  <2>1. Elsewhere
    BY <1>5 DEF ReadRide, ReadRides, Validate, Learn, EvaluatePredictor, ProvideHistory,
                Answer, Compare, ReadScenario, ReadTrips, ReadCustomers, Follow, FollowTrips,
                CompareCustomer, CustomersCompared, BeginSweep, SweepOn, EndSweep, LearnCases, EvaluateCases
  <2> QED
    BY <2>1 DEF Elsewhere, artifactVars
<1>6. CASE CommandNext
  BY <1>2, <1>3, <1>4, <1>5, <1>6 DEF CommandNext
<1> QED
  BY <1>1, <1>6

\* The commands of cli.py handle artifacts only through the save and load
\* functions of the persistence modules.
LEMMA CommandsRefineArtifacts == CommandSpec => ArtifactSpec
<1>1. CommandInit => ArtifactInit
  BY DEF CommandInit
<1> QED
  BY <1>1, CommandStepIsArtifactStep, PTL DEF CommandSpec, ArtifactSpec

\* A command works with an artifact put together from the metadata of a
\* training and what an earlier one left only if somebody typed the one while
\* the other was being saved.
THEOREM CommandsMixOnlyOverlapping == CommandSpec => []OlderOnlyIfOverlapping
BY CommandsRefineArtifacts, OnlyOverlappingSavesMix, PTL

-----------------------------------------------------------------------------
(* Every fault is reported                                                  *)

\* The stages of the commands, named, so that the provers need not look at the
\* letters, and numbered, so that they know them apart.
ToReadRide == "read ride"
ToReadRides == "read rides"
ToReadScenario == "read scenario"
ToReadTrips == "read trips"
ToValidate == "validate"
ToCompare == "compare"
ToLearn == "learn"
ToSaveBase == "save base"
ToSavePersonalized == "save personalized"
ToLoadBase == "load base"
ToLoadPersonalized == "load personalized"
ToEvaluate == "evaluate"
ToAnswer == "answer"
ToJoin == "join"
ToSweep == "sweep"
ToLearnCases == "learn cases"
ToEvaluateCases == "evaluate cases"
ToProvideHistory == "provide history"
ToCustomers == "customers"
ToFollow == "follow"
ToFollowTrips == "follow trips"
ToReadCustomers == "read customers"

StageNumber(stage) ==
    CASE stage = "read ride" -> 1
      [] stage = "read rides" -> 2
      [] stage = "read scenario" -> 3
      [] stage = "read trips" -> 4
      [] stage = "validate" -> 5
      [] stage = "compare" -> 6
      [] stage = "learn" -> 7
      [] stage = "save base" -> 8
      [] stage = "save personalized" -> 9
      [] stage = "load base" -> 10
      [] stage = "load personalized" -> 11
      [] stage = "evaluate" -> 12
      [] stage = "answer" -> 13
      [] stage = "join" -> 14
      [] stage = "sweep" -> 15
      [] stage = "learn cases" -> 16
      [] stage = "evaluate cases" -> 17
      [] stage = "provide history" -> 18
      [] stage = "customers" -> 19
      [] stage = "follow" -> 20
      [] stage = "follow trips" -> 21
      [] stage = "read customers" -> 22

AreNumbered ==
    /\ StageNumber(ToReadRide) = 1
    /\ StageNumber(ToReadRides) = 2
    /\ StageNumber(ToReadScenario) = 3
    /\ StageNumber(ToReadTrips) = 4
    /\ StageNumber(ToValidate) = 5
    /\ StageNumber(ToCompare) = 6
    /\ StageNumber(ToLearn) = 7
    /\ StageNumber(ToSaveBase) = 8
    /\ StageNumber(ToSavePersonalized) = 9
    /\ StageNumber(ToLoadBase) = 10
    /\ StageNumber(ToLoadPersonalized) = 11
    /\ StageNumber(ToEvaluate) = 12
    /\ StageNumber(ToAnswer) = 13
    /\ StageNumber(ToJoin) = 14
    /\ StageNumber(ToSweep) = 15
    /\ StageNumber(ToLearnCases) = 16
    /\ StageNumber(ToEvaluateCases) = 17
    /\ StageNumber(ToProvideHistory) = 18
    /\ StageNumber(ToCustomers) = 19
    /\ StageNumber(ToFollow) = 20
    /\ StageNumber(ToFollowTrips) = 21
    /\ StageNumber(ToReadCustomers) = 22

LEMMA StagesAreNumbered == AreNumbered
<1>1. StageNumber(ToReadRide) = 1
  BY DEF StageNumber, ToReadRide
<1>2. StageNumber(ToReadRides) = 2
  BY DEF StageNumber, ToReadRides
<1>3. StageNumber(ToReadScenario) = 3
  BY DEF StageNumber, ToReadScenario
<1>4. StageNumber(ToReadTrips) = 4
  BY DEF StageNumber, ToReadTrips
<1>5. StageNumber(ToValidate) = 5
  BY DEF StageNumber, ToValidate
<1>6. StageNumber(ToCompare) = 6
  BY DEF StageNumber, ToCompare
<1>7. StageNumber(ToLearn) = 7
  BY DEF StageNumber, ToLearn
<1>8. StageNumber(ToSaveBase) = 8
  BY DEF StageNumber, ToSaveBase
<1>9. StageNumber(ToSavePersonalized) = 9
  BY DEF StageNumber, ToSavePersonalized
<1>10. StageNumber(ToLoadBase) = 10
  BY DEF StageNumber, ToLoadBase
<1>11. StageNumber(ToLoadPersonalized) = 11
  BY DEF StageNumber, ToLoadPersonalized
<1>12. StageNumber(ToEvaluate) = 12
  BY DEF StageNumber, ToEvaluate
<1>13. StageNumber(ToAnswer) = 13
  BY DEF StageNumber, ToAnswer
<1>14. StageNumber(ToJoin) = 14
  BY DEF StageNumber, ToJoin
<1>15. StageNumber(ToSweep) = 15
  BY DEF StageNumber, ToSweep
<1>16. StageNumber(ToLearnCases) = 16
  BY DEF StageNumber, ToLearnCases
<1>17. StageNumber(ToEvaluateCases) = 17
  BY DEF StageNumber, ToEvaluateCases
<1>18. StageNumber(ToProvideHistory) = 18
  BY DEF StageNumber, ToProvideHistory
<1>19. StageNumber(ToCustomers) = 19
  BY DEF StageNumber, ToCustomers
<1>20. StageNumber(ToFollow) = 20
  BY DEF StageNumber, ToFollow
<1>21. StageNumber(ToFollowTrips) = 21
  BY DEF StageNumber, ToFollowTrips
<1>22. StageNumber(ToReadCustomers) = 22
  BY DEF StageNumber, ToReadCustomers
<1> QED
  BY <1>1, <1>2, <1>3, <1>4, <1>5, <1>6, <1>7, <1>8, <1>9, <1>10, <1>11, <1>12, <1>13, <1>14, <1>15, <1>16, <1>17, <1>18, <1>19, <1>20, <1>21, <1>22 DEF AreNumbered

\* The stages that end a command, and those that use the rides of a file.
Ending == {ToValidate, ToCompare, ToSaveBase, ToSavePersonalized, ToEvaluate, ToAnswer,
           ToEvaluateCases, ToCustomers, ToFollow, ToFollowTrips}
UsingRides ==
    {ToCompare, ToLearn, ToEvaluate, ToSaveBase, ToSavePersonalized, ToJoin, ToEvaluateCases}

Preceded(stages, j, stage) == \E i \in 1 .. j - 1 : stages[i] = stage

\* Every command reads before it uses what it reads.
InOrderAt(name, stages, j) ==
    /\ stages[j] \in Ending <=> j = Len(stages)
    /\ stages[j] \in {ToValidate, ToAnswer} => Preceded(stages, j, ToReadRide)
    /\ stages[j] \in UsingRides => Preceded(stages, j, ToReadRides)
    /\ stages[j] = ToFollow => Preceded(stages, j, ToReadScenario)
    /\ stages[j] = ToFollowTrips => Preceded(stages, j, ToReadTrips)
    /\ stages[j] = ToCustomers <=> name = "compare-customer-personalization" /\ j = Len(stages)
    /\ stages[j] \in {ToReadRide, ToReadRides} => name # "compare-customer-personalization"
    /\ stages[j] \in {ToReadScenario, ToFollow} => name = "run-dynamic-ride"
    /\ stages[j] \in {ToReadTrips, ToFollowTrips} => name = "evaluate-dynamic-reoptimization"
    /\ stages[j] = ToLearn => name = "train-predictor"
    /\ stages[j] = ToSaveBase => j > 1 /\ stages[j - 1] = ToLearn
    /\ stages[j] = ToEvaluate => j > 1 /\ stages[j - 1] = ToLoadBase
    /\ stages[j] = ToCompare => name = "evaluate-baselines" \/ name \in Comparing
    /\ stages[j] = ToEvaluateCases => j > 1 /\ stages[j - 1] = ToSweep

LEMMA StagesAreInOrder ==
    ASSUME NEW name \in CommandNames
    PROVE  /\ Len(Stages(name)) \in Nat \ {0}
           /\ \A j \in 1 .. Len(Stages(name)) : InOrderAt(name, Stages(name), j)
<1> DEFINE Goal(s) == Len(s) \in Nat \ {0} /\ \A j \in 1 .. Len(s) : InOrderAt(name, s, j)
<1>1. CASE name = "validate-mobility"
  <2> DEFINE s == <<ToReadRide, ToValidate>>
  <2>1. Stages(name) = s
    BY <1>1 DEF Stages, Answering, Comparing, AnsweringPersonally, ToReadRide, ToValidate
  <2>2. /\ name = "compare-customer-personalization" <=> FALSE
        /\ name = "train-predictor" <=> FALSE
    BY <1>1 DEF Answering, Comparing, AnsweringPersonally
  <2>3. Goal(s)
    BY <1>1, <2>2, StagesAreNumbered DEF AreNumbered, InOrderAt, Preceded, Ending, UsingRides
  <2> HIDE DEF s
  <2> QED
    BY <2>1, <2>3
<1>2. CASE name = "evaluate-baselines"
  <2> DEFINE s == <<ToReadRides, ToCompare>>
  <2>1. Stages(name) = s
    BY <1>2 DEF Stages, Answering, Comparing, AnsweringPersonally, ToCompare, ToReadRides
  <2>2. /\ name = "compare-customer-personalization" <=> FALSE
        /\ name = "train-predictor" <=> FALSE
    BY <1>2 DEF Answering, Comparing, AnsweringPersonally
  <2>3. Goal(s)
    BY <1>2, <2>2, StagesAreNumbered DEF AreNumbered, InOrderAt, Preceded, Ending, UsingRides
  <2> HIDE DEF s
  <2> QED
    BY <2>1, <2>3
<1>3. CASE name = "train-predictor"
  <2> DEFINE s == <<ToReadRides, ToLearn, ToSaveBase>>
  <2>1. Stages(name) = s
    BY <1>3 DEF Stages, Answering, Comparing, AnsweringPersonally, ToLearn, ToReadRides, ToSaveBase
  <2>2. /\ name = "compare-customer-personalization" <=> FALSE
        /\ name = "train-predictor" <=> TRUE
    BY <1>3 DEF Answering, Comparing, AnsweringPersonally
  <2>3. Goal(s)
    BY <1>3, <2>2, StagesAreNumbered DEF AreNumbered, InOrderAt, Preceded, Ending, UsingRides
  <2> HIDE DEF s
  <2> QED
    BY <2>1, <2>3
<1>4. CASE name = "evaluate-predictor"
  <2> DEFINE s == <<ToReadRides, ToLoadBase, ToEvaluate>>
  <2>1. Stages(name) = s
    BY <1>4 DEF Stages, Answering, Comparing, AnsweringPersonally, ToEvaluate, ToLoadBase, ToReadRides
  <2>2. /\ name = "compare-customer-personalization" <=> FALSE
        /\ name = "train-predictor" <=> FALSE
    BY <1>4 DEF Answering, Comparing, AnsweringPersonally
  <2>3. Goal(s)
    BY <1>4, <2>2, StagesAreNumbered DEF AreNumbered, InOrderAt, Preceded, Ending, UsingRides
  <2> HIDE DEF s
  <2> QED
    BY <2>1, <2>3
<1>5. CASE name \in Answering
  <2> DEFINE s == <<ToLoadBase, ToReadRide, ToAnswer>>
  <2>1. Stages(name) = s
    BY <1>5 DEF Stages, Answering, Comparing, AnsweringPersonally, ToAnswer, ToLoadBase, ToReadRide
  <2>2. /\ name = "compare-customer-personalization" <=> FALSE
        /\ name = "train-predictor" <=> FALSE
    BY <1>5 DEF Answering, Comparing, AnsweringPersonally
  <2>3. Goal(s)
    BY <1>5, <2>2, StagesAreNumbered DEF AreNumbered, InOrderAt, Preceded, Ending, UsingRides
  <2> HIDE DEF s
  <2> QED
    BY <2>1, <2>3
<1>6. CASE name \in Comparing
  <2> DEFINE s == <<ToLoadBase, ToReadRides, ToCompare>>
  <2>1. Stages(name) = s
    BY <1>6 DEF Stages, Answering, Comparing, AnsweringPersonally, ToCompare, ToLoadBase, ToReadRides
  <2>2. /\ name = "compare-customer-personalization" <=> FALSE
        /\ name = "train-predictor" <=> FALSE
    BY <1>6 DEF Answering, Comparing, AnsweringPersonally
  <2>3. Goal(s)
    BY <1>6, <2>2, StagesAreNumbered DEF AreNumbered, InOrderAt, Preceded, Ending, UsingRides
  <2> HIDE DEF s
  <2> QED
    BY <2>1, <2>3
<1>7. CASE name = "train-personalized-predictor"
  <2> DEFINE s == <<ToReadRides, ToLoadBase, ToJoin, ToSweep, ToLearnCases, ToSavePersonalized>>
  <2>1. Stages(name) = s
    BY <1>7 DEF Stages, Answering, Comparing, AnsweringPersonally, ToJoin, ToLearnCases, ToLoadBase, ToReadRides, ToSavePersonalized, ToSweep
  <2>2. /\ name = "compare-customer-personalization" <=> FALSE
        /\ name = "train-predictor" <=> FALSE
    BY <1>7 DEF Answering, Comparing, AnsweringPersonally
  <2>3. Goal(s)
    BY <1>7, <2>2, StagesAreNumbered DEF AreNumbered, InOrderAt, Preceded, Ending, UsingRides
  <2> HIDE DEF s
  <2> QED
    BY <2>1, <2>3
<1>8. CASE name = "evaluate-personalization"
  <2> DEFINE s == <<ToReadRides, ToLoadPersonalized, ToLoadBase, ToJoin, ToSweep, ToEvaluateCases>>
  <2>1. Stages(name) = s
    BY <1>8 DEF Stages, Answering, Comparing, AnsweringPersonally, ToEvaluateCases, ToJoin, ToLoadBase, ToLoadPersonalized, ToReadRides, ToSweep
  <2>2. /\ name = "compare-customer-personalization" <=> FALSE
        /\ name = "train-predictor" <=> FALSE
    BY <1>8 DEF Answering, Comparing, AnsweringPersonally
  <2>3. Goal(s)
    BY <1>8, <2>2, StagesAreNumbered DEF AreNumbered, InOrderAt, Preceded, Ending, UsingRides
  <2> HIDE DEF s
  <2> QED
    BY <2>1, <2>3
<1>9. CASE name \in AnsweringPersonally
  <2> DEFINE s == <<ToLoadPersonalized, ToLoadBase, ToReadRides, ToProvideHistory, ToReadRide, ToAnswer>>
  <2>1. Stages(name) = s
    BY <1>9 DEF Stages, Answering, Comparing, AnsweringPersonally, ToAnswer, ToLoadBase, ToLoadPersonalized, ToProvideHistory, ToReadRide, ToReadRides
  <2>2. /\ name = "compare-customer-personalization" <=> FALSE
        /\ name = "train-predictor" <=> FALSE
    BY <1>9 DEF Answering, Comparing, AnsweringPersonally
  <2>3. Goal(s)
    BY <1>9, <2>2, StagesAreNumbered DEF AreNumbered, InOrderAt, Preceded, Ending, UsingRides
  <2> HIDE DEF s
  <2> QED
    BY <2>1, <2>3
<1>10. CASE name = "compare-customer-personalization"
  <2> DEFINE s == <<ToLoadPersonalized, ToLoadBase, ToReadCustomers, ToCustomers>>
  <2>1. Stages(name) = s
    BY <1>10 DEF Stages, Answering, Comparing, AnsweringPersonally, ToCustomers, ToReadCustomers, ToLoadBase, ToLoadPersonalized
  <2>2. /\ name = "compare-customer-personalization" <=> TRUE
        /\ name = "train-predictor" <=> FALSE
    BY <1>10 DEF Answering, Comparing, AnsweringPersonally
  <2>3. Goal(s)
    BY <1>10, <2>2, StagesAreNumbered DEF AreNumbered, InOrderAt, Preceded, Ending, UsingRides
  <2> HIDE DEF s
  <2> QED
    BY <2>1, <2>3
<1>11. CASE name = "run-dynamic-ride"
  <2> DEFINE s == <<ToReadScenario, ToLoadPersonalized, ToLoadBase, ToProvideHistory, ToFollow>>
  <2>1. Stages(name) = s
    BY <1>11 DEF Stages, Answering, Comparing, AnsweringPersonally, ToFollow, ToLoadBase, ToLoadPersonalized, ToProvideHistory, ToReadScenario
  <2>2. /\ name = "compare-customer-personalization" <=> FALSE
        /\ name = "train-predictor" <=> FALSE
    BY <1>11 DEF Answering, Comparing, AnsweringPersonally
  <2>3. Goal(s)
    BY <1>11, <2>2, StagesAreNumbered DEF AreNumbered, InOrderAt, Preceded, Ending, UsingRides
  <2> HIDE DEF s
  <2> QED
    BY <2>1, <2>3
<1>12. CASE name = "evaluate-dynamic-reoptimization"
  <2> DEFINE s == <<ToReadTrips, ToLoadPersonalized, ToLoadBase, ToProvideHistory, ToFollowTrips>>
  <2>1. Stages(name) = s
    BY <1>12 DEF Stages, Answering, Comparing, AnsweringPersonally, ToFollowTrips, ToLoadBase, ToLoadPersonalized, ToProvideHistory, ToReadTrips
  <2>2. /\ name = "compare-customer-personalization" <=> FALSE
        /\ name = "train-predictor" <=> FALSE
    BY <1>12 DEF Answering, Comparing, AnsweringPersonally
  <2>3. Goal(s)
    BY <1>12, <2>2, StagesAreNumbered DEF AreNumbered, InOrderAt, Preceded, Ending, UsingRides
  <2> HIDE DEF s
  <2> QED
    BY <2>1, <2>3
<1> QED
  BY <1>1, <1>2, <1>3, <1>4, <1>5, <1>6, <1>7, <1>8, <1>9, <1>10, <1>11, <1>12 DEF CommandNames

-----------------------------------------------------------------------------
(* What is known of a desk.                                                *)

DeskFields ==
    {"status", "command", "at", "base", "personalized", "sweep", "lesson", "answers", "report"}

StageOf(d) == Stages(d.command.name)[d.at]

\* What a command has seen of its files once it is past a stage.
Passed(command, stage) ==
    /\ stage = ToReadRide => ContextFaults(command) = {}
    /\ stage = ToReadRides => DatasetFaults(command.file) = {}
    /\ stage = ToReadScenario => ScenarioFaults(command.trip, command.file) = {}
    /\ stage = ToReadTrips => TripsFaults(command.file) = {}

IsClean(customer) ==
    /\ customer.shape = "object"
    /\ TransactionFaults(customer.ride, customer.unknown) = {} /\ DatasetFaults(customer.file) = {}

IsUnderWay(d) ==
    /\ DOMAIN d = DeskFields
    /\ IsCommand(d.command)
    /\ d.at \in 1 .. Len(Stages(d.command.name))
    /\ \A j \in 1 .. d.at - 1 : Passed(d.command, Stages(d.command.name)[j])
    /\ \E S : d.answers \in Seq(S)
    /\ Len(d.answers) <= Len(d.command.customers)
    /\ \A i \in 1 .. Len(d.answers) : IsClean(d.command.customers[i])

DeskInOrder(d) ==
    /\ d.status \in {"prompt", "running", "done", "refused"}
    /\ d.status = "running" => IsUnderWay(d)
    /\ d.status \in {"done", "refused"} => FaultsAreTold(d)

\* A job with an artifact is that of the stage its command is at.
StageOfJob(job) == IF job.doing = "save" THEN SavesTo(job.kind) ELSE LoadsFrom(job.kind)
JobFits(job, d) == job # NoJob => d.status = "running" /\ StageOf(d) = StageOfJob(job)

\* Commands still to be typed.
AreLeft(commands) ==
    (\E S : commands \in Seq(S)) /\ \A i \in DOMAIN commands : IsCommand(commands[i])

CommandsInOrder ==
    /\ DOMAIN desk = Processes
    /\ DOMAIN typed = Processes
    /\ \A p \in Processes : AreLeft(typed[p])
    /\ \A p \in Processes : DeskInOrder(desk[p]) /\ JobFits(jobs[p], desk[p])

-----------------------------------------------------------------------------
(* What a command knows at each of its stages.                             *)

\* A command that has read is past the stage of reading.
LEMMA PassedBefore ==
    ASSUME NEW d, IsUnderWay(d), NEW stage, Preceded(Stages(d.command.name), d.at, stage)
    PROVE  Passed(d.command, stage)
BY DEF IsUnderWay, Preceded

LEMMA CommandParts ==
    ASSUME NEW command, IsCommand(command)
    PROVE  /\ command.name \in CommandNames
           /\ Len(command.customers) \in Nat
           /\ DOMAIN command.customers = 1 .. Len(command.customers)
           /\ \A i \in DOMAIN command.customers :
                AreParsed(command.customers[i].ride, TransactionFields)
                /\ IsParsedFile(command.customers[i].file)
<1>1. PICK customers : customers = command.customers
  OBVIOUS
<1>2. customers \in Seq(Range(customers))
  BY <1>1 DEF IsCommand
<1>3. Len(customers) \in Nat /\ DOMAIN customers = 1 .. Len(customers)
  BY <1>2
<1>4. command.name \in CommandNames
  BY DEF IsCommand
<1>5. \A i \in DOMAIN command.customers :
        AreParsed(command.customers[i].ride, TransactionFields) /\ IsParsedFile(command.customers[i].file)
  BY DEF IsCommand
<1> QED
  BY <1>1, <1>3, <1>4, <1>5

LEMMA UnderWayStage ==
    ASSUME NEW d, IsUnderWay(d)
    PROVE  /\ InOrderAt(d.command.name, Stages(d.command.name), d.at)
           /\ Len(Stages(d.command.name)) \in Nat \ {0}
           /\ d.at \in Int
<1>1. d.command.name \in CommandNames
  BY DEF IsUnderWay, IsCommand
<1> QED
  BY <1>1, StagesAreInOrder DEF IsUnderWay

LEMMA RideIsAccepted ==
    ASSUME NEW d, IsUnderWay(d), StageOf(d) \in {ToValidate, ToAnswer}
    PROVE  IsAcceptedRide(d.command.ride, d.command.unknown)
<1>1. Passed(d.command, ToReadRide)
  BY UnderWayStage, PassedBefore DEF InOrderAt, StageOf
<1>2. TransactionFaults(d.command.ride, d.command.unknown) = {}
  BY <1>1 DEF Passed, ContextFaults, Fault
<1> QED
  BY <1>2, AcceptedTransactions DEF IsUnderWay, IsCommand, IsAcceptedRide

LEMMA RidesAreAccepted ==
    ASSUME NEW d, IsUnderWay(d), StageOf(d) \in UsingRides
    PROVE  \A i \in DOMAIN d.command.file.records : IsRecord(d.command.file.records[i])
<1>1. Passed(d.command, ToReadRides)
  BY UnderWayStage, PassedBefore DEF InOrderAt, StageOf
<1>2. DatasetFaults(d.command.file) = {}
  BY <1>1 DEF Passed
<1> QED
  BY <1>2, AcceptedFiles DEF IsUnderWay, IsCommand

LEMMA TripIsAccepted ==
    ASSUME NEW d, IsUnderWay(d), StageOf(d) = ToFollow
    PROVE  IsTrip(d.command.trip)
<1>1. Passed(d.command, ToReadScenario) /\ d.command.name = "run-dynamic-ride"
  BY UnderWayStage, PassedBefore DEF InOrderAt, StageOf
<1>2. ScenarioFaults(d.command.trip, d.command.file) = {}
  BY <1>1 DEF Passed
<1> QED
  BY <1>1, <1>2, AcceptedScenarios DEF IsUnderWay, IsCommand

LEMMA TripsAreAccepted ==
    ASSUME NEW d, IsUnderWay(d), StageOf(d) = ToFollowTrips
    PROVE  \A i \in DOMAIN d.command.file.records : IsTrip(d.command.file.records[i])
<1>1. Passed(d.command, ToReadTrips) /\ d.command.name = "evaluate-dynamic-reoptimization"
  BY UnderWayStage, PassedBefore DEF InOrderAt, StageOf
<1>2. TripsFaults(d.command.file) = {}
  BY <1>1 DEF Passed
<1>3. IsParsedFile(d.command.file)
  BY DEF IsUnderWay, IsCommand
<1>4. DOMAIN d.command.file.records \subseteq Nat
  BY <1>3, RecordsOf
<1> QED
  BY <1>1, <1>2, <1>4, AcceptedTripFiles DEF IsUnderWay, IsCommand

LEMMA TripIsParsed ==
    ASSUME NEW d, IsUnderWay(d), StageOf(d) = ToFollow
    PROVE  IsParsedTrip(d.command.trip)
<1>1. d.command.name = "run-dynamic-ride"
  BY UnderWayStage, PassedBefore DEF InOrderAt, StageOf
<1> QED
  BY <1>1 DEF IsUnderWay, IsCommand

LEMMA TripsAreParsed ==
    ASSUME NEW d, IsUnderWay(d), StageOf(d) = ToFollowTrips
    PROVE  \E n \in Nat : AreAccepted(d.command.file.records, n)
<1>1. d.command.name = "evaluate-dynamic-reoptimization"
  BY UnderWayStage, PassedBefore DEF InOrderAt, StageOf
<1>2. \A i \in DOMAIN d.command.file.records : IsParsedTrip(d.command.file.records[i])
  BY <1>1 DEF IsUnderWay, IsCommand
<1>3. \A i \in DOMAIN d.command.file.records : IsTrip(d.command.file.records[i])
  BY TripsAreAccepted
<1>4. PICK records : records = d.command.file.records
  OBVIOUS
<1>5. records \in Seq({records[i] : i \in DOMAIN records})
  BY <1>4 DEF IsUnderWay, IsCommand, IsParsedFile
<1>6. Len(records) \in Nat /\ DOMAIN records = 1 .. Len(records)
  BY <1>5
<1>7. AreAccepted(records, Len(records))
  BY <1>2, <1>3, <1>4, <1>6 DEF AreAccepted
<1> QED
  BY <1>4, <1>6, <1>7

LEMMA CleanIsAccepted ==
    ASSUME NEW command, IsCommand(command), NEW i \in DOMAIN command.customers,
           IsClean(command.customers[i])
    PROVE  IsAccepted(command.customers[i])
BY AcceptedTransactions, AcceptedFiles DEF IsCommand, IsClean, IsAccepted, IsAcceptedRide

-----------------------------------------------------------------------------
(* Going on, and ending.                                                    *)

LEMMA NextStage ==
    ASSUME NEW d, IsUnderWay(d), StageOf(d) \notin Ending, Passed(d.command, StageOf(d)),
           NEW e, DOMAIN e = DeskFields, e.command = d.command, e.answers = d.answers, e.at = d.at + 1
    PROVE  IsUnderWay(e)
<1> DEFINE stages == Stages(d.command.name)
<1>1. d.at \in 1 .. Len(stages) /\ Len(stages) \in Nat \ {0} /\ d.at # Len(stages)
  BY UnderWayStage DEF InOrderAt, StageOf, IsUnderWay
<1>2. e.at \in 1 .. Len(stages) /\ e.at - 1 = d.at
  BY <1>1
<1>3. \A j \in 1 .. e.at - 1 : j \in 1 .. d.at - 1 \/ j = d.at
  BY <1>1, <1>2
<1>4. \A j \in 1 .. e.at - 1 : Passed(d.command, stages[j])
  BY <1>3 DEF IsUnderWay, StageOf
<1> QED
  BY <1>2, <1>4 DEF IsUnderWay

\* A customer is looked at only while there is one.
HasLookedAt(d) == ComparesCustomers(d) => Len(d.answers) < Len(d.command.customers)

LEMMA LookedAtIsParsed ==
    ASSUME NEW d, IsUnderWay(d), HasLookedAt(d)
    PROVE  AreParsed(LookedAt(d).ride, TransactionFields) /\ IsParsedFile(LookedAt(d).file)
<1>1. IsCommand(d.command)
  BY DEF IsUnderWay
<1>2. CASE ~ComparesCustomers(d)
  BY <1>1, <1>2 DEF LookedAt, IsCommand
<1>3. CASE ComparesCustomers(d)
  <2>1. /\ Len(d.answers) \in Nat /\ Len(d.command.customers) \in Nat
        /\ DOMAIN d.command.customers = 1 .. Len(d.command.customers)
    BY <1>1, CommandParts DEF IsUnderWay
  <2>2. Len(d.answers) + 1 \in DOMAIN d.command.customers
    BY <1>3, <2>1 DEF HasLookedAt
  <2> QED
    BY <1>1, <1>3, <2>2, CommandParts DEF LookedAt
<1> QED
  BY <1>2, <1>3

\* What is at fault with the ride looked at.
RideFaults(d) ==
    IF ComparesCustomers(d) THEN TransactionFaults(LookedAt(d).ride, LookedAt(d).unknown)
    ELSE ContextFaults(d.command)

LEMMA RidesAreTold ==
    ASSUME NEW d, IsUnderWay(d), HasLookedAt(d)
    PROVE  FieldsOf(RideFaults(d)) = FaultyInRide(d)
<1>1. PICK ride, unknown : ride = LookedAt(d).ride /\ unknown = LookedAt(d).unknown
  OBVIOUS
<1>2. AreParsed(ride, TransactionFields)
  BY <1>1, LookedAtIsParsed
<1>3. FieldsOf(TransactionFaults(ride, unknown))
        = IF ~IsObject(ride) THEN {"$"} ELSE Faulty(ride, AcceptedRide) \cup unknown
  <2>1. CASE IsObject(ride)
    BY <1>2, <2>1, TransactionsAreTold
  <2>2. CASE ~IsObject(ride)
    <3>1. TransactionFaults(ride, unknown) = Fault("$", "invalid_type")
      BY <2>2 DEF TransactionFaults
    <3> QED
      BY <2>2, <3>1, FieldsOfFault
  <2> QED
    BY <2>1, <2>2
<1>4. CASE ~ComparesCustomers(d) /\ d.command.content = "no json"
  <2>1. RideFaults(d) = Fault("$", "invalid_json")
    BY <1>4 DEF RideFaults, ContextFaults
  <2> QED
    BY <1>4, <2>1, FieldsOfFault DEF FaultyInRide
<1>5. CASE ~(~ComparesCustomers(d) /\ d.command.content = "no json")
  <2>1. RideFaults(d) = TransactionFaults(ride, unknown)
    BY <1>1, <1>5 DEF RideFaults, ContextFaults, LookedAt
  <2> QED
    BY <1>1, <1>3, <1>5, <2>1 DEF FaultyInRide
<1> QED
  BY <1>4, <1>5

\* The end of a command, by what it reports.
IsJustified(d, report) ==
    /\ report.kind = "valid" => StageOf(d) = ToValidate
    /\ report.kind = "answer" =>
        \/ StageOf(d) = ToAnswer
        \/ /\ StageOf(d) = ToCustomers
           /\ Len(d.answers) < Len(d.command.customers)
           /\ IsClean(d.command.customers[Len(d.answers) + 1])
    /\ report.kind = "customers" => Len(d.answers) = Len(d.command.customers)
    /\ report.kind = "context" => HasLookedAt(d) /\ report.faults = RideFaults(d)
    /\ report.kind = "file" => HasLookedAt(d) /\ report.faults = DatasetFaults(LookedAt(d).file)
    /\ report.kind \in {"comparison", "predictor", "personalization", "trained"} =>
        StageOf(d) \in UsingRides
    /\ report.kind = "ride" => StageOf(d) = ToFollow
    /\ report.kind = "rides" => StageOf(d) = ToFollowTrips

LEMMA JustifiedIsTold ==
    ASSUME NEW d, IsUnderWay(d), NEW report, IsJustified(d, report),
           NEW e, e.command = d.command, e.answers = d.answers, e.report = report
    PROVE  FaultsAreTold(e)
<1> DEFINE command == d.command
           ofCustomers == ComparesCustomers(d)
<1>1. IsCommand(command)
  BY DEF IsUnderWay
<1>2. /\ StageOf(d) \in {ToValidate, ToAnswer} => IsAcceptedRide(command.ride, command.unknown)
      /\ StageOf(d) \in UsingRides => \A i \in DOMAIN command.file.records : IsRecord(command.file.records[i])
      /\ StageOf(d) = ToFollow => IsTrip(command.trip)
      /\ StageOf(d) = ToFollowTrips => \A i \in DOMAIN command.file.records : IsTrip(command.file.records[i])
  BY RideIsAccepted, RidesAreAccepted, TripIsAccepted, TripsAreAccepted
<1>3. ToAnswer # ToCustomers
  BY StagesAreNumbered DEF AreNumbered
<1>4. report.kind = "answer" /\ ofCustomers =>
        \A i \in 1 .. Len(d.answers) + 1 : IsAccepted(command.customers[i])
  <2> SUFFICES ASSUME report.kind = "answer", ofCustomers, NEW i \in 1 .. Len(d.answers) + 1
               PROVE  IsAccepted(command.customers[i])
    OBVIOUS
  <2>1. StageOf(d) = ToCustomers
    <3>1. ToAnswer \in Ending
      BY DEF Ending
    <3>2. InOrderAt(command.name, Stages(command.name), d.at)
      BY UnderWayStage
    <3> QED
      BY <3>1, <3>2 DEF IsJustified, InOrderAt, StageOf, ComparesCustomers
  <2>2. /\ Len(d.answers) \in Nat /\ Len(command.customers) \in Nat
        /\ DOMAIN command.customers = 1 .. Len(command.customers)
    BY <1>1, CommandParts DEF IsUnderWay
  <2>3. /\ Len(d.answers) < Len(command.customers)
        /\ IsClean(command.customers[Len(d.answers) + 1])
    BY <1>3, <2>1 DEF IsJustified
  <2>4. i \in DOMAIN command.customers /\ (i \in 1 .. Len(d.answers) \/ i = Len(d.answers) + 1)
    BY <2>2, <2>3
  <2>5. IsClean(command.customers[i])
    BY <2>3, <2>4 DEF IsUnderWay
  <2> QED
    BY <1>1, <2>4, <2>5, CleanIsAccepted
<1>5. report.kind = "customers" => \A i \in DOMAIN command.customers : IsAccepted(command.customers[i])
  <2> SUFFICES ASSUME report.kind = "customers", NEW i \in DOMAIN command.customers
               PROVE  IsAccepted(command.customers[i])
    OBVIOUS
  <2>1. i \in 1 .. Len(d.answers)
    BY <1>1, CommandParts DEF IsJustified
  <2>2. IsClean(command.customers[i])
    BY <2>1 DEF IsUnderWay
  <2> QED
    BY <1>1, <2>2, CleanIsAccepted
<1>6. report.kind \in {"valid", "answer"} /\ ~ofCustomers => IsAcceptedRide(command.ride, command.unknown)
  BY <1>2, UnderWayStage DEF IsJustified, InOrderAt, StageOf, ComparesCustomers
<1>7. report.kind = "context" => {fault[1] : fault \in report.faults} = FaultyInRide(d)
  BY RidesAreTold DEF IsJustified, FieldsOf
<1>8. report.kind = "file" =>
        {<<fault[1], <<fault[2][1], fault[2][2][1]>>>> : fault \in report.faults} = FaultyInFile(LookedAt(d).file)
  BY LookedAtIsParsed, FilesAreTold DEF IsJustified, DeepPlacesOf
<1>9. /\ report.kind \in {"comparison", "predictor", "personalization", "trained"} =>
            \A i \in DOMAIN command.file.records : IsRecord(command.file.records[i])
      /\ report.kind = "ride" => IsTrip(command.trip)
      /\ report.kind = "rides" => \A i \in DOMAIN command.file.records : IsTrip(command.file.records[i])
  BY <1>2 DEF IsJustified
<1>10. ComparesCustomers(e) = ofCustomers /\ LookedAt(e) = LookedAt(d) /\ FaultyInRide(e) = FaultyInRide(d)
  BY DEF ComparesCustomers, LookedAt, FaultyInRide
<1> HIDE DEF ofCustomers
<1> QED
  BY <1>4, <1>5, <1>6, <1>7, <1>8, <1>9, <1>10 DEF FaultsAreTold

-----------------------------------------------------------------------------
(* The steps of a command.                                                  *)

\* A step of p that leaves p's desk and job fitting each other keeps all in order.
LEMMA DeskStep ==
    ASSUME CommandsInOrder, NEW p \in Processes, NEW d, desk' = [desk EXCEPT ![p] = d],
           DeskInOrder(d), UNCHANGED typed, JobFits(jobs'[p], d),
           \A q \in Processes \ {p} : jobs'[q] = jobs[q]
    PROVE  CommandsInOrder'
<1>1. DOMAIN desk' = Processes /\ desk'[p] = d /\ \A q \in Processes \ {p} : desk'[q] = desk[q]
  BY DEF CommandsInOrder
<1>2. \A q \in Processes : DeskInOrder(desk'[q]) /\ JobFits(jobs'[q], desk'[q])
  BY <1>1 DEF CommandsInOrder
<1> QED
  BY <1>1, <1>2 DEF CommandsInOrder

ArtifactStages == {ToLoadBase, ToLoadPersonalized, ToSaveBase, ToSavePersonalized}

LEMMA StagesOfArtifacts ==
    ASSUME NEW k \in Kinds
    PROVE  /\ SavesTo(k) \in {ToSaveBase, ToSavePersonalized}
           /\ LoadsFrom(k) \in {ToLoadBase, ToLoadPersonalized}
           /\ SavesTo(k) \in UsingRides
           /\ LoadsFrom(k) \notin Ending
           /\ \A stage : Passed(stage, LoadsFrom(k))
<1>1. SavesTo(k) \in {ToSaveBase, ToSavePersonalized} /\ LoadsFrom(k) \in {ToLoadBase, ToLoadPersonalized}
  BY DEF SavesTo, LoadsFrom, ToSaveBase, ToSavePersonalized, ToLoadBase, ToLoadPersonalized
<1> QED
  BY <1>1, StagesAreNumbered DEF AreNumbered, UsingRides, Ending, Passed

LEMMA AtStage ==
    ASSUME CommandsInOrder, Typed, NEW p \in Processes, NEW stage, In(p, stage)
    PROVE  /\ IsUnderWay(desk[p]) /\ StageOf(desk[p]) = stage /\ desk[p].status = "running"
           /\ stage \notin ArtifactStages => jobs[p] = NoJob
<1>1. IsUnderWay(desk[p]) /\ StageOf(desk[p]) = stage /\ desk[p].status = "running"
  BY DEF In, Running, StageAt, StageOf, Command, CommandsInOrder, DeskInOrder
<1>2. ASSUME jobs[p] # NoJob PROVE jobs[p].kind \in Kinds
  <2>1. jobs[p] \in SaveJobs \cup LoadJobs \cup FailedJobs
    BY <1>2 DEF Typed, Jobs, OtherJobs
  <2> QED
    BY <2>1 DEF SaveJobs, LoadJobs, FailedJobs
<1>3. jobs[p] # NoJob => stage \in ArtifactStages
  BY <1>1, <1>2, StagesOfArtifacts DEF CommandsInOrder, JobFits, StageOfJob, ArtifactStages
<1> QED
  BY <1>1, <1>3

\* A stage that is passed.
LEMMA GoesOn ==
    ASSUME CommandsInOrder, Typed, NEW p \in Processes, NEW stage, In(p, stage),
           stage \notin ArtifactStages, stage \notin Ending, Passed(Command(p), stage), Elsewhere,
           NEW d, desk' = [desk EXCEPT ![p] = d], DOMAIN d = DOMAIN desk[p], d.status = desk[p].status,
           d.command = desk[p].command, d.answers = desk[p].answers, d.at = desk[p].at + 1
    PROVE  CommandsInOrder'
<1>1. IsUnderWay(desk[p]) /\ StageOf(desk[p]) = stage /\ desk[p].status = "running" /\ jobs[p] = NoJob
  BY AtStage
<1>2. IsUnderWay(d)
  BY <1>1, NextStage DEF Command, IsUnderWay
<1>3. DeskInOrder(d) /\ JobFits(jobs'[p], d)
  BY <1>1, <1>2 DEF DeskInOrder, JobFits, Elsewhere
<1> QED
  BY <1>3, DeskStep DEF Elsewhere

\* A stage that goes on.
LEMMA StaysOn ==
    ASSUME CommandsInOrder, Typed, NEW p \in Processes, NEW stage, In(p, stage),
           stage \notin ArtifactStages, Elsewhere,
           NEW d, desk' = [desk EXCEPT ![p] = d], DOMAIN d = DOMAIN desk[p], d.status = desk[p].status,
           d.command = desk[p].command, d.answers = desk[p].answers, d.at = desk[p].at
    PROVE  CommandsInOrder'
<1>1. IsUnderWay(desk[p]) /\ StageOf(desk[p]) = stage /\ desk[p].status = "running" /\ jobs[p] = NoJob
  BY AtStage
<1>2. IsUnderWay(d)
  BY <1>1 DEF IsUnderWay
<1>3. DeskInOrder(d) /\ JobFits(jobs'[p], d)
  BY <1>1, <1>2 DEF DeskInOrder, JobFits, Elsewhere
<1> QED
  BY <1>3, DeskStep DEF Elsewhere

\* A command that ends with a report.
LEMMA Ends ==
    ASSUME CommandsInOrder, NEW p \in Processes, IsUnderWay(desk[p]),
           NEW report, Report(p, report) \/ Refuse(p, report), IsJustified(desk[p], report),
           UNCHANGED typed, jobs'[p] = NoJob, \A q \in Processes \ {p} : jobs'[q] = jobs[q]
    PROVE  CommandsInOrder'
<1>1. DOMAIN desk = Processes /\ DOMAIN desk[p] = DeskFields
  BY DEF CommandsInOrder, IsUnderWay
<1>2. PICK d : /\ desk' = [desk EXCEPT ![p] = d] /\ d.status \in {"done", "refused"}
               /\ d.command = desk[p].command /\ d.answers = desk[p].answers /\ d.report = report
  <2>1. CASE Report(p, report)
    <3> DEFINE d == [desk[p] EXCEPT !.status = "done", !.report = report]
    <3>1. desk' = [desk EXCEPT ![p] = d]
      BY <1>1, <2>1 DEF Report
    <3>2. d.status = "done" /\ d.command = desk[p].command /\ d.answers = desk[p].answers /\ d.report = report
      BY <1>1 DEF DeskFields
    <3> QED
      BY <3>1, <3>2
  <2>2. CASE Refuse(p, report)
    <3> DEFINE d == [desk[p] EXCEPT !.status = "refused", !.report = report]
    <3>1. desk' = [desk EXCEPT ![p] = d]
      BY <1>1, <2>2 DEF Refuse
    <3>2. d.status = "refused" /\ d.command = desk[p].command /\ d.answers = desk[p].answers /\ d.report = report
      BY <1>1 DEF DeskFields
    <3> QED
      BY <3>1, <3>2
  <2> QED
    BY <2>1, <2>2
<1>3. FaultsAreTold(d)
  BY <1>2, JustifiedIsTold
<1>4. DeskInOrder(d) /\ JobFits(jobs'[p], d)
  BY <1>2, <1>3 DEF DeskInOrder, JobFits
<1> QED
  BY <1>2, <1>4, DeskStep

LEMMA EndsAt ==
    ASSUME CommandsInOrder, Typed, NEW p \in Processes, NEW stage, In(p, stage),
           stage \notin ArtifactStages, Elsewhere,
           NEW report, Report(p, report) \/ Refuse(p, report), IsJustified(desk[p], report)
    PROVE  CommandsInOrder'
<1>1. IsUnderWay(desk[p]) /\ jobs[p] = NoJob
  BY AtStage
<1> QED
  BY <1>1, Ends DEF Elsewhere

\* What neither uses nor refuses a file is always justified.
OtherReports ==
    {"none", "join", "malformed", "too few rides", "no artifact", "killed", "no customer",
     "no customers", "scenario", "trips",
     "stopped", "out of range", "no block", "no eligible rides"}

LEMMA OthersAreJustified ==
    ASSUME NEW d, NEW report, report.kind \in OtherReports
    PROVE  IsJustified(d, report)
BY DEF OtherReports, IsJustified

\* The next stage, by the action of that name.
LEMMA Advances ==
    ASSUME CommandsInOrder, Typed, NEW p \in Processes, NEW stage, In(p, stage),
           stage \notin ArtifactStages, stage \notin Ending, Passed(Command(p), stage), Elsewhere,
           Advance(p)
    PROVE  CommandsInOrder'
<1> DEFINE d == [desk[p] EXCEPT !.at = @ + 1]
<1>1. DOMAIN desk = Processes /\ DOMAIN desk[p] = DeskFields
  BY AtStage DEF CommandsInOrder, IsUnderWay
<1>2. desk' = [desk EXCEPT ![p] = d]
  BY <1>1 DEF Advance
<1>3. /\ DOMAIN d = DOMAIN desk[p] /\ d.status = desk[p].status /\ d.command = desk[p].command
      /\ d.answers = desk[p].answers /\ d.at = desk[p].at + 1
  BY <1>1 DEF DeskFields
<1> HIDE DEF d
<1> QED
  BY <1>2, <1>3, GoesOn

-----------------------------------------------------------------------------
(* The actions, one by one.                                                 *)

\* What is reported, told by its kind alone.
LEMMA FaultsKind ==
    ASSUME NEW kind, NEW faults
    PROVE  Faults(kind, faults).kind = kind /\ Faults(kind, faults).faults = faults
BY DEF Faults

LEMMA AnswerKind ==
    ASSUME NEW ride, NEW history, NEW raw, NEW step, NEW asked
    PROVE  AnswerTo(ride, history, raw, step, asked).kind = "answer"
BY DEF AnswerTo

LEMMA PredictorKind ==
    ASSUME NEW p, NEW raws, NEW baseline
    PROVE  PredictorReport(p, raws, baseline).kind = "predictor"
BY DEF PredictorReport

LEMMA ComparisonKind ==
    ASSUME NEW compared, NEW rides, NEW raws, NEW step
    PROVE  ComparisonReport(compared, rides, raws, step).kind \in {"no block", "out of range", "comparison"}
BY DEF ComparisonReport

LEMMA TripsKind ==
    ASSUME NEW trips, NEW sessions
    PROVE  TripsReport(trips, sessions).kind \in {"stopped", "out of range", "rides"}
BY DEF TripsReport

LEMMA CasesKind ==
    ASSUME NEW p, NEW test, NEW base, NEW personal
    PROVE  CasesReport(p, test, base, personal).kind = "personalization"
BY DEF CasesReport

LEMMA CommandsLeft ==
    ASSUME NEW S, NEW commands \in Seq(S), commands # <<>>,
           \A i \in DOMAIN commands : IsCommand(commands[i])
    PROVE  AreLeft(Tail(commands))
<1>1. /\ Tail(commands) \in Seq(S)
      /\ \A i \in DOMAIN Tail(commands) : i + 1 \in DOMAIN commands /\ Tail(commands)[i] = commands[i + 1]
  OBVIOUS
<1> QED
  BY <1>1 DEF AreLeft

LEMMA TypeKeepsOrder ==
    ASSUME CommandsInOrder, Typed, NEW p \in Processes, Type(p)
    PROVE  CommandsInOrder'
<1> DEFINE d == Started(Head(typed[p]))
<1>1. typed[p] # <<>> /\ AreLeft(typed[p]) /\ jobs' = jobs /\ desk' = [desk EXCEPT ![p] = d]
  BY DEF Type, CommandsInOrder
<1>2. PICK S : typed[p] \in Seq(S)
  BY <1>1 DEF AreLeft
<1>3. IsCommand(Head(typed[p]))
  BY <1>1, <1>2 DEF AreLeft
<1>4. AreLeft(Tail(typed[p]))
  <2>1. \A i \in DOMAIN typed[p] : IsCommand(typed[p][i])
    BY <1>1 DEF AreLeft
  <2> QED
    BY <1>1, <1>2, <2>1, CommandsLeft
<1>5. jobs[p] = NoJob
  BY DEF Type, Running, CommandsInOrder, JobFits
<1>6. IsUnderWay(d)
  <2>1. /\ DOMAIN d = DeskFields /\ d.command = Head(typed[p]) /\ d.at = 1 /\ d.answers = <<>>
    BY DEF Started, DeskFields
  <2> HIDE DEF d
  <2>2. 1 \in 1 .. Len(Stages(d.command.name))
    BY <1>3, <2>1, StagesAreInOrder, CommandParts
  <2>3. Len(d.answers) = 0 /\ d.answers \in Seq({})
    BY <2>1
  <2>4. Len(d.command.customers) \in Nat
    BY <1>3, <2>1, CommandParts
  <2> QED
    BY <1>3, <2>1, <2>2, <2>3, <2>4 DEF IsUnderWay
<1>7. d.status = "running"
  BY DEF Started
<1> HIDE DEF d
<1>8. DOMAIN desk' = Processes /\ desk'[p] = d /\ \A q \in Processes \ {p} : desk'[q] = desk[q]
  BY <1>1 DEF CommandsInOrder
<1>9. /\ DOMAIN typed' = Processes
      /\ \A q \in Processes : AreLeft(typed'[q])
  BY <1>4 DEF Type, CommandsInOrder
<1>10. \A q \in Processes : DeskInOrder(desk'[q]) /\ JobFits(jobs'[q], desk'[q])
  BY <1>1, <1>5, <1>6, <1>7, <1>8 DEF CommandsInOrder, DeskInOrder, JobFits
<1> QED
  BY <1>8, <1>9, <1>10 DEF CommandsInOrder

LEMMA NoCustomersWhileReading ==
    ASSUME CommandsInOrder, Typed, NEW p \in Processes, In(p, ToReadRide) \/ In(p, ToReadRides)
    PROVE  ~ComparesCustomers(desk[p])
<1>1. IsUnderWay(desk[p]) /\ StageOf(desk[p]) \in {ToReadRide, ToReadRides}
  BY AtStage
<1> QED
  BY <1>1, UnderWayStage DEF InOrderAt, StageOf, ComparesCustomers

LEMMA ReadRideKeepsOrder ==
    ASSUME CommandsInOrder, Typed, NEW p \in Processes, ReadRide(p)
    PROVE  CommandsInOrder'
<1> DEFINE faults == ContextFaults(Command(p))
<1>1. In(p, ToReadRide) /\ Elsewhere
  BY DEF ReadRide, ToReadRide
<1>2. ToReadRide \notin ArtifactStages /\ ToReadRide \notin Ending
  BY StagesAreNumbered DEF AreNumbered, ArtifactStages, Ending
<1>3. CASE faults = {}
  <2>1. Passed(Command(p), ToReadRide)
    BY <1>3, StagesAreNumbered DEF AreNumbered, Passed
  <2>2. Advance(p)
    BY <1>3 DEF ReadRide
  <2> QED
    BY <1>1, <1>2, <2>1, <2>2, Advances
<1>4. CASE faults # {}
  <2>1. Refuse(p, Faults("context", faults))
    BY <1>4 DEF ReadRide
  <2> DEFINE report == Faults("context", faults)
  <2>2. report.kind = "context" /\ report.faults = faults
    BY FaultsKind
  <2>3. ~ComparesCustomers(desk[p])
    BY <1>1, NoCustomersWhileReading
  <2>4. IsJustified(desk[p], report)
    <3> HIDE DEF report
    <3> QED
      BY <2>2, <2>3 DEF IsJustified, Command, HasLookedAt, RideFaults, LookedAt
  <2> QED
    BY <1>1, <1>2, <2>1, <2>4, EndsAt
<1> QED
  BY <1>3, <1>4

LEMMA ReadRidesKeepsOrder ==
    ASSUME CommandsInOrder, Typed, NEW p \in Processes, ReadRides(p)
    PROVE  CommandsInOrder'
<1> DEFINE faults == DatasetFaults(Command(p).file)
<1>1. In(p, ToReadRides) /\ Elsewhere
  BY DEF ReadRides, ToReadRides
<1>2. ToReadRides \notin ArtifactStages /\ ToReadRides \notin Ending
  BY StagesAreNumbered DEF AreNumbered, ArtifactStages, Ending
<1>3. CASE faults = {}
  <2>1. Passed(Command(p), ToReadRides)
    BY <1>3, StagesAreNumbered DEF AreNumbered, Passed
  <2>2. Advance(p)
    BY <1>3 DEF ReadRides
  <2> QED
    BY <1>1, <1>2, <2>1, <2>2, Advances
<1>4. CASE faults # {}
  <2>1. Refuse(p, Faults("file", faults))
    BY <1>4 DEF ReadRides
  <2> DEFINE report == Faults("file", faults)
  <2>2. report.kind = "file" /\ report.faults = faults
    BY FaultsKind
  <2>3. ~ComparesCustomers(desk[p])
    BY <1>1, NoCustomersWhileReading
  <2>4. IsJustified(desk[p], report)
    <3> HIDE DEF report
    <3> QED
      BY <2>2, <2>3 DEF IsJustified, Command, HasLookedAt, RideFaults, LookedAt
  <2> QED
    BY <1>1, <1>2, <2>1, <2>4, EndsAt
<1> QED
  BY <1>3, <1>4

LEMMA ReadScenarioKeepsOrder ==
    ASSUME CommandsInOrder, Typed, NEW p \in Processes, ReadScenario(p)
    PROVE  CommandsInOrder'
<1> DEFINE faults == ScenarioFaults(Command(p).trip, Command(p).file)
<1>1. In(p, ToReadScenario) /\ Elsewhere
  BY DEF ReadScenario, ToReadScenario
<1>2. ToReadScenario \notin ArtifactStages /\ ToReadScenario \notin Ending
  BY StagesAreNumbered DEF AreNumbered, ArtifactStages, Ending
<1>3. CASE faults = {}
  <2>1. Passed(Command(p), ToReadScenario)
    BY <1>3, StagesAreNumbered DEF AreNumbered, Passed
  <2>2. Advance(p)
    BY <1>3 DEF ReadScenario
  <2> QED
    BY <1>1, <1>2, <2>1, <2>2, Advances
<1>4. CASE faults # {}
  <2>1. Refuse(p, Faults("trips", faults))
    BY <1>4 DEF ReadScenario
  <2> DEFINE report == Faults("trips", faults)
  <2>2. report.kind = "trips" /\ report.faults = faults
    BY FaultsKind
  <2>3. IsJustified(desk[p], report)
    <3> HIDE DEF report
    <3>1. report.kind \in OtherReports
      BY <2>2 DEF OtherReports
    <3> QED
      BY <3>1, OthersAreJustified
  <2> QED
    BY <1>1, <1>2, <2>1, <2>3, EndsAt
<1> QED
  BY <1>3, <1>4

LEMMA ReadTripsKeepsOrder ==
    ASSUME CommandsInOrder, Typed, NEW p \in Processes, ReadTrips(p)
    PROVE  CommandsInOrder'
<1> DEFINE faults == TripsFaults(Command(p).file)
<1>1. In(p, ToReadTrips) /\ Elsewhere
  BY DEF ReadTrips, ToReadTrips
<1>2. ToReadTrips \notin ArtifactStages /\ ToReadTrips \notin Ending
  BY StagesAreNumbered DEF AreNumbered, ArtifactStages, Ending
<1>3. CASE faults = {}
  <2>1. Passed(Command(p), ToReadTrips)
    BY <1>3, StagesAreNumbered DEF AreNumbered, Passed
  <2>2. Advance(p)
    BY <1>3 DEF ReadTrips
  <2> QED
    BY <1>1, <1>2, <2>1, <2>2, Advances
<1>4. CASE faults # {}
  <2>1. Refuse(p, Faults("trips", faults))
    BY <1>4 DEF ReadTrips
  <2> DEFINE report == Faults("trips", faults)
  <2>2. report.kind = "trips" /\ report.faults = faults
    BY FaultsKind
  <2>3. IsJustified(desk[p], report)
    <3> HIDE DEF report
    <3>1. report.kind \in OtherReports
      BY <2>2 DEF OtherReports
    <3> QED
      BY <3>1, OthersAreJustified
  <2> QED
    BY <1>1, <1>2, <2>1, <2>3, EndsAt
<1> QED
  BY <1>3, <1>4

\* A report of the kind that its stage makes.
IsOfStage(report, stage) ==
    \/ report.kind \in OtherReports
    \/ report.kind \in {"comparison", "predictor", "personalization", "trained"} /\ stage \in UsingRides
    \/ report.kind = "ride" /\ stage = ToFollow
    \/ report.kind = "rides" /\ stage = ToFollowTrips
    \/ report.kind = "valid" /\ stage = ToValidate
    \/ report.kind = "answer" /\ stage = ToAnswer

LEMMA StageIsJustified ==
    ASSUME NEW d, NEW report, IsOfStage(report, StageOf(d))
    PROVE  IsJustified(d, report)
BY DEF IsOfStage, IsJustified, OtherReports

LEMMA EndsWith ==
    ASSUME CommandsInOrder, Typed, NEW p \in Processes, NEW stage, In(p, stage),
           stage \notin ArtifactStages, Elsewhere,
           NEW report, Report(p, report) \/ Refuse(p, report), IsOfStage(report, stage)
    PROVE  CommandsInOrder'
<1>1. StageOf(desk[p]) = stage
  BY AtStage
<1>2. IsJustified(desk[p], report)
  BY <1>1, StageIsJustified
<1> QED
  BY <1>2, EndsAt

\* What reading a scenario of customers comes to.
LEMMA CustomersAreRead ==
    ASSUME NEW p, ReadCustomers(p)
    PROVE  \/ Advance(p)
           \/ \E report : Refuse(p, report) /\ report.kind \in {"scenario", "no customers"}
<1>1. CASE Command(p).content = "json"
  BY <1>1 DEF ReadCustomers
<1>2. CASE Command(p).content = "no json"
  <2> DEFINE report == Faults("scenario", Fault("$", "invalid_json"))
  <2>1. Refuse(p, report)
    BY <1>2 DEF ReadCustomers
  <2>2. report.kind = "scenario"
    BY FaultsKind
  <2> HIDE DEF report
  <2> QED
    BY <2>1, <2>2
<1>3. CASE Command(p).content \notin {"json", "no json"}
  <2> DEFINE report == [kind |-> "no customers"]
  <2>1. Refuse(p, report)
    BY <1>3 DEF ReadCustomers
  <2>2. report.kind = "no customers"
    OBVIOUS
  <2> HIDE DEF report
  <2> QED
    BY <2>1, <2>2
<1> QED
  BY <1>1, <1>2, <1>3

LEMMA ReadCustomersKeepsOrder ==
    ASSUME CommandsInOrder, Typed, NEW p \in Processes, ReadCustomers(p)
    PROVE  CommandsInOrder'
<1>1. In(p, ToReadCustomers) /\ Elsewhere
  BY DEF ReadCustomers, ToReadCustomers
<1>2. ToReadCustomers \notin ArtifactStages /\ ToReadCustomers \notin Ending
  BY StagesAreNumbered DEF AreNumbered, ArtifactStages, Ending
<1>3. CASE Advance(p)
  <2>1. Passed(Command(p), ToReadCustomers)
    BY StagesAreNumbered DEF AreNumbered, Passed
  <2> QED
    BY <1>1, <1>2, <1>3, <2>1, Advances
<1>4. ASSUME NEW report, Refuse(p, report), report.kind \in {"scenario", "no customers"}
      PROVE  CommandsInOrder'
  <2>1. IsOfStage(report, ToReadCustomers)
    BY <1>4 DEF IsOfStage, OtherReports
  <2> QED
    BY <1>1, <1>2, <1>4, <2>1, EndsWith
<1> QED
  BY <1>3, <1>4, CustomersAreRead

LEMMA ValidateKeepsOrder ==
    ASSUME CommandsInOrder, Typed, NEW p \in Processes, Validate(p)
    PROVE  CommandsInOrder'
<1>1. In(p, ToValidate) /\ Elsewhere
  BY DEF Validate, ToValidate
<1>2. ToValidate \notin ArtifactStages
  BY StagesAreNumbered DEF AreNumbered, ArtifactStages
<1>3. PICK report : /\ Report(p, report) \/ Refuse(p, report)
                    /\ report.kind \in {"valid"}
  BY DEF Validate
<1>4. IsOfStage(report, ToValidate)
  BY <1>3 DEF IsOfStage, OtherReports
<1> QED
  BY <1>1, <1>2, <1>3, <1>4, EndsWith

LEMMA AnswerKeepsOrder ==
    ASSUME CommandsInOrder, Typed, NEW p \in Processes, Answer(p)
    PROVE  CommandsInOrder'
<1>1. In(p, ToAnswer) /\ Elsewhere
  BY DEF Answer, ToAnswer
<1>2. ToAnswer \notin ArtifactStages
  BY StagesAreNumbered DEF AreNumbered, ArtifactStages
<1>3. PICK report : /\ Report(p, report) \/ Refuse(p, report)
                    /\ report.kind \in {"answer"}
  BY AnswerKind DEF Answer
<1>4. IsOfStage(report, ToAnswer)
  BY <1>3 DEF IsOfStage, OtherReports
<1> QED
  BY <1>1, <1>2, <1>3, <1>4, EndsWith

LEMMA FollowKeepsOrder ==
    ASSUME CommandsInOrder, Typed, NEW p \in Processes, Follow(p)
    PROVE  CommandsInOrder'
<1>1. In(p, ToFollow) /\ Elsewhere
  BY DEF Follow, ToFollow
<1>2. ToFollow \notin ArtifactStages
  BY StagesAreNumbered DEF AreNumbered, ArtifactStages
<1>3. PICK report : /\ Report(p, report) \/ Refuse(p, report)
                    /\ report.kind \in {"stopped", "ride"}
  BY DEF Follow
<1>4. IsOfStage(report, ToFollow)
  BY <1>3 DEF IsOfStage, OtherReports
<1> QED
  BY <1>1, <1>2, <1>3, <1>4, EndsWith

LEMMA EvaluatePredictorKeepsOrder ==
    ASSUME CommandsInOrder, Typed, NEW p \in Processes, EvaluatePredictor(p)
    PROVE  CommandsInOrder'
<1>1. In(p, ToEvaluate) /\ Elsewhere
  BY DEF EvaluatePredictor, ToEvaluate
<1>2. ToEvaluate \notin ArtifactStages
  BY StagesAreNumbered DEF AreNumbered, ArtifactStages
<1>3. ASSUME NEW report, Report(p, report) \/ Refuse(p, report), report.kind \in {"join", "too few rides", "predictor"}
     PROVE  CommandsInOrder'
  <2>1. IsOfStage(report, ToEvaluate)
    BY <1>3, StagesAreNumbered DEF IsOfStage, OtherReports, UsingRides
  <2> QED
    BY <1>1, <1>2, <1>3, <2>1, EndsWith
<1>4. CASE JoinFaults(p) # {}
  BY <1>3, <1>4, FaultsKind DEF EvaluatePredictor
<1>5. CASE JoinFaults(p) = {} /\ Rides(p) = <<>>
  BY <1>3, <1>5 DEF EvaluatePredictor
<1>6. CASE JoinFaults(p) = {} /\ Rides(p) # <<>>
  <2>1. PICK raws, baseline : Report(p, PredictorReport(p, raws, baseline))
    BY <1>6 DEF EvaluatePredictor
  <2> QED
    BY <1>3, <2>1, PredictorKind
<1> QED
  BY <1>4, <1>5, <1>6

LEMMA CompareKeepsOrder ==
    ASSUME CommandsInOrder, Typed, NEW p \in Processes, Compare(p)
    PROVE  CommandsInOrder'
<1>1. In(p, ToCompare) /\ Elsewhere
  BY DEF Compare, ToCompare
<1>2. ToCompare \notin ArtifactStages
  BY StagesAreNumbered DEF AreNumbered, ArtifactStages
<1>3. ASSUME NEW report, Report(p, report) \/ Refuse(p, report), report.kind \in {"join", "no block", "out of range", "comparison"}
     PROVE  CommandsInOrder'
  <2>1. IsOfStage(report, ToCompare)
    BY <1>3, StagesAreNumbered DEF IsOfStage, OtherReports, UsingRides
  <2> QED
    BY <1>1, <1>2, <1>3, <2>1, EndsWith
<1>4. CASE CompareFaults(p) # {}
  BY <1>3, <1>4, FaultsKind DEF Compare
<1>5. CASE CompareFaults(p) = {}
  <2>1. PICK compared, rides, raws, step :
            \/ Report(p, ComparisonReport(compared, rides, raws, step))
            \/ Refuse(p, ComparisonReport(compared, rides, raws, step))
    BY <1>5 DEF Compare
  <2> QED
    BY <1>3, <2>1, ComparisonKind
<1> QED
  BY <1>4, <1>5

LEMMA FollowTripsKeepsOrder ==
    ASSUME CommandsInOrder, Typed, NEW p \in Processes, FollowTrips(p)
    PROVE  CommandsInOrder'
<1>1. In(p, ToFollowTrips) /\ Elsewhere
  BY DEF FollowTrips, ToFollowTrips
<1>2. ToFollowTrips \notin ArtifactStages
  BY StagesAreNumbered DEF AreNumbered, ArtifactStages
<1>3. ASSUME NEW report, Report(p, report) \/ Refuse(p, report), report.kind \in {"stopped", "out of range", "rides"}
     PROVE  CommandsInOrder'
  <2>1. IsOfStage(report, ToFollowTrips)
    BY <1>3 DEF IsOfStage, OtherReports
  <2> QED
    BY <1>1, <1>2, <1>3, <2>1, EndsWith
<1>4. PICK trips, sessions : Report(p, TripsReport(trips, sessions)) \/ Refuse(p, TripsReport(trips, sessions))
  BY DEF FollowTrips
<1> QED
  BY <1>3, <1>4, TripsKind

LEMMA EvaluateCasesKeepsOrder ==
    ASSUME CommandsInOrder, Typed, NEW p \in Processes, EvaluateCases(p)
    PROVE  CommandsInOrder'
<1>1. In(p, ToEvaluateCases) /\ Elsewhere
  BY DEF EvaluateCases, ToEvaluateCases
<1>2. ToEvaluateCases \notin ArtifactStages
  BY StagesAreNumbered DEF AreNumbered, ArtifactStages
<1>3. ASSUME NEW report, Report(p, report) \/ Refuse(p, report), report.kind \in {"no block", "personalization"}
     PROVE  CommandsInOrder'
  <2>1. IsOfStage(report, ToEvaluateCases)
    BY <1>3, StagesAreNumbered DEF IsOfStage, OtherReports, UsingRides
  <2> QED
    BY <1>1, <1>2, <1>3, <2>1, EndsWith
<1>4. PICK test, base, personal :
            Report(p, CasesReport(p, test, base, personal)) \/ Refuse(p, [kind |-> "no block"])
  BY DEF EvaluateCases
<1> QED
  BY <1>3, <1>4, CasesKind

LEMMA ProvideHistoryKeepsOrder ==
    ASSUME CommandsInOrder, Typed, NEW p \in Processes, ProvideHistory(p)
    PROVE  CommandsInOrder'
<1>1. In(p, ToProvideHistory) /\ Elsewhere
  BY DEF ProvideHistory, ToProvideHistory
<1>2. ToProvideHistory \notin ArtifactStages /\ ToProvideHistory \notin Ending /\ Passed(Command(p), ToProvideHistory)
  BY StagesAreNumbered DEF AreNumbered, ArtifactStages, Ending, Passed
<1>3. ASSUME NEW kind \in OtherReports, NEW faults, Refuse(p, Faults(kind, faults))
     PROVE  CommandsInOrder'
  <2>1. IsOfStage(Faults(kind, faults), ToProvideHistory)
    BY FaultsKind DEF IsOfStage
  <2> QED
    BY <1>1, <1>2, <1>3, <2>1, EndsWith
<1>4. CASE Advance(p)
  BY <1>1, <1>2, <1>4, Advances
<1>5. "join" \in OtherReports /\ "malformed" \in OtherReports
  BY DEF OtherReports
<1> QED
  BY <1>3, <1>4, <1>5 DEF ProvideHistory

\* A stage that is passed with something put on the desk.
LEMMA GoesOnWith ==
    ASSUME CommandsInOrder, Typed, NEW p \in Processes, NEW stage, In(p, stage),
           stage \notin ArtifactStages, stage \notin Ending, Passed(Command(p), stage), Elsewhere,
           NEW field \in {"sweep", "lesson"}, NEW value,
           desk' = [desk EXCEPT ![p].at = @ + 1, ![p][field] = value]
    PROVE  CommandsInOrder'
<1> DEFINE d == [[desk[p] EXCEPT !.at = @ + 1] EXCEPT ![field] = value]
<1>1. DOMAIN desk = Processes /\ DOMAIN desk[p] = DeskFields
  BY AtStage DEF CommandsInOrder, IsUnderWay
<1>2. desk' = [desk EXCEPT ![p] = d]
  BY <1>1
<1>3. /\ DOMAIN d = DOMAIN desk[p] /\ d.status = desk[p].status /\ d.command = desk[p].command
      /\ d.answers = desk[p].answers /\ d.at = desk[p].at + 1
  BY <1>1 DEF DeskFields
<1> HIDE DEF d
<1> QED
  BY <1>2, <1>3, GoesOn

LEMMA LearnKeepsOrder ==
    ASSUME CommandsInOrder, Typed, NEW p \in Processes, Learn(p)
    PROVE  CommandsInOrder'
<1>1. In(p, ToLearn) /\ Elsewhere
  BY DEF Learn, ToLearn
<1>2. ToLearn \notin ArtifactStages /\ ToLearn \notin Ending /\ Passed(Command(p), ToLearn)
  BY StagesAreNumbered DEF AreNumbered, ArtifactStages, Ending, Passed
<1>3. ASSUME NEW report, Refuse(p, report), report.kind \in {"join", "too few rides"}
     PROVE  CommandsInOrder'
  <2>1. IsOfStage(report, ToLearn)
    BY <1>3 DEF IsOfStage, OtherReports
  <2> QED
    BY <1>1, <1>2, <1>3, <2>1, EndsWith
<1>4. CASE JoinFaults(p) # {}
  BY <1>3, <1>4, FaultsKind DEF Learn
<1>5. CASE JoinFaults(p) = {} /\ ~CanSplit(Rides(p))
  BY <1>3, <1>5 DEF Learn
<1>6. CASE JoinFaults(p) = {} /\ CanSplit(Rides(p))
  <2>1. PICK lesson : desk' = [desk EXCEPT ![p].at = @ + 1, ![p].lesson = lesson]
    BY <1>6 DEF Learn
  <2> QED
    BY <1>1, <1>2, <2>1, GoesOnWith
<1> QED
  BY <1>4, <1>5, <1>6

LEMMA BeginSweepKeepsOrder ==
    ASSUME CommandsInOrder, Typed, NEW p \in Processes, BeginSweep(p)
    PROVE  CommandsInOrder'
<1>1. In(p, ToJoin) /\ Elsewhere
  BY DEF BeginSweep, ToJoin
<1>2. ToJoin \notin ArtifactStages /\ ToJoin \notin Ending /\ Passed(Command(p), ToJoin)
  BY StagesAreNumbered DEF AreNumbered, ArtifactStages, Ending, Passed
<1>3. ASSUME NEW report, Refuse(p, report), report.kind \in {"join", "malformed"}
     PROVE  CommandsInOrder'
  <2>1. IsOfStage(report, ToJoin)
    BY <1>3 DEF IsOfStage, OtherReports
  <2> QED
    BY <1>1, <1>2, <1>3, <2>1, EndsWith
<1>4. CASE JoinFaults(p) # {}
  BY <1>3, <1>4, FaultsKind DEF BeginSweep
<1>5. CASE JoinFaults(p) = {} /\ Malformed(Rides(p)) # {}
  BY <1>3, <1>5, FaultsKind DEF BeginSweep
<1>6. CASE JoinFaults(p) = {} /\ Malformed(Rides(p)) = {}
  <2>1. PICK sweep : desk' = [desk EXCEPT ![p].at = @ + 1, ![p].sweep = sweep]
    BY <1>6 DEF BeginSweep
  <2> QED
    BY <1>1, <1>2, <2>1, GoesOnWith
<1> QED
  BY <1>4, <1>5, <1>6

LEMMA SweepOnKeepsOrder ==
    ASSUME CommandsInOrder, Typed, NEW p \in Processes, SweepOn(p)
    PROVE  CommandsInOrder'
<1>1. In(p, ToSweep) /\ Elsewhere
  BY DEF SweepOn, ToSweep
<1>2. ToSweep \notin ArtifactStages
  BY StagesAreNumbered DEF AreNumbered, ArtifactStages
<1>3. DOMAIN desk = Processes /\ DOMAIN desk[p] = DeskFields
  BY <1>1, AtStage DEF CommandsInOrder, IsUnderWay
<1>4. PICK sweep : desk' = [desk EXCEPT ![p].sweep = sweep]
  BY DEF SweepOn
<1> DEFINE d == [desk[p] EXCEPT !.sweep = sweep]
<1>5. desk' = [desk EXCEPT ![p] = d]
  BY <1>3, <1>4
<1>6. /\ DOMAIN d = DOMAIN desk[p] /\ d.status = desk[p].status /\ d.command = desk[p].command
      /\ d.answers = desk[p].answers /\ d.at = desk[p].at
  BY <1>3 DEF DeskFields
<1> HIDE DEF d
<1> QED
  BY <1>1, <1>2, <1>5, <1>6, StaysOn

LEMMA EndSweepKeepsOrder ==
    ASSUME CommandsInOrder, Typed, NEW p \in Processes, EndSweep(p)
    PROVE  CommandsInOrder'
<1>1. In(p, ToSweep) /\ Elsewhere
  BY DEF EndSweep, ToSweep
<1>2. ToSweep \notin ArtifactStages /\ ToSweep \notin Ending /\ Passed(Command(p), ToSweep)
  BY StagesAreNumbered DEF AreNumbered, ArtifactStages, Ending, Passed
<1>3. CASE Advance(p)
  BY <1>1, <1>2, <1>3, Advances
<1>4. CASE Refuse(p, [kind |-> "too few rides"])
  <2>1. IsOfStage([kind |-> "too few rides"], ToSweep)
    BY DEF IsOfStage, OtherReports
  <2> QED
    BY <1>1, <1>2, <1>4, <2>1, EndsWith
<1> QED
  BY <1>3, <1>4 DEF EndSweep

LEMMA LearnCasesKeepsOrder ==
    ASSUME CommandsInOrder, Typed, NEW p \in Processes, LearnCases(p)
    PROVE  CommandsInOrder'
<1>1. In(p, ToLearnCases) /\ Elsewhere
  BY DEF LearnCases, ToLearnCases
<1>2. ToLearnCases \notin ArtifactStages /\ ToLearnCases \notin Ending /\ Passed(Command(p), ToLearnCases)
  BY StagesAreNumbered DEF AreNumbered, ArtifactStages, Ending, Passed
<1>3. ASSUME NEW report, Refuse(p, report), report.kind \in {"no eligible rides", "no block"}
     PROVE  CommandsInOrder'
  <2>1. IsOfStage(report, ToLearnCases)
    BY <1>3 DEF IsOfStage, OtherReports
  <2> QED
    BY <1>1, <1>2, <1>3, <2>1, EndsWith
<1>4. \/ Refuse(p, [kind |-> "no eligible rides"])
      \/ Refuse(p, [kind |-> "no block"])
      \/ \E lesson : desk' = [desk EXCEPT ![p].at = @ + 1, ![p].lesson = lesson]
  BY DEF LearnCases
<1>5. ASSUME NEW lesson, desk' = [desk EXCEPT ![p].at = @ + 1, ![p].lesson = lesson]
     PROVE  CommandsInOrder'
  BY <1>1, <1>2, <1>5, GoesOnWith
<1> QED
  BY <1>3, <1>4, <1>5

-----------------------------------------------------------------------------
(* Customers, one after the other.                                          *)

LEMMA AnswersAreSequence ==
    ASSUME NEW S, NEW answers \in Seq(S), NEW answer
    PROVE  /\ Append(answers, answer) \in Seq(S \cup {answer})
           /\ Len(Append(answers, answer)) = Len(answers) + 1
           /\ Len(answers) \in Nat
OBVIOUS

\* One more customer's answer on the desk.
LEMMA OneMoreAnswer ==
    ASSUME CommandsInOrder, Typed, NEW p \in Processes, In(p, ToCustomers), Elsewhere,
           Len(desk[p].answers) < Len(Command(p).customers), IsClean(Customer(p)),
           NEW answer, desk' = [desk EXCEPT ![p].answers = Append(@, answer)]
    PROVE  CommandsInOrder'
<1> DEFINE d == [desk[p] EXCEPT !.answers = Append(@, answer)]
<1>1. ToCustomers \notin ArtifactStages
  BY StagesAreNumbered DEF AreNumbered, ArtifactStages
<1>2. IsUnderWay(desk[p]) /\ StageOf(desk[p]) = ToCustomers /\ desk[p].status = "running" /\ jobs[p] = NoJob
  BY <1>1, AtStage
<1>3. DOMAIN desk = Processes /\ DOMAIN desk[p] = DeskFields
  BY <1>2 DEF CommandsInOrder, IsUnderWay
<1>4. desk' = [desk EXCEPT ![p] = d]
  BY <1>3
<1>5. /\ DOMAIN d = DeskFields /\ d.status = desk[p].status /\ d.command = desk[p].command
      /\ d.answers = Append(desk[p].answers, answer) /\ d.at = desk[p].at
  BY <1>3 DEF DeskFields
<1> HIDE DEF d
<1>6. PICK S : desk[p].answers \in Seq(S)
  BY <1>2 DEF IsUnderWay
<1>7. /\ d.answers \in Seq(S \cup {answer})
      /\ Len(d.answers) = Len(desk[p].answers) + 1 /\ Len(desk[p].answers) \in Nat
  BY <1>5, <1>6, AnswersAreSequence
<1>8. Len(d.command.customers) \in Nat
  BY <1>2, <1>5, CommandParts DEF IsUnderWay
<1>9. Len(d.answers) <= Len(d.command.customers)
  BY <1>5, <1>7, <1>8 DEF Command
<1>10. ASSUME NEW i \in 1 .. Len(d.answers) PROVE IsClean(d.command.customers[i])
  <2>1. i \in 1 .. Len(desk[p].answers) \/ i = Len(desk[p].answers) + 1
    BY <1>7
  <2>2. CASE i \in 1 .. Len(desk[p].answers)
    BY <1>2, <1>5, <2>2 DEF IsUnderWay
  <2>3. CASE i = Len(desk[p].answers) + 1
    BY <1>5, <2>3 DEF Customer, Command
  <2> QED
    BY <2>1, <2>2, <2>3
<1>11. IsUnderWay(d)
  BY <1>2, <1>5, <1>7, <1>9, <1>10 DEF IsUnderWay
<1>12. DeskInOrder(d) /\ JobFits(jobs'[p], d)
  BY <1>2, <1>5, <1>11 DEF DeskInOrder, JobFits, Elsewhere
<1> QED
  BY <1>4, <1>12, DeskStep DEF Elsewhere

\* A customer is refused, or else answered.
IsRefusal(p, report) ==
    \/ report.kind \in {"no customer", "join", "malformed"}
    \/ report = Faults("context", TransactionFaults(Customer(p).ride, Customer(p).unknown))
    \/ report = Faults("file", DatasetFaults(Customer(p).file))

AnswerOf(p, history, raw) ==
    AnswerTo(RideOf(Customer(p).ride), history, raw, Command(p).step, {Command(p).profile})

IsAnswered(p) ==
    \E history : \E raw \in models :
        \/ desk' = [desk EXCEPT ![p].answers = Append(@, AnswerOf(p, history, raw))]
        \/ Refuse(p, AnswerOf(p, history, raw))

LEMMA RefusalKind ==
    ASSUME NEW p, NEW report, IsRefusal(p, report)
    PROVE  report.kind \in {"no customer", "join", "malformed", "context", "file"}
<1>1. \A faults : Faults("context", faults).kind = "context" /\ Faults("file", faults).kind = "file"
  BY FaultsKind
<1> QED
  BY <1>1 DEF IsRefusal

LEMMA CustomerIsRefusedOrAnswered ==
    ASSUME NEW p, CompareCustomer(p)
    PROVE  \/ \E report : Refuse(p, report) /\ IsRefusal(p, report)
           \/ IsClean(Customer(p)) /\ IsAnswered(p)
<1> DEFINE customer == Customer(p)
           rides == [i \in DOMAIN customer.file.records |-> RideOf(customer.file.records[i].transaction)]
           outcomes == [i \in DOMAIN customer.file.records |-> OutcomeRead(customer.file.records[i].outcome)]
           joined == Join(rides, outcomes)
           history == FeaturesFor(joined, RideOf(customer.ride))
           ofRide == TransactionFaults(customer.ride, customer.unknown)
           ofFile == DatasetFaults(customer.file)
<1>1. CASE customer.shape # "object"
  <2>1. Refuse(p, [kind |-> "no customer"])
    BY <1>1 DEF CompareCustomer
  <2>2. IsRefusal(p, [kind |-> "no customer"])
    BY DEF IsRefusal
  <2> QED
    BY <2>1, <2>2
<1>2. CASE customer.shape = "object" /\ ofRide # {}
  <2>1. Refuse(p, Faults("context", ofRide))
    BY <1>2 DEF CompareCustomer
  <2>2. IsRefusal(p, Faults("context", ofRide))
    BY DEF IsRefusal
  <2> QED
    BY <2>1, <2>2
<1>3. CASE customer.shape = "object" /\ ofRide = {} /\ ofFile # {}
  <2>1. Refuse(p, Faults("file", ofFile))
    BY <1>3 DEF CompareCustomer
  <2>2. IsRefusal(p, Faults("file", ofFile))
    BY DEF IsRefusal
  <2> QED
    BY <2>1, <2>2
<1>4. CASE customer.shape = "object" /\ ofRide = {} /\ ofFile = {}
  <2>1. \/ Refuse(p, Faults("join", JoinIssues(rides, outcomes)))
        \/ Refuse(p, Faults("malformed", Malformed(joined)))
        \/ \E raw \in models :
                IF HasBlocks(AnswerOf(p, history, raw))
                THEN desk' = [desk EXCEPT ![p].answers = Append(@, AnswerOf(p, history, raw))]
                ELSE Refuse(p, AnswerOf(p, history, raw))
    BY <1>4 DEF CompareCustomer, AnswerOf
  <2>2. IsClean(Customer(p))
    BY <1>4 DEF IsClean
  <2> HIDE DEF history, joined, rides, outcomes
  <2>3. ASSUME NEW kind \in {"join", "malformed"}, NEW faults
        PROVE  IsRefusal(p, Faults(kind, faults))
    BY FaultsKind DEF IsRefusal
  <2>4. CASE \E raw \in models :
                IF HasBlocks(AnswerOf(p, history, raw))
                THEN desk' = [desk EXCEPT ![p].answers = Append(@, AnswerOf(p, history, raw))]
                ELSE Refuse(p, AnswerOf(p, history, raw))
    <3>1. IsAnswered(p)
      BY <2>4 DEF IsAnswered
    <3> QED
      BY <2>2, <3>1
  <2> QED
    BY <2>1, <2>3, <2>4
<1> QED
  BY <1>1, <1>2, <1>3, <1>4

LEMMA CompareCustomerKeepsOrder ==
    ASSUME CommandsInOrder, Typed, NEW p \in Processes, CompareCustomer(p)
    PROVE  CommandsInOrder'
<1>1. In(p, ToCustomers) /\ Elsewhere /\ Len(desk[p].answers) < Len(Command(p).customers)
  BY DEF CompareCustomer, ToCustomers
<1>2. ToCustomers \notin ArtifactStages
  BY StagesAreNumbered DEF AreNumbered, ArtifactStages
<1>3. StageOf(desk[p]) = ToCustomers /\ IsUnderWay(desk[p])
  BY <1>1, AtStage
<1>4. ASSUME NEW report, Refuse(p, report), IsRefusal(p, report)
      PROVE  CommandsInOrder'
  <2>1. ComparesCustomers(desk[p])
    BY <1>3, UnderWayStage DEF InOrderAt, StageOf, ComparesCustomers
  <2>2. LookedAt(desk[p]) = Customer(p) /\ HasLookedAt(desk[p])
    BY <1>1, <2>1 DEF LookedAt, HasLookedAt, Customer, Command
  <2>3. CASE report.kind \in {"no customer", "join", "malformed"}
    <3>1. report.kind \in OtherReports
      BY <2>3 DEF OtherReports
    <3>2. IsJustified(desk[p], report)
      BY <3>1, OthersAreJustified
    <3> QED
      BY <1>1, <1>2, <1>4, <3>2, EndsAt
  <2>4. CASE report = Faults("context", TransactionFaults(Customer(p).ride, Customer(p).unknown))
    <3>1. report.kind = "context" /\ report.faults = RideFaults(desk[p])
      BY <2>1, <2>2, <2>4, FaultsKind DEF RideFaults
    <3>2. IsJustified(desk[p], report)
      BY <2>2, <3>1 DEF IsJustified
    <3> QED
      BY <1>1, <1>2, <1>4, <3>2, EndsAt
  <2>5. CASE report = Faults("file", DatasetFaults(Customer(p).file))
    <3>1. report.kind = "file" /\ report.faults = DatasetFaults(LookedAt(desk[p]).file)
      BY <2>2, <2>5, FaultsKind
    <3>2. IsJustified(desk[p], report)
      BY <2>2, <3>1 DEF IsJustified
    <3> QED
      BY <1>1, <1>2, <1>4, <3>2, EndsAt
  <2> QED
    BY <1>4, <2>3, <2>4, <2>5 DEF IsRefusal
<1>5. ASSUME IsClean(Customer(p)), IsAnswered(p) PROVE CommandsInOrder'
  <2>1. PICK history, raw :
            \/ desk' = [desk EXCEPT ![p].answers = Append(@, AnswerOf(p, history, raw))]
            \/ Refuse(p, AnswerOf(p, history, raw))
    BY <1>5 DEF IsAnswered
  <2>2. PICK answer : answer = AnswerOf(p, history, raw)
    OBVIOUS
  <2>3. answer.kind = "answer"
    BY <2>2, AnswerKind DEF AnswerOf
  <2>4. IsJustified(desk[p], answer)
    BY <1>1, <1>3, <1>5, <2>3 DEF IsJustified, Customer, Command
  <2>5. CASE Refuse(p, answer)
    BY <1>1, <1>2, <2>4, <2>5, EndsAt
  <2>6. CASE desk' = [desk EXCEPT ![p].answers = Append(@, answer)]
    BY <1>1, <1>5, <2>6, OneMoreAnswer
  <2> QED
    BY <2>1, <2>2, <2>5, <2>6
<1> QED
  BY <1>4, <1>5, CustomerIsRefusedOrAnswered

LEMMA CustomersComparedKeepsOrder ==
    ASSUME CommandsInOrder, Typed, NEW p \in Processes, CustomersCompared(p)
    PROVE  CommandsInOrder'
<1>1. In(p, ToCustomers) /\ Elsewhere /\ Len(desk[p].answers) = Len(Command(p).customers)
  BY DEF CustomersCompared, ToCustomers
<1>2. ToCustomers \notin ArtifactStages
  BY StagesAreNumbered DEF AreNumbered, ArtifactStages
<1>3. PICK answers : Report(p, [kind |-> "customers", answers |-> answers])
  BY DEF CustomersCompared
<1>4. IsJustified(desk[p], [kind |-> "customers", answers |-> answers])
  BY <1>1 DEF IsJustified, Command
<1> QED
  BY <1>1, <1>2, <1>3, <1>4, EndsAt

-----------------------------------------------------------------------------
(* Jobs with artifacts.                                                     *)

LEMMA JobAtStage ==
    ASSUME CommandsInOrder, Typed, NEW p \in Processes, jobs[p] # NoJob
    PROVE  /\ IsUnderWay(desk[p]) /\ desk[p].status = "running"
           /\ StageOf(desk[p]) = StageOfJob(jobs[p]) /\ jobs[p].kind \in Kinds
<1>1. jobs[p].kind \in Kinds
  <2>1. jobs[p] \in SaveJobs \cup LoadJobs \cup FailedJobs
    BY DEF Typed, Jobs, OtherJobs
  <2> QED
    BY <2>1 DEF SaveJobs, LoadJobs, FailedJobs
<1> QED
  BY <1>1 DEF CommandsInOrder, DeskInOrder, JobFits

\* A step of p's job that leaves it at its command's stage.
LEMMA JobStep ==
    ASSUME CommandsInOrder, NEW p \in Processes, UNCHANGED <<desk, typed>>,
           JobFits(jobs'[p], desk[p]), \A q \in Processes \ {p} : jobs'[q] = jobs[q]
    PROVE  CommandsInOrder'
<1>1. \A q \in Processes : DeskInOrder(desk'[q]) /\ JobFits(jobs'[q], desk'[q])
  BY DEF CommandsInOrder
<1> QED
  BY <1>1 DEF CommandsInOrder

LEMMA LoadKeepsOrder ==
    ASSUME CommandsInOrder, Typed, NEW p \in Processes, NEW k \in Kinds, Load(p, k)
    PROVE  CommandsInOrder'
<1>1. /\ UNCHANGED <<desk, typed>> /\ In(p, LoadsFrom(k)) /\ jobs'[p] = Loading(k, <<>>)
      /\ \A q \in Processes \ {p} : jobs'[q] = jobs[q]
  BY DEF Load, StartLoad, Typed
<1>2. StageOfJob(jobs'[p]) = LoadsFrom(k)
  BY <1>1 DEF StageOfJob, Loading
<1>3. JobFits(jobs'[p], desk[p])
  BY <1>1, <1>2, AtStage DEF JobFits
<1> QED
  BY <1>1, <1>3, JobStep

LEMMA SaveKeepsOrder ==
    ASSUME CommandsInOrder, Typed, NEW p \in Processes, NEW k \in Kinds, Save(p, k)
    PROVE  CommandsInOrder'
<1>1. /\ UNCHANGED <<desk, typed>> /\ In(p, SavesTo(k)) /\ jobs'[p] = Saving(k, trained[k] + 1)
      /\ \A q \in Processes \ {p} : jobs'[q] = jobs[q]
  BY DEF Save, StartSave, Typed
<1>2. StageOfJob(jobs'[p]) = SavesTo(k)
  BY <1>1 DEF StageOfJob, Saving
<1>3. JobFits(jobs'[p], desk[p])
  BY <1>1, <1>2, AtStage DEF JobFits
<1> QED
  BY <1>1, <1>3, JobStep

\* Files are written and read without leaving the stage.
LEMMA UseFilesKeepsOrder ==
    ASSUME CommandsInOrder, Typed, NEW p \in Processes, UseFiles(p)
    PROVE  CommandsInOrder'
<1>1. UNCHANGED <<desk, typed>>
  BY DEF UseFiles
<1>3. ASSUME IsDoing(p, "save") \/ IsDoing(p, "load"),
             NEW job, jobs' = [jobs EXCEPT ![p] = job], StageOfJob(job) = StageOfJob(jobs[p])
      PROVE  CommandsInOrder'
  <2>1. jobs[p] # NoJob
    BY <1>3 DEF IsDoing, NoJob
  <2>2. jobs'[p] = job /\ \A q \in Processes \ {p} : jobs'[q] = jobs[q]
    BY <1>3 DEF Typed
  <2>3. JobFits(jobs'[p], desk[p])
    BY <1>3, <2>1, <2>2, JobAtStage DEF JobFits
  <2> QED
    BY <1>1, <2>2, <2>3, JobStep
<1>2. CASE OpenFile(p)
  <2> DEFINE job == [jobs[p] EXCEPT !.file = "open"]
  <2>1. jobs[p] \in SaveJobs /\ jobs' = [jobs EXCEPT ![p] = job] /\ IsDoing(p, "save")
    BY <1>2, JobFields DEF OpenFile, IsDoing, Typed
  <2>2. StageOfJob(job) = StageOfJob(jobs[p])
    BY <2>1 DEF SaveJobs, StageOfJob
  <2> QED
    BY <1>3, <2>1, <2>2
<1>4. CASE WriteFile(p)
  <2> DEFINE job == [jobs[p] EXCEPT !.file = "closed", !.at = jobs[p].at + 1]
  <2>1. jobs[p] \in SaveJobs /\ jobs' = [jobs EXCEPT ![p] = job] /\ IsDoing(p, "save")
    BY <1>4, JobFields DEF WriteFile, IsDoing, Typed
  <2>2. StageOfJob(job) = StageOfJob(jobs[p])
    BY <2>1 DEF SaveJobs, StageOfJob
  <2> QED
    BY <1>3, <2>1, <2>2
<1>5. CASE ReadFile(p)
  <2> DEFINE job == [jobs[p] EXCEPT !.seen = Append(@, Found(p))]
  <2>1. jobs[p] \in LoadJobs /\ jobs' = [jobs EXCEPT ![p] = job] /\ IsDoing(p, "load")
    BY <1>5, JobFields DEF ReadFile, WantsMore, IsDoing, Typed
  <2>2. StageOfJob(job) = StageOfJob(jobs[p])
    BY <2>1 DEF LoadJobs, StageOfJob
  <2> QED
    BY <1>3, <2>1, <2>2
<1>6. CASE FailToRead(p)
  <2>1. jobs' = [jobs EXCEPT ![p] = LoadFailed(jobs[p].kind)] /\ IsDoing(p, "load")
    BY <1>6 DEF FailToRead, WantsMore
  <2>2. StageOfJob(LoadFailed(jobs[p].kind)) = StageOfJob(jobs[p])
    BY <2>1 DEF LoadFailed, StageOfJob, IsDoing
  <2> QED
    BY <1>3, <2>1, <2>2
<1>7. CASE FinishLoad(p)
  <2>1. jobs' = [jobs EXCEPT ![p] = Loaded(jobs[p].kind, jobs[p].seen)] /\ IsDoing(p, "load")
    BY <1>7 DEF FinishLoad
  <2>2. StageOfJob(Loaded(jobs[p].kind, jobs[p].seen)) = StageOfJob(jobs[p])
    BY <2>1 DEF Loaded, StageOfJob, IsDoing
  <2> QED
    BY <1>3, <2>1, <2>2
<1> QED
  BY <1>2, <1>4, <1>5, <1>6, <1>7 DEF UseFiles

LEMMA LoadReturnsKeepsOrder ==
    ASSUME CommandsInOrder, Typed, NEW p \in Processes, LoadReturns(p)
    PROVE  CommandsInOrder'
<1>1. /\ UNCHANGED typed /\ jobs'[p] = NoJob /\ \A q \in Processes \ {p} : jobs'[q] = jobs[q]
      /\ IsDoing(p, "loaded") \/ IsDoing(p, "load failed")
  BY DEF LoadReturns, Dispose, Typed
<1>2. /\ IsUnderWay(desk[p]) /\ desk[p].status = "running"
      /\ StageOf(desk[p]) = LoadsFrom(jobs[p].kind) /\ jobs[p].kind \in Kinds
  <2>1. jobs[p] # NoJob
    <3>1. NoJob.doing = "nothing"
      BY DEF NoJob
    <3>2. jobs[p].doing # "nothing"
      BY <1>1 DEF IsDoing
    <3> QED
      BY <3>1, <3>2
  <2>2. StageOfJob(jobs[p]) = LoadsFrom(jobs[p].kind)
    BY <1>1 DEF IsDoing, StageOfJob
  <2> QED
    BY <2>1, <2>2, JobAtStage
<1>3. DOMAIN desk = Processes /\ DOMAIN desk[p] = DeskFields
  BY <1>2 DEF CommandsInOrder, IsUnderWay
<1>4. CASE IsDoing(p, "loaded")
  <2> DEFINE d == [[desk[p] EXCEPT !.at = @ + 1] EXCEPT ![jobs[p].kind] = jobs[p].seen]
  <2>1. jobs[p].kind \in {"base", "personalized"}
    BY <1>2, CommandAssumption
  <2>2. desk' = [desk EXCEPT ![p] = d]
    BY <1>3, <1>4 DEF LoadReturns
  <2>3. /\ DOMAIN d = DeskFields /\ d.status = desk[p].status /\ d.command = desk[p].command
        /\ d.answers = desk[p].answers /\ d.at = desk[p].at + 1
    BY <1>3, <2>1 DEF DeskFields
  <2> HIDE DEF d
  <2>4. IsUnderWay(d)
    BY <1>2, <2>3, StagesOfArtifacts, NextStage
  <2>5. DeskInOrder(d) /\ JobFits(jobs'[p], d)
    BY <1>1, <1>2, <2>3, <2>4 DEF DeskInOrder, JobFits
  <2> QED
    BY <1>1, <2>2, <2>5, DeskStep
<1>5. CASE ~IsDoing(p, "loaded")
  <2>1. Refuse(p, [kind |-> "no artifact"])
    BY <1>5 DEF LoadReturns
  <2>2. IsJustified(desk[p], [kind |-> "no artifact"])
    BY DEF IsJustified
  <2> QED
    BY <1>1, <1>2, <2>1, <2>2, Ends
<1> QED
  BY <1>4, <1>5

LEMMA SaveEndsKeepsOrder ==
    ASSUME CommandsInOrder, Typed, NEW p \in Processes, SaveReturns(p) \/ Killed(p)
    PROVE  CommandsInOrder'
<1>1. /\ UNCHANGED typed /\ jobs'[p] = NoJob /\ \A q \in Processes \ {p} : jobs'[q] = jobs[q]
      /\ IsDoing(p, "save")
  BY DEF SaveReturns, Killed, FinishSave, AbandonSave, Typed
<1>2. IsUnderWay(desk[p]) /\ StageOf(desk[p]) \in UsingRides
  <2>1. jobs[p] # NoJob /\ jobs[p].doing = "save"
    BY <1>1 DEF IsDoing, NoJob
  <2> QED
    BY <2>1, JobAtStage, StagesOfArtifacts DEF StageOfJob
<1>3. CASE SaveReturns(p)
  <2>1. Report(p, [kind |-> "trained"])
    BY <1>3 DEF SaveReturns
  <2>2. IsJustified(desk[p], [kind |-> "trained"])
    BY <1>2 DEF IsJustified
  <2> QED
    BY <1>1, <1>2, <2>1, <2>2, Ends
<1>4. CASE Killed(p)
  <2>1. Refuse(p, [kind |-> "killed"])
    BY <1>4 DEF Killed
  <2>2. IsJustified(desk[p], [kind |-> "killed"])
    BY DEF IsJustified
  <2> QED
    BY <1>1, <1>2, <2>1, <2>2, Ends
<1> QED
  BY <1>3, <1>4

-----------------------------------------------------------------------------

LEMMA CommandInitInOrder == CommandInit => CommandsInOrder
<1> SUFFICES ASSUME CommandInit PROVE CommandsInOrder
  OBVIOUS
<1>1. PICK session \in Sessions : typed = session.typed
  BY DEF CommandInit
<1>2. DOMAIN typed = Processes /\ \A p \in Processes : AreLeft(typed[p])
  BY <1>1, SessionAssumption DEF AreCommands, AreLeft
<1>3. DOMAIN desk = Processes /\ \A p \in Processes : desk[p] = NoDesk /\ jobs[p] = NoJob
  BY DEF CommandInit, ArtifactInit
<1>4. \A p \in Processes : DeskInOrder(desk[p]) /\ JobFits(jobs[p], desk[p])
  BY <1>3 DEF DeskInOrder, JobFits, NoDesk
<1> QED
  BY <1>2, <1>3, <1>4 DEF CommandsInOrder

LEMMA CommandStepKeepsOrder ==
    CommandsInOrder /\ Typed /\ [CommandNext]_commandVars => CommandsInOrder'
<1> SUFFICES ASSUME CommandsInOrder, Typed, [CommandNext]_commandVars
             PROVE  CommandsInOrder'
  OBVIOUS
<1>1. CASE UNCHANGED commandVars
  BY <1>1 DEF commandVars, CommandsInOrder
<1>2. CASE CommandNext
  <2>1. PICK p \in Processes :
            \/ Type(p) \/ ReadRide(p) \/ ReadRides(p) \/ Validate(p)
            \/ \E k \in Kinds : Load(p, k) \/ Save(p, k)
            \/ UseFiles(p) \/ LoadReturns(p) \/ SaveReturns(p) \/ Killed(p)
            \/ Learn(p) \/ EvaluatePredictor(p)
            \/ ProvideHistory(p) \/ Answer(p) \/ Compare(p)
            \/ ReadScenario(p) \/ ReadTrips(p) \/ ReadCustomers(p) \/ Follow(p) \/ FollowTrips(p)
            \/ CompareCustomer(p) \/ CustomersCompared(p)
            \/ BeginSweep(p) \/ SweepOn(p) \/ EndSweep(p) \/ LearnCases(p) \/ EvaluateCases(p)
    BY <1>2 DEF CommandNext
  <2>2. CASE Type(p) \/ ReadRide(p) \/ ReadRides(p) \/ Validate(p)
    BY <2>2, TypeKeepsOrder, ReadRideKeepsOrder, ReadRidesKeepsOrder, ValidateKeepsOrder
  <2>3. CASE \E k \in Kinds : Load(p, k) \/ Save(p, k)
    BY <2>3, LoadKeepsOrder, SaveKeepsOrder
  <2>4. CASE UseFiles(p) \/ LoadReturns(p) \/ SaveReturns(p) \/ Killed(p)
    BY <2>4, UseFilesKeepsOrder, LoadReturnsKeepsOrder, SaveEndsKeepsOrder
  <2>5. CASE Learn(p) \/ EvaluatePredictor(p)
    BY <2>5, LearnKeepsOrder, EvaluatePredictorKeepsOrder
  <2>6. CASE ProvideHistory(p) \/ Answer(p) \/ Compare(p)
    BY <2>6, ProvideHistoryKeepsOrder, AnswerKeepsOrder, CompareKeepsOrder
  <2>7. CASE ReadScenario(p) \/ ReadTrips(p) \/ ReadCustomers(p) \/ Follow(p) \/ FollowTrips(p)
    BY <2>7, ReadScenarioKeepsOrder, ReadTripsKeepsOrder, ReadCustomersKeepsOrder, FollowKeepsOrder,
       FollowTripsKeepsOrder
  <2>8. CASE CompareCustomer(p) \/ CustomersCompared(p)
    BY <2>8, CompareCustomerKeepsOrder, CustomersComparedKeepsOrder
  <2>9. CASE BeginSweep(p) \/ SweepOn(p) \/ EndSweep(p) \/ LearnCases(p) \/ EvaluateCases(p)
    BY <2>9, BeginSweepKeepsOrder, SweepOnKeepsOrder, EndSweepKeepsOrder, LearnCasesKeepsOrder,
       EvaluateCasesKeepsOrder
  <2> QED
    BY <2>1, <2>2, <2>3, <2>4, <2>5, <2>6, <2>7, <2>8, <2>9
<1> QED
  BY <1>1, <1>2

\* A command uses a ride, a dataset or trips only if the domain types accept
\* every record, and one that refuses a ride or a dataset, its own or that of a
\* customer of a scenario, tells exactly the faulty fields of all its records, or
\* of its head when that is faulty (the parsers of mobility_validation.py,
\* evaluation_input.py and dynamic_input.py, called by main of cli.py): for any
\* number of terminals, commands, customers, records and faults, and any JSON.
THEOREM FaultsAreReported == CommandSpec => []EveryFaultIsReported
<1>1. CommandSpec => []Typed
  <2>1. ArtifactsInOrder => Typed
    BY DEF ArtifactsInOrder
  <2> QED
    BY <2>1, CommandsRefineArtifacts, ArtifactsAreInOrder, PTL
<1>2. CommandsInOrder => EveryFaultIsReported
  BY DEF CommandsInOrder, DeskInOrder, EveryFaultIsReported
<1> QED
  BY <1>1, <1>2, CommandInitInOrder, CommandStepKeepsOrder, PTL DEF CommandSpec

-----------------------------------------------------------------------------
(* What a step changes on its desk, and how it may end.                     *)

Moves(p, fields, kinds) ==
    \E d : /\ desk' = [desk EXCEPT ![p] = d] /\ DOMAIN d = DeskFields
           /\ \A f \in DeskFields \ fields : d[f] = desk[p][f]
           /\ d.status \in {"running", "done", "refused"}
           /\ d.status = "running" => d.at \in {desk[p].at, desk[p].at + 1}
           /\ d.status # "running" => d.report.kind \in kinds

LEMMA MovesMore ==
    ASSUME NEW p, NEW fields, NEW kinds, Moves(p, fields, kinds),
           NEW more, NEW others, fields \subseteq more, kinds \subseteq others
    PROVE  Moves(p, more, others)
BY DEF Moves

LEMMA EndMoves ==
    ASSUME CommandsInOrder, NEW p \in Processes, IsUnderWay(desk[p]),
           NEW report, Report(p, report) \/ Refuse(p, report), NEW kinds, report.kind \in kinds
    PROVE  Moves(p, {"status", "report"}, kinds)
<1>1. DOMAIN desk = Processes /\ DOMAIN desk[p] = DeskFields
  BY DEF CommandsInOrder, IsUnderWay
<1>2. ASSUME NEW status \in {"done", "refused"},
             desk' = [desk EXCEPT ![p].status = status, ![p].report = report]
      PROVE  Moves(p, {"status", "report"}, kinds)
  <2> DEFINE d == [desk[p] EXCEPT !.status = status, !.report = report]
  <2>1. desk' = [desk EXCEPT ![p] = d]
    BY <1>1, <1>2
  <2>2. /\ DOMAIN d = DeskFields /\ d.status = status /\ d.report = report
        /\ \A f \in DeskFields \ {"status", "report"} : d[f] = desk[p][f]
    BY <1>1 DEF DeskFields
  <2> HIDE DEF d
  <2> QED
    BY <2>1, <2>2 DEF Moves
<1> QED
  BY <1>2 DEF Report, Refuse

LEMMA AdvanceMoves ==
    ASSUME CommandsInOrder, NEW p \in Processes, IsUnderWay(desk[p]), desk[p].status = "running",
           Advance(p)
    PROVE  Moves(p, {"at"}, {})
<1>1. DOMAIN desk = Processes /\ DOMAIN desk[p] = DeskFields
  BY DEF CommandsInOrder, IsUnderWay
<1> DEFINE d == [desk[p] EXCEPT !.at = @ + 1]
<1>2. desk' = [desk EXCEPT ![p] = d]
  BY <1>1 DEF Advance
<1>3. /\ DOMAIN d = DeskFields /\ d.status = "running" /\ d.at = desk[p].at + 1
      /\ \A f \in DeskFields \ {"at"} : d[f] = desk[p][f]
  BY <1>1 DEF DeskFields
<1> HIDE DEF d
<1> QED
  BY <1>2, <1>3 DEF Moves

\* Stages that read or check files.
LEMMA ReadingMoves ==
    ASSUME CommandsInOrder, Typed, NEW p \in Processes,
           \/ ReadRide(p) \/ ReadRides(p) \/ ReadScenario(p) \/ ReadTrips(p) \/ ReadCustomers(p)
           \/ ProvideHistory(p) \/ EndSweep(p)
    PROVE  /\ Moves(p, {"at", "status", "report"},
                    {"context", "file", "trips", "scenario", "no customers", "join", "malformed", "too few rides"})
           /\ Elsewhere
<1> DEFINE fields == {"at", "status", "report"}
           kinds == {"context", "file", "trips", "scenario", "no customers", "join", "malformed", "too few rides"}
<1>1. PICK stage : In(p, stage)
  BY DEF ReadRide, ReadRides, ReadScenario, ReadTrips, ReadCustomers, ProvideHistory, EndSweep
<1>2. IsUnderWay(desk[p]) /\ desk[p].status = "running"
  BY <1>1, AtStage
<1>3. DOMAIN desk = Processes /\ DOMAIN desk[p] = DeskFields
  BY <1>2 DEF CommandsInOrder, IsUnderWay
<1>4. ASSUME NEW report, Report(p, report) \/ Refuse(p, report), report.kind \in kinds
      PROVE  Moves(p, fields, kinds)
  <2>1. Moves(p, {"status", "report"}, kinds)
    BY <1>2, <1>4, EndMoves
  <2> QED
    BY <2>1, MovesMore
<1>5. ASSUME Advance(p) PROVE Moves(p, fields, kinds)
  <2>1. Moves(p, {"at"}, {})
    BY <1>2, <1>5, AdvanceMoves
  <2>2. {"at"} \subseteq fields /\ {} \subseteq kinds
    OBVIOUS
  <2> HIDE DEF fields, kinds
  <2> QED
    BY <2>1, <2>2, MovesMore
<1>6. ASSUME ReadRide(p) PROVE Moves(p, fields, kinds)
  <2> DEFINE faults == ContextFaults(Command(p))
  <2>1. faults = {} => Advance(p)
    BY <1>6 DEF ReadRide
  <2>2. faults # {} => Refuse(p, Faults("context", faults))
    BY <1>6 DEF ReadRide
  <2> HIDE DEF faults
  <2>3. \A kind : Faults(kind, faults).kind = kind
    BY FaultsKind
  <2>4. CASE faults = {}
    BY <1>5, <2>1, <2>4
  <2>5. CASE faults # {}
    BY <1>4, <2>2, <2>3, <2>5
  <2> QED
    BY <2>4, <2>5
<1>7. ASSUME ReadRides(p) PROVE Moves(p, fields, kinds)
  <2> DEFINE faults == DatasetFaults(Command(p).file)
  <2>1. faults = {} => Advance(p)
    BY <1>7 DEF ReadRides
  <2>2. faults # {} => Refuse(p, Faults("file", faults))
    BY <1>7 DEF ReadRides
  <2> HIDE DEF faults
  <2>3. \A kind : Faults(kind, faults).kind = kind
    BY FaultsKind
  <2>4. CASE faults = {}
    BY <1>5, <2>1, <2>4
  <2>5. CASE faults # {}
    BY <1>4, <2>2, <2>3, <2>5
  <2> QED
    BY <2>4, <2>5
<1>8. ASSUME ReadScenario(p) PROVE Moves(p, fields, kinds)
  <2> DEFINE faults == ScenarioFaults(Command(p).trip, Command(p).file)
  <2>1. faults = {} => Advance(p)
    BY <1>8 DEF ReadScenario
  <2>2. faults # {} => Refuse(p, Faults("trips", faults))
    BY <1>8 DEF ReadScenario
  <2> HIDE DEF faults
  <2>3. \A kind : Faults(kind, faults).kind = kind
    BY FaultsKind
  <2>4. CASE faults = {}
    BY <1>5, <2>1, <2>4
  <2>5. CASE faults # {}
    BY <1>4, <2>2, <2>3, <2>5
  <2> QED
    BY <2>4, <2>5
<1>9. ASSUME ReadTrips(p) PROVE Moves(p, fields, kinds)
  <2> DEFINE faults == TripsFaults(Command(p).file)
  <2>1. faults = {} => Advance(p)
    BY <1>9 DEF ReadTrips
  <2>2. faults # {} => Refuse(p, Faults("trips", faults))
    BY <1>9 DEF ReadTrips
  <2> HIDE DEF faults
  <2>3. \A kind : Faults(kind, faults).kind = kind
    BY FaultsKind
  <2>4. CASE faults = {}
    BY <1>5, <2>1, <2>4
  <2>5. CASE faults # {}
    BY <1>4, <2>2, <2>3, <2>5
  <2> QED
    BY <2>4, <2>5
<1>10. ASSUME ProvideHistory(p) PROVE Moves(p, fields, kinds)
  <2>1. \/ Advance(p)
        \/ Refuse(p, Faults("join", JoinFaults(p)))
        \/ Refuse(p, Faults("malformed", Malformed(Rides(p))))
    BY <1>10 DEF ProvideHistory
  <2> QED
    BY <1>4, <1>5, <2>1, FaultsKind
<1>11. ASSUME EndSweep(p) PROVE Moves(p, fields, kinds)
  <2>1. Advance(p) \/ Refuse(p, [kind |-> "too few rides"])
    BY <1>11 DEF EndSweep
  <2> QED
    BY <1>4, <1>5, <2>1
<1>12. ASSUME ReadCustomers(p) PROVE Moves(p, fields, kinds)
  BY <1>4, <1>5, <1>12, CustomersAreRead
<1>13. Elsewhere
  BY DEF ReadRide, ReadRides, ReadScenario, ReadTrips, ReadCustomers, ProvideHistory, EndSweep
<1> QED
  BY <1>5, <1>6, <1>7, <1>8, <1>9, <1>10, <1>11, <1>12, <1>13

\* Stages that fit a model.
LEMMA LearningMoves ==
    ASSUME CommandsInOrder, Typed, NEW p \in Processes, Learn(p) \/ LearnCases(p)
    PROVE  /\ Moves(p, {"at", "lesson", "status", "report"},
                    {"join", "too few rides", "no eligible rides", "no block"})
           /\ Elsewhere
<1> DEFINE fields == {"at", "lesson", "status", "report"}
           kinds == {"join", "too few rides", "no eligible rides", "no block"}
<1>1. PICK stage : In(p, stage)
  BY DEF Learn, LearnCases
<1>2. IsUnderWay(desk[p]) /\ desk[p].status = "running"
  BY <1>1, AtStage
<1>3. DOMAIN desk = Processes /\ DOMAIN desk[p] = DeskFields
  BY <1>2 DEF CommandsInOrder, IsUnderWay
<1>4. ASSUME NEW report, Report(p, report) \/ Refuse(p, report), report.kind \in kinds
      PROVE  Moves(p, fields, kinds)
  <2>1. Moves(p, {"status", "report"}, kinds)
    BY <1>2, <1>4, EndMoves
  <2> QED
    BY <2>1, MovesMore
<1>5. ASSUME NEW value, desk' = [desk EXCEPT ![p].at = @ + 1, ![p].lesson = value]
      PROVE  Moves(p, fields, kinds)
  <2> DEFINE d == [desk[p] EXCEPT !.at = @ + 1, !.lesson = value]
  <2>1. desk' = [desk EXCEPT ![p] = d]
    BY <1>3, <1>5
  <2>2. /\ DOMAIN d = DeskFields /\ d.status = "running" /\ d.at = desk[p].at + 1
        /\ \A f \in DeskFields \ {"at", "lesson"} : d[f] = desk[p][f]
    BY <1>2, <1>3 DEF DeskFields
  <2> HIDE DEF d
  <2>3. Moves(p, {"at", "lesson"}, {})
    BY <2>1, <2>2 DEF Moves
  <2>4. {"at", "lesson"} \subseteq fields /\ {} \subseteq kinds
    OBVIOUS
  <2> HIDE DEF fields, kinds
  <2> QED
    BY <2>3, <2>4, MovesMore
<1>6. ASSUME Learn(p) PROVE Moves(p, fields, kinds)
  <2>1. \/ Refuse(p, Faults("join", JoinFaults(p)))
        \/ Refuse(p, [kind |-> "too few rides"])
        \/ \E lesson : desk' = [desk EXCEPT ![p].at = @ + 1, ![p].lesson = lesson]
    BY <1>6 DEF Learn
  <2> QED
    BY <1>4, <1>5, <2>1, FaultsKind
<1>7. ASSUME LearnCases(p) PROVE Moves(p, fields, kinds)
  <2>1. \/ Refuse(p, [kind |-> "no eligible rides"])
        \/ Refuse(p, [kind |-> "no block"])
        \/ \E lesson : desk' = [desk EXCEPT ![p].at = @ + 1, ![p].lesson = lesson]
    BY <1>7 DEF LearnCases
  <2> QED
    BY <1>4, <1>5, <2>1
<1>8. Elsewhere
  BY DEF Learn, LearnCases
<1> QED
  BY <1>5, <1>6, <1>7, <1>8

\* The sweep.
LEMMA SweepingMoves ==
    ASSUME CommandsInOrder, Typed, NEW p \in Processes, BeginSweep(p) \/ SweepOn(p)
    PROVE  /\ Moves(p, {"at", "sweep", "status", "report"},
                    {"join", "malformed"})
           /\ Elsewhere
<1> DEFINE fields == {"at", "sweep", "status", "report"}
           kinds == {"join", "malformed"}
<1>1. PICK stage : In(p, stage)
  BY DEF BeginSweep, SweepOn
<1>2. IsUnderWay(desk[p]) /\ desk[p].status = "running"
  BY <1>1, AtStage
<1>3. DOMAIN desk = Processes /\ DOMAIN desk[p] = DeskFields
  BY <1>2 DEF CommandsInOrder, IsUnderWay
<1>4. ASSUME NEW report, Report(p, report) \/ Refuse(p, report), report.kind \in kinds
      PROVE  Moves(p, fields, kinds)
  <2>1. Moves(p, {"status", "report"}, kinds)
    BY <1>2, <1>4, EndMoves
  <2> QED
    BY <2>1, MovesMore
<1>5. ASSUME NEW value, desk' = [desk EXCEPT ![p].at = @ + 1, ![p].sweep = value]
      PROVE  Moves(p, fields, kinds)
  <2> DEFINE d == [desk[p] EXCEPT !.at = @ + 1, !.sweep = value]
  <2>1. desk' = [desk EXCEPT ![p] = d]
    BY <1>3, <1>5
  <2>2. /\ DOMAIN d = DeskFields /\ d.status = "running" /\ d.at = desk[p].at + 1
        /\ \A f \in DeskFields \ {"at", "sweep"} : d[f] = desk[p][f]
    BY <1>2, <1>3 DEF DeskFields
  <2> HIDE DEF d
  <2>3. Moves(p, {"at", "sweep"}, {})
    BY <2>1, <2>2 DEF Moves
  <2>4. {"at", "sweep"} \subseteq fields /\ {} \subseteq kinds
    OBVIOUS
  <2> HIDE DEF fields, kinds
  <2> QED
    BY <2>3, <2>4, MovesMore
<1>6. ASSUME BeginSweep(p) PROVE Moves(p, fields, kinds)
  <2>1. \/ Refuse(p, Faults("join", JoinFaults(p)))
        \/ Refuse(p, Faults("malformed", Malformed(Rides(p))))
        \/ \E sweep : desk' = [desk EXCEPT ![p].at = @ + 1, ![p].sweep = sweep]
    BY <1>6 DEF BeginSweep
  <2> QED
    BY <1>4, <1>5, <2>1, FaultsKind
<1>7. ASSUME SweepOn(p) PROVE Moves(p, fields, kinds)
  <2>1. PICK sweep : desk' = [desk EXCEPT ![p].sweep = sweep]
    BY <1>7 DEF SweepOn
  <2> DEFINE d == [desk[p] EXCEPT !.sweep = sweep]
  <2>2. desk' = [desk EXCEPT ![p] = d]
    BY <1>3, <2>1
  <2>3. /\ DOMAIN d = DeskFields /\ d.status = "running" /\ d.at = desk[p].at
        /\ \A f \in DeskFields \ {"sweep"} : d[f] = desk[p][f]
    BY <1>2, <1>3 DEF DeskFields
  <2> HIDE DEF d
  <2>4. Moves(p, {"sweep"}, {})
    BY <2>2, <2>3 DEF Moves
  <2>5. {"sweep"} \subseteq fields /\ {} \subseteq kinds
    OBVIOUS
  <2> HIDE DEF fields, kinds
  <2> QED
    BY <2>4, <2>5, MovesMore
<1>8. Elsewhere
  BY DEF BeginSweep, SweepOn
<1> QED
  BY <1>5, <1>6, <1>7, <1>8

\* Stages that end with a report, whatever it says.
LEMMA ReportingMoves ==
    ASSUME CommandsInOrder, Typed, NEW p \in Processes, Validate(p) \/ Follow(p) \/ FollowTrips(p)
    PROVE  /\ Moves(p, {"status", "report"},
                    {"valid", "out of range", "stopped", "ride", "rides"})
           /\ Elsewhere
<1> DEFINE fields == {"status", "report"}
           kinds == {"valid", "out of range", "stopped", "ride", "rides"}
<1>1. PICK stage : In(p, stage)
  BY DEF Validate, Follow, FollowTrips
<1>2. IsUnderWay(desk[p]) /\ desk[p].status = "running"
  BY <1>1, AtStage
<1>3. DOMAIN desk = Processes /\ DOMAIN desk[p] = DeskFields
  BY <1>2 DEF CommandsInOrder, IsUnderWay
<1>4. ASSUME NEW report, Report(p, report) \/ Refuse(p, report), report.kind \in kinds
      PROVE  Moves(p, fields, kinds)
  <2>1. Moves(p, {"status", "report"}, kinds)
    BY <1>2, <1>4, EndMoves
  <2> QED
    BY <2>1, MovesMore
<1>5. ASSUME Validate(p) PROVE Moves(p, fields, kinds)
  <2>1. Report(p, [kind |-> "valid"])
    BY <1>5 DEF Validate
  <2> QED
    BY <1>4, <2>1
<1>6. ASSUME Follow(p) PROVE Moves(p, fields, kinds)
  <2>1. PICK report : (Report(p, report) \/ Refuse(p, report)) /\ report.kind \in {"stopped", "ride"}
    BY <1>6 DEF Follow
  <2> QED
    BY <1>4, <2>1
<1>7. ASSUME FollowTrips(p) PROVE Moves(p, fields, kinds)
  <2>1. PICK trips, sessions : Report(p, TripsReport(trips, sessions)) \/ Refuse(p, TripsReport(trips, sessions))
    BY <1>7 DEF FollowTrips
  <2> QED
    BY <1>4, <2>1, TripsKind
<1>8. Elsewhere
  BY DEF Validate, Follow, FollowTrips
<1> QED
  BY <1>5, <1>6, <1>7, <1>8

\* The evaluation of a personalized model.
LEMMA EvaluatingCasesMoves ==
    ASSUME CommandsInOrder, Typed, NEW p \in Processes, EvaluateCases(p)
    PROVE  Moves(p, {"status", "report"}, {"no block", "personalization"}) /\ Elsewhere
<1> DEFINE kinds == {"no block", "personalization"}
<1>1. In(p, ToEvaluateCases)
  BY DEF EvaluateCases, ToEvaluateCases
<1>2. IsUnderWay(desk[p])
  BY <1>1, AtStage
<1>3. PICK test, base, personal :
          Report(p, CasesReport(p, test, base, personal)) \/ Refuse(p, [kind |-> "no block"])
  BY DEF EvaluateCases
<1>4. ASSUME NEW report, Report(p, report) \/ Refuse(p, report), report.kind \in kinds
      PROVE  Moves(p, {"status", "report"}, kinds)
  BY <1>2, <1>4, EndMoves
<1>5. Moves(p, {"status", "report"}, kinds)
  BY <1>3, <1>4, CasesKind
<1>6. Elsewhere
  BY DEF EvaluateCases
<1> QED
  BY <1>5, <1>6

\* The evaluation of a model.
LEMMA EvaluatingMoves ==
    ASSUME CommandsInOrder, Typed, NEW p \in Processes, EvaluatePredictor(p)
    PROVE  Moves(p, {"status", "report"}, {"join", "too few rides", "predictor"}) /\ Elsewhere
<1> DEFINE kinds == {"join", "too few rides", "predictor"}
<1>1. PICK stage : In(p, stage)
  BY DEF EvaluatePredictor
<1>2. IsUnderWay(desk[p])
  BY <1>1, AtStage
<1>3. ASSUME NEW report, Report(p, report) \/ Refuse(p, report), report.kind \in kinds
      PROVE  Moves(p, {"status", "report"}, kinds)
  BY <1>2, <1>3, EndMoves
<1>4. CASE JoinFaults(p) # {}
  <2>1. Refuse(p, Faults("join", JoinFaults(p)))
    BY <1>4 DEF EvaluatePredictor
  <2>2. Faults("join", JoinFaults(p)).kind = "join"
    BY FaultsKind
  <2> QED
    BY <1>3, <2>1, <2>2 DEF EvaluatePredictor
<1>5. CASE JoinFaults(p) = {} /\ Rides(p) = <<>>
  BY <1>3, <1>5 DEF EvaluatePredictor
<1>6. CASE JoinFaults(p) = {} /\ Rides(p) # <<>>
  <2>1. PICK raws, baseline : Report(p, PredictorReport(p, raws, baseline))
    BY <1>6 DEF EvaluatePredictor
  <2> QED
    BY <1>3, <2>1, PredictorKind DEF EvaluatePredictor
<1> QED
  BY <1>4, <1>5, <1>6 DEF EvaluatePredictor

\* Jobs with artifacts.
LEMMA ArtifactMoves ==
    ASSUME CommandsInOrder, Typed, NEW p \in Processes, LoadReturns(p) \/ SaveReturns(p) \/ Killed(p)
    PROVE  /\ Moves(p, {"at", "base", "personalized", "status", "report"}, {"no artifact", "trained", "killed"})
           /\ UNCHANGED <<typed, models, lessons>>
<1> DEFINE fields == {"at", "base", "personalized", "status", "report"}
           kinds == {"no artifact", "trained", "killed"}
<1>1. jobs[p] # NoJob
  <2>1. \/ jobs[p].doing = "loaded" \/ jobs[p].doing = "load failed" \/ jobs[p].doing = "save"
    BY DEF LoadReturns, SaveReturns, Killed, Dispose, FinishSave, AbandonSave, IsDoing
  <2>2. NoJob.doing = "nothing"
    BY DEF NoJob
  <2> QED
    BY <2>1, <2>2
<1>2. IsUnderWay(desk[p]) /\ desk[p].status = "running" /\ jobs[p].kind \in Kinds
  BY <1>1, JobAtStage
<1>3. DOMAIN desk = Processes /\ DOMAIN desk[p] = DeskFields
  BY <1>2 DEF CommandsInOrder, IsUnderWay
<1>4. ASSUME LoadReturns(p) /\ IsDoing(p, "loaded") PROVE Moves(p, fields, kinds)
  <2> DEFINE d == [[desk[p] EXCEPT !.at = @ + 1] EXCEPT ![jobs[p].kind] = jobs[p].seen]
  <2>1. jobs[p].kind \in {"base", "personalized"}
    BY <1>2, CommandAssumption
  <2>2. desk' = [desk EXCEPT ![p] = d]
    BY <1>3, <1>4 DEF LoadReturns
  <2>3. /\ DOMAIN d = DeskFields /\ d.status = "running" /\ d.at = desk[p].at + 1
        /\ \A f \in DeskFields \ {"at", "base", "personalized"} : d[f] = desk[p][f]
    BY <1>2, <1>3, <2>1 DEF DeskFields
  <2> HIDE DEF d
  <2>4. Moves(p, {"at", "base", "personalized"}, {})
    BY <2>2, <2>3 DEF Moves
  <2>5. {"at", "base", "personalized"} \subseteq fields /\ {} \subseteq kinds
    OBVIOUS
  <2> HIDE DEF fields, kinds
  <2> QED
    BY <2>4, <2>5, MovesMore
<1>5. ASSUME NEW report, Report(p, report) \/ Refuse(p, report), report.kind \in kinds
      PROVE  Moves(p, fields, kinds)
  <2>1. Moves(p, {"status", "report"}, kinds)
    BY <1>2, <1>5, EndMoves
  <2>2. {"status", "report"} \subseteq fields
    OBVIOUS
  <2> HIDE DEF fields
  <2> QED
    BY <2>1, <2>2, MovesMore
<1>6. ASSUME LoadReturns(p) PROVE Moves(p, fields, kinds)
  <2>1. CASE IsDoing(p, "loaded")
    BY <1>4, <1>6, <2>1
  <2>2. CASE ~IsDoing(p, "loaded")
    <3>1. Refuse(p, [kind |-> "no artifact"])
      BY <1>6, <2>2 DEF LoadReturns
    <3> QED
      BY <1>5, <3>1
  <2> QED
    BY <2>1, <2>2
<1>7. ASSUME SaveReturns(p) PROVE Moves(p, fields, kinds)
  <2>1. Report(p, [kind |-> "trained"])
    BY <1>7 DEF SaveReturns
  <2> QED
    BY <1>5, <2>1
<1>8. ASSUME Killed(p) PROVE Moves(p, fields, kinds)
  <2>1. Refuse(p, [kind |-> "killed"])
    BY <1>8 DEF Killed
  <2> QED
    BY <1>5, <2>1
<1>9. UNCHANGED <<typed, models, lessons>>
  BY DEF LoadReturns, SaveReturns, Killed
<1> QED
  BY <1>6, <1>7, <1>8, <1>9

-----------------------------------------------------------------------------
(* Answers are made of what a model predicts for a ride that is accepted.  *)

IsMade(answer) ==
    /\ answer.est \in Nat \ {0} /\ answer.step \in Nat \ {0}
    /\ IsRaw(answer.raw) /\ answer.q = Repaired(answer.raw)
    /\ \A profile \in DOMAIN answer.blocks :
        answer.blocks[profile] = RecommendFor(answer.est, answer.q, answer.step, profile)

IsMadeComparison(report) ==
    \E compared, rides, raws, step :
        /\ AreCompared(rides, raws) /\ {"exact_estimate", "fixed_buffer"} \subseteq compared
        /\ report = ComparisonReport(compared, rides, raws, step)

ReportIsMade(report) ==
    /\ report.kind = "answer" => IsMade(report)
    /\ report.kind = "comparison" => IsMadeComparison(report)
    /\ report.kind = "customers" => \A label \in DOMAIN report.answers : IsMade(report.answers[label])

DeskIsMade(d) ==
    /\ d.status = "running" => \A i \in DOMAIN d.answers : IsMade(d.answers[i])
    /\ d.status \in {"done", "refused"} => ReportIsMade(d.report)

AnswersAreMade ==
    /\ \A raw \in models : IsRaw(raw)
    /\ \A p \in Processes : DeskIsMade(desk[p])

LEMMA AnswerIsMade ==
    ASSUME NEW payload, IsContext(payload), NEW history, NEW raw, IsRaw(raw), NEW step \in Nat \ {0}, NEW asked
    PROVE  IsMade(AnswerTo(RideOf(payload), history, raw, step, asked))
<1>1. RideOf(payload).est \in Nat \ {0}
  <2>1. payload["estimated_amount_paise"].number \in 1 .. MaxPaise
    BY DEF IsContext, IsPaise
  <2>2. MaxPaise \in Nat
    BY PaiseAssumption
  <2> QED
    BY <2>1, <2>2 DEF RideOf
<1> DEFINE est == RideOf(payload).est
           answer == AnswerTo(RideOf(payload), history, raw, step, asked)
<1>2. /\ answer.est = est /\ answer.step = step /\ answer.raw = raw /\ answer.q = Repaired(raw)
      /\ answer.blocks = [profile \in asked |-> RecommendFor(est, Repaired(raw), step, profile)]
  BY DEF AnswerTo
<1> HIDE DEF answer, est
<1> QED
  BY <1>1, <1>2 DEF IsMade, answer, est

\* A step of p that leaves p's desk made keeps them all so.
LEMMA MadeStep ==
    ASSUME CommandsInOrder, AnswersAreMade, UNCHANGED models,
           NEW p \in Processes, NEW d, desk' = [desk EXCEPT ![p] = d], DeskIsMade(d)
    PROVE  AnswersAreMade'
<1>1. desk'[p] = d /\ \A r \in Processes \ {p} : desk'[r] = desk[r]
  BY DEF CommandsInOrder
<1>2. \A r \in Processes : DeskIsMade(desk'[r])
  BY <1>1 DEF AnswersAreMade
<1>3. \A raw \in models' : IsRaw(raw)
  BY DEF AnswersAreMade
<1> QED
  BY <1>2, <1>3 DEF AnswersAreMade

\* Most steps leave the answers alone and end without one.
LEMMA OthersKeepAnswers ==
    ASSUME CommandsInOrder, AnswersAreMade, UNCHANGED models,
           NEW p \in Processes, desk[p].status = "running",
           NEW fields, NEW kinds, Moves(p, fields, kinds), "answers" \notin fields,
           kinds \cap {"answer", "customers", "comparison"} = {}
    PROVE  AnswersAreMade'
<1>1. PICK d : /\ desk' = [desk EXCEPT ![p] = d] /\ DOMAIN d = DeskFields
               /\ \A f \in DeskFields \ fields : d[f] = desk[p][f]
               /\ d.status \in {"running", "done", "refused"}
               /\ d.status # "running" => d.report.kind \in kinds
  BY DEF Moves
<1>2. d.answers = desk[p].answers
  BY <1>1 DEF DeskFields
<1>3. DeskIsMade(d)
  BY <1>1, <1>2 DEF AnswersAreMade, DeskIsMade, ReportIsMade
<1> QED
  BY <1>1, <1>3, MadeStep

LEMMA TypeKeepsAnswers ==
    ASSUME CommandsInOrder, AnswersAreMade, NEW p \in Processes, Type(p)
    PROVE  AnswersAreMade'
<1> DEFINE d == Started(Head(typed[p]))
<1>1. desk' = [desk EXCEPT ![p] = d] /\ UNCHANGED models
  BY DEF Type
<1>2. d.status = "running" /\ d.answers = <<>>
  BY DEF Started
<1> HIDE DEF d
<1>3. DeskIsMade(d)
  BY <1>2 DEF DeskIsMade
<1> QED
  BY <1>1, <1>3, MadeStep

LEMMA AnswerKeepsAnswers ==
    ASSUME CommandsInOrder, Typed, AnswersAreMade, NEW p \in Processes, Answer(p)
    PROVE  AnswersAreMade'
<1>1. In(p, ToAnswer) /\ UNCHANGED models
  BY DEF Answer, ToAnswer, Elsewhere
<1>2. IsUnderWay(desk[p]) /\ StageOf(desk[p]) = ToAnswer
  BY <1>1, AtStage
<1>3. IsContext(Command(p).ride)
  BY <1>2, RideIsAccepted DEF Command, IsAcceptedRide
<1>4. Command(p).step \in Nat \ {0}
  BY <1>2 DEF IsUnderWay, IsCommand, Command
<1> DEFINE history == IF Command(p).name \in AnsweringPersonally
                      THEN FeaturesFor(Rides(p), RideOf(Command(p).ride)) ELSE Features(<<>>)
           asked == Asked(Command(p))
           Made(raw) == AnswerTo(RideOf(Command(p).ride), history, raw, Command(p).step, asked)
<1>5. PICK raw \in models : Report(p, Made(raw)) \/ Refuse(p, Made(raw))
  <2>1. \E raw \in models : IF HasBlocks(Made(raw)) THEN Report(p, Made(raw)) ELSE Refuse(p, Made(raw))
    BY DEF Answer
  <2> HIDE DEF Made
  <2> QED
    BY <2>1
<1> HIDE DEF history, asked
<1> DEFINE answer == Made(raw)
<1>6. IsMade(answer) /\ answer.kind = "answer"
  <2>1. IsRaw(raw)
    BY <1>5 DEF AnswersAreMade
  <2> QED
    BY <1>3, <1>4, <2>1, AnswerIsMade, AnswerKind
<1>7. Report(p, answer) \/ Refuse(p, answer)
  BY <1>5
<1> HIDE DEF answer
<1>8. DOMAIN desk = Processes /\ DOMAIN desk[p] = DeskFields
  BY <1>2 DEF CommandsInOrder, IsUnderWay
<1>9. ASSUME NEW status \in {"done", "refused"},
             desk' = [desk EXCEPT ![p].status = status, ![p].report = answer]
      PROVE  AnswersAreMade'
  <2> DEFINE d == [desk[p] EXCEPT !.status = status, !.report = answer]
  <2>1. desk' = [desk EXCEPT ![p] = d]
    BY <1>8, <1>9
  <2>2. d.status = status /\ d.report = answer
    BY <1>8 DEF DeskFields
  <2> HIDE DEF d
  <2>3. DeskIsMade(d)
    BY <1>6, <2>2 DEF DeskIsMade, ReportIsMade
  <2> QED
    BY <1>1, <2>1, <2>3, MadeStep
<1> QED
  BY <1>7, <1>9 DEF Report, Refuse

LEMMA BaselinesAreCompared ==
    ASSUME NEW d, IsUnderWay(d), StageOf(d) = ToCompare
    PROVE  {"exact_estimate", "fixed_buffer"} \subseteq ComparedBy(d.command.name)
<1> DEFINE name == d.command.name
<1>1. name \in CommandNames /\ d.at \in 1 .. Len(Stages(name))
  BY DEF IsUnderWay, IsCommand
<1>2. InOrderAt(name, Stages(name), d.at) /\ Stages(name)[d.at] = ToCompare
  BY <1>1, StagesAreInOrder DEF StageOf
<1> HIDE DEF name
<1>3. name \in {"evaluate-baselines", "evaluate-optimizer", "evaluate-risk-profiles"}
  BY <1>2 DEF InOrderAt, Comparing
<1> QED
  BY <1>3 DEF ComparedBy, name

LEMMA CompareKeepsAnswers ==
    ASSUME CommandsInOrder, Typed, AnswersAreMade, NEW p \in Processes, Compare(p)
    PROVE  AnswersAreMade'
<1>1. In(p, ToCompare) /\ UNCHANGED models
  BY DEF Compare, ToCompare, Elsewhere
<1>2. IsUnderWay(desk[p]) /\ StageOf(desk[p]) = ToCompare /\ desk[p].status = "running"
  BY <1>1, AtStage
<1>3. DOMAIN desk = Processes /\ DOMAIN desk[p] = DeskFields
  BY <1>2 DEF CommandsInOrder, IsUnderWay
<1>4. CASE CompareFaults(p) # {}
  <2>1. Refuse(p, Faults("join", CompareFaults(p)))
    BY <1>4 DEF Compare
  <2>2. Faults("join", CompareFaults(p)).kind = "join"
    BY FaultsKind
  <2>3. Moves(p, {"status", "report"}, {"join"})
    BY <1>2, <2>1, <2>2, EndMoves
  <2> QED
    BY <1>1, <1>2, <2>3, OthersKeepAnswers
<1>5. CASE CompareFaults(p) = {}
  <2> DEFINE Made(raws) == ComparisonReport(ComparedBy(Command(p).name), Rides(p), raws, Command(p).step)
  <2>1. PICK raws \in [Ids(Rides(p)) -> models] : Report(p, Made(raws)) \/ Refuse(p, Made(raws))
    <3>1. \E raws \in [Ids(Rides(p)) -> models] :
            IF Made(raws).kind = "comparison" THEN Report(p, Made(raws)) ELSE Refuse(p, Made(raws))
      BY <1>5 DEF Compare
    <3> HIDE DEF Made
    <3> QED
      BY <3>1
  <2>2. JoinFaults(p) = {} /\ RidesRead(p) # <<>>
    BY <1>5 DEF CompareFaults, Fault
  <2>3. PICK m \in Nat : /\ DOMAIN Rides(p) = 1 .. m /\ Len(Rides(p)) = m /\ m > 0
                         /\ \A i \in 1 .. m : IsJoinedRide(Rides(p)[i])
    <3>1. \A i \in DOMAIN Command(p).file.records : IsRecord(Command(p).file.records[i])
      BY <1>2, RidesAreAccepted DEF UsingRides, Command
    <3>2. IsParsedFile(Command(p).file)
      BY <1>2 DEF IsUnderWay, IsCommand, Command
    <3> QED
      BY <2>2, <3>1, <3>2, RidesAreJoined
  <2>4. \A i \in 1 .. m : IsRaw(raws[Rides(p)[i].id])
    <3>1. \A i \in 1 .. m : Rides(p)[i].id \in Ids(Rides(p))
      BY <2>3 DEF Ids
    <3>2. \A raw \in models : IsRaw(raw)
      BY DEF AnswersAreMade
    <3> QED
      BY <2>1, <3>1, <3>2
  <2>5. AreCompared(Rides(p), raws)
    BY <2>3, <2>4 DEF AreCompared
  <2> DEFINE report == Made(raws)
  <2>6. IsMadeComparison(report)
    <3>1. {"exact_estimate", "fixed_buffer"} \subseteq ComparedBy(Command(p).name)
      BY <1>2, BaselinesAreCompared DEF Command
    <3> QED
      BY <2>5, <3>1 DEF IsMadeComparison
  <2>7. report.kind \notin {"answer", "customers"}
    BY ComparisonKind
  <2>8. Report(p, report) \/ Refuse(p, report)
    BY <2>1
  <2> HIDE DEF report
  <2>9. ASSUME NEW status \in {"done", "refused"},
               desk' = [desk EXCEPT ![p].status = status, ![p].report = report]
        PROVE  AnswersAreMade'
    <3> DEFINE d == [desk[p] EXCEPT !.status = status, !.report = report]
    <3>1. desk' = [desk EXCEPT ![p] = d]
      BY <1>3, <2>9
    <3>2. d.status = status /\ d.report = report
      BY <1>3 DEF DeskFields
    <3> HIDE DEF d
    <3>3. DeskIsMade(d)
      BY <2>6, <2>7, <3>2 DEF DeskIsMade, ReportIsMade
    <3> QED
      BY <1>1, <3>1, <3>3, MadeStep
  <2> QED
    BY <2>8, <2>9 DEF Report, Refuse
<1> QED
  BY <1>4, <1>5

LEMMA CompareCustomerKeepsAnswers ==
    ASSUME CommandsInOrder, Typed, AnswersAreMade, NEW p \in Processes, CompareCustomer(p)
    PROVE  AnswersAreMade'
<1>1. In(p, ToCustomers) /\ UNCHANGED models /\ Len(desk[p].answers) < Len(Command(p).customers)
  BY DEF CompareCustomer, ToCustomers, Elsewhere
<1>2. IsUnderWay(desk[p]) /\ desk[p].status = "running"
  BY <1>1, AtStage
<1>3. DOMAIN desk = Processes /\ DOMAIN desk[p] = DeskFields
  BY <1>2 DEF CommandsInOrder, IsUnderWay
<1>4. ASSUME NEW report, Refuse(p, report), IsRefusal(p, report)
      PROVE  AnswersAreMade'
  <2>1. report.kind \in {"no customer", "join", "malformed", "context", "file"}
    BY <1>4, RefusalKind
  <2>2. Moves(p, {"status", "report"}, {"no customer", "join", "malformed", "context", "file"})
    BY <1>2, <1>4, <2>1, EndMoves
  <2> QED
    BY <1>1, <1>2, <2>2, OthersKeepAnswers
<1>5. ASSUME IsClean(Customer(p)), IsAnswered(p) PROVE AnswersAreMade'
  <2>1. IsClean(Customer(p))
    BY <1>5
  <2>2. PICK history : \E raw \in models :
            \/ desk' = [desk EXCEPT ![p].answers = Append(@, AnswerOf(p, history, raw))]
            \/ Refuse(p, AnswerOf(p, history, raw))
    BY <1>5 DEF IsAnswered
  <2>3. PICK raw \in models :
            \/ desk' = [desk EXCEPT ![p].answers = Append(@, AnswerOf(p, history, raw))]
            \/ Refuse(p, AnswerOf(p, history, raw))
    BY <2>2
  <2>4. PICK answer : answer = AnswerOf(p, history, raw)
    OBVIOUS
  <2>5. IsMade(answer) /\ answer.kind = "answer"
    <3>1. IsRaw(raw)
      BY DEF AnswersAreMade
    <3>2. IsCommand(Command(p)) /\ Command(p).step \in Nat \ {0}
      BY <1>2 DEF IsUnderWay, IsCommand, Command
    <3>3. Len(desk[p].answers) \in Nat /\ Len(Command(p).customers) \in Nat
          /\ DOMAIN Command(p).customers = 1 .. Len(Command(p).customers)
      BY <1>2, <3>2, CommandParts DEF IsUnderWay
    <3>4. Len(desk[p].answers) + 1 \in DOMAIN Command(p).customers
      BY <1>1, <3>3
    <3>5. IsAccepted(Customer(p))
      BY <2>1, <3>2, <3>4, CleanIsAccepted DEF Customer
    <3>6. IsContext(Customer(p).ride)
      BY <3>5 DEF IsAccepted, IsAcceptedRide
    <3> QED
      BY <2>4, <3>1, <3>2, <3>6, AnswerIsMade, AnswerKind DEF AnswerOf
  <2>6. CASE Refuse(p, answer)
    <3> DEFINE d == [desk[p] EXCEPT !.status = "refused", !.report = answer]
    <3>1. desk' = [desk EXCEPT ![p] = d]
      BY <1>3, <2>6 DEF Refuse
    <3>2. d.status = "refused" /\ d.report = answer
      BY <1>3 DEF DeskFields
    <3> HIDE DEF d
    <3>3. DeskIsMade(d)
      BY <2>5, <3>2 DEF DeskIsMade, ReportIsMade
    <3> QED
      BY <1>1, <3>1, <3>3, MadeStep
  <2>7. CASE desk' = [desk EXCEPT ![p].answers = Append(@, answer)]
    <3> DEFINE d == [desk[p] EXCEPT !.answers = Append(@, answer)]
    <3>1. desk' = [desk EXCEPT ![p] = d]
      BY <1>3, <2>7
    <3>2. d.status = "running" /\ d.answers = Append(desk[p].answers, answer)
      BY <1>2, <1>3 DEF DeskFields
    <3> HIDE DEF d
    <3>3. PICK S : desk[p].answers \in Seq(S)
      BY <1>2 DEF IsUnderWay
    <3>4. \A i \in DOMAIN d.answers :
            d.answers[i] = answer \/ (i \in DOMAIN desk[p].answers /\ d.answers[i] = desk[p].answers[i])
      BY <3>2, <3>3
    <3>5. DeskIsMade(d)
      BY <1>2, <2>5, <3>2, <3>4 DEF DeskIsMade, AnswersAreMade
    <3> QED
      BY <1>1, <3>1, <3>5, MadeStep
  <2> QED
    BY <2>3, <2>4, <2>6, <2>7
<1> QED
  BY <1>4, <1>5, CustomerIsRefusedOrAnswered

LEMMA CustomersComparedKeepsAnswers ==
    ASSUME CommandsInOrder, Typed, AnswersAreMade, NEW p \in Processes, CustomersCompared(p)
    PROVE  AnswersAreMade'
<1>1. In(p, ToCustomers) /\ UNCHANGED models /\ Len(desk[p].answers) = Len(Command(p).customers)
  BY DEF CustomersCompared, ToCustomers, Elsewhere
<1>2. IsUnderWay(desk[p]) /\ desk[p].status = "running"
  BY <1>1, AtStage
<1>3. DOMAIN desk = Processes /\ DOMAIN desk[p] = DeskFields
  BY <1>2 DEF CommandsInOrder, IsUnderWay
<1> DEFINE customers == Command(p).customers
           Labelled(label) == {i \in DOMAIN customers : customers[i].label = label}
           report == [kind |-> "customers",
                      answers |-> [label \in {customers[i].label : i \in DOMAIN customers} |->
                                    desk[p].answers[Max(Labelled(label))]]]
<1>4. Report(p, report)
  BY DEF CustomersCompared
<1>5. /\ Len(customers) \in Nat /\ DOMAIN customers = 1 .. Len(customers)
      /\ DOMAIN desk[p].answers = 1 .. Len(customers)
  <2>1. customers \in Seq(Range(customers))
    BY <1>2 DEF IsUnderWay, IsCommand, Command
  <2>2. PICK S : desk[p].answers \in Seq(S)
    BY <1>2 DEF IsUnderWay
  <2> HIDE DEF customers
  <2>3. Len(desk[p].answers) = Len(customers)
    BY <1>1 DEF customers
  <2> QED
    BY <2>1, <2>2, <2>3
<1>6. \A i \in DOMAIN desk[p].answers : IsMade(desk[p].answers[i])
  BY <1>2 DEF AnswersAreMade, DeskIsMade
<1>7. ASSUME NEW label \in {customers[i].label : i \in DOMAIN customers}
      PROVE  IsMade(desk[p].answers[Max(Labelled(label))])
  <2> HIDE DEF customers
  <2>1. Labelled(label) \subseteq 1 .. Len(customers) /\ Labelled(label) # {}
    BY <1>5
  <2> HIDE DEF Labelled
  <2>2. IsFiniteSet(1 .. Len(customers))
    BY <1>5, NumbersAreFinite
  <2>3. IsFiniteSet(Labelled(label))
    BY <2>1, <2>2, FS_Subset
  <2>4. Labelled(label) \subseteq Int
    BY <1>5, <2>1
  <2>5. Max(Labelled(label)) \in Labelled(label)
    BY <2>1, <2>3, <2>4, MaxIsLargest
  <2> QED
    BY <1>5, <1>6, <2>1, <2>5
<1>8. ReportIsMade(report)
  <2>1. report.kind = "customers" /\ DOMAIN report.answers = {customers[i].label : i \in DOMAIN customers}
    OBVIOUS
  <2>2. \A label \in DOMAIN report.answers : report.answers[label] = desk[p].answers[Max(Labelled(label))]
    OBVIOUS
  <2> HIDE DEF report, customers, Labelled
  <2> QED
    BY <1>7, <2>1, <2>2 DEF ReportIsMade
<1> HIDE DEF report
<1> DEFINE d == [desk[p] EXCEPT !.status = "done", !.report = report]
<1>9. desk' = [desk EXCEPT ![p] = d]
  BY <1>3, <1>4 DEF Report
<1>10. d.status = "done" /\ d.report = report
  BY <1>3 DEF DeskFields
<1> HIDE DEF d
<1>11. DeskIsMade(d)
  BY <1>8, <1>10 DEF DeskIsMade
<1> QED
  BY <1>1, <1>9, <1>11, MadeStep

LEMMA CommandStepKeepsAnswers ==
    CommandsInOrder /\ Typed /\ AnswersAreMade /\ [CommandNext]_commandVars => AnswersAreMade'
<1> SUFFICES ASSUME CommandsInOrder, Typed, AnswersAreMade, [CommandNext]_commandVars
             PROVE  AnswersAreMade'
  OBVIOUS
<1>1. ASSUME UNCHANGED <<desk, models>> PROVE AnswersAreMade'
  BY <1>1 DEF AnswersAreMade
<1>2. CASE UNCHANGED commandVars
  BY <1>1, <1>2 DEF commandVars
<1>3. CASE CommandNext
  <2>1. PICK p \in Processes :
            \/ Type(p) \/ ReadRide(p) \/ ReadRides(p) \/ Validate(p)
            \/ \E k \in Kinds : Load(p, k) \/ Save(p, k)
            \/ UseFiles(p) \/ LoadReturns(p) \/ SaveReturns(p) \/ Killed(p)
            \/ Learn(p) \/ EvaluatePredictor(p)
            \/ ProvideHistory(p) \/ Answer(p) \/ Compare(p)
            \/ ReadScenario(p) \/ ReadTrips(p) \/ ReadCustomers(p) \/ Follow(p) \/ FollowTrips(p)
            \/ CompareCustomer(p) \/ CustomersCompared(p)
            \/ BeginSweep(p) \/ SweepOn(p) \/ EndSweep(p) \/ LearnCases(p) \/ EvaluateCases(p)
    BY <1>3 DEF CommandNext
  <2>2. ASSUME NEW fields, NEW kinds, Moves(p, fields, kinds), "answers" \notin fields,
               kinds \cap {"answer", "customers", "comparison"} = {}, UNCHANGED models,
               desk[p].status = "running"
        PROVE  AnswersAreMade'
    BY <2>2, OthersKeepAnswers
  <2>3. CASE ReadRide(p) \/ ReadRides(p) \/ ReadScenario(p) \/ ReadTrips(p) \/ ReadCustomers(p) \/ ProvideHistory(p) \/ EndSweep(p)
    <3>1. desk[p].status = "running"
      BY <2>3 DEF ReadRide, ReadRides, ReadScenario, ReadTrips, ReadCustomers, ProvideHistory, EndSweep, In, Running
    <3> QED
      BY <2>2, <2>3, <3>1, ReadingMoves DEF Elsewhere
  <2>4. CASE Learn(p) \/ LearnCases(p)
    <3>1. desk[p].status = "running"
      BY <2>4 DEF Learn, LearnCases, In, Running
    <3> QED
      BY <2>2, <2>4, <3>1, LearningMoves DEF Elsewhere
  <2>5. CASE BeginSweep(p) \/ SweepOn(p)
    <3>1. desk[p].status = "running"
      BY <2>5 DEF BeginSweep, SweepOn, In, Running
    <3> QED
      BY <2>2, <2>5, <3>1, SweepingMoves DEF Elsewhere
  <2>6. CASE Validate(p) \/ EvaluatePredictor(p) \/ Follow(p) \/ FollowTrips(p) \/ EvaluateCases(p)
    <3>1. desk[p].status = "running"
      BY <2>6 DEF Validate, EvaluatePredictor, Follow, FollowTrips, EvaluateCases, In, Running
    <3> QED
      BY <2>2, <2>6, <3>1, ReportingMoves, EvaluatingCasesMoves, EvaluatingMoves DEF Elsewhere
  <2>7. CASE LoadReturns(p) \/ SaveReturns(p) \/ Killed(p)
    <3>1. jobs[p] # NoJob
      <4>1. jobs[p].doing = "loaded" \/ jobs[p].doing = "load failed" \/ jobs[p].doing = "save"
        BY <2>7 DEF LoadReturns, SaveReturns, Killed, Dispose, FinishSave, AbandonSave, IsDoing
      <4>2. NoJob.doing = "nothing"
        BY DEF NoJob
      <4> QED
        BY <4>1, <4>2
    <3>2. desk[p].status = "running"
      BY <3>1, JobAtStage
    <3> QED
      BY <2>2, <2>7, <3>2, ArtifactMoves
  <2>8. CASE UseFiles(p) \/ \E k \in Kinds : Load(p, k) \/ Save(p, k)
    BY <1>1, <2>8 DEF UseFiles, Load, Save
  <2> QED
    BY <2>1, <2>3, <2>4, <2>5, <2>6, <2>7, <2>8, TypeKeepsAnswers, AnswerKeepsAnswers,
       CompareKeepsAnswers, CompareCustomerKeepsAnswers, CustomersComparedKeepsAnswers
<1> QED
  BY <1>2, <1>3

LEMMA CommandInitMade == CommandInit => AnswersAreMade
<1> SUFFICES ASSUME CommandInit PROVE AnswersAreMade
  OBVIOUS
<1>1. PICK session \in Sessions : models = session.models
  BY DEF CommandInit
<1>2. \A raw \in models : IsRaw(raw)
  BY <1>1, SessionAssumption
<1>3. \A p \in Processes : DeskIsMade(desk[p])
  BY DEF CommandInit, NoDesk, DeskIsMade
<1> QED
  BY <1>2, <1>3 DEF AnswersAreMade

\* All that is known of commands, at every step.
CommandsAreSound == CommandsInOrder /\ Typed /\ AnswersAreMade

LEMMA CommandsStaySound == CommandSpec => []CommandsAreSound
<1>1. CommandSpec => []Typed
  <2>1. ArtifactsInOrder => Typed
    BY DEF ArtifactsInOrder
  <2> QED
    BY <2>1, CommandsRefineArtifacts, ArtifactsAreInOrder, PTL
<1> QED
  BY <1>1, CommandInitInOrder, CommandStepKeepsOrder, CommandInitMade, CommandStepKeepsAnswers, PTL
     DEF CommandSpec, CommandsAreSound

LEMMA MadeIsHonest ==
    ASSUME NEW r, IsMade(r)
    PROVE  /\ IsPublished(r.q)
           /\ \A i \in DOMAIN r.q : r.q[i] >= r.raw[i] /\ r.q[i] \in Amounts(r.raw)
           /\ IsInterpolated(r.q, 0, r.q[Top] + 1)
           /\ \A profile \in DOMAIN r.blocks :
                Answered(r.blocks[profile]) => ReachesQuantile(r.q, TargetOf(profile), r.blocks[profile])
<1>1. r.q = Repaired(r.raw) /\ IsRaw(r.raw) /\ r.est \in Int
  BY DEF IsMade
<1>2. /\ IsDistribution(r.q)
      /\ \A i \in 1 .. Top : r.q[i] >= r.raw[i] /\ r.q[i] \in Amounts(r.raw)
  BY <1>1, RepairPublishes
<1>3. DOMAIN r.q = 1 .. Top
  BY <1>2 DEF IsDistribution
<1>4. IsPublished(r.q) /\ IsInterpolated(r.q, 0, r.q[Top] + 1)
  <2>1. r.q[Top] \in Int /\ 0 \in Int
    BY <1>2, LevelFacts DEF IsDistribution
  <2>2. r.q[Top] + 1 \in Int
    BY <2>1
  <2> QED
    BY <1>2, <2>1, <2>2, DistributionIsPublished, DistributionIsStraight
<1>5. ASSUME NEW profile \in DOMAIN r.blocks, Answered(r.blocks[profile])
      PROVE  ReachesQuantile(r.q, TargetOf(profile), r.blocks[profile])
  <2>1. r.blocks[profile] = Recommend(r.est, r.q, r.step, TargetOf(profile))
    BY DEF IsMade, RecommendFor
  <2> QED
    BY <1>1, <1>2, <1>5, <2>1, AnswerReaches DEF Answered
<1> QED
  BY <1>2, <1>3, <1>4, <1>5

LEMMA ReportedIsMade ==
    ASSUME CommandsAreSound, NEW p \in Processes, NEW r \in Answers(p)
    PROVE  IsMade(r)
<1>1. DeskIsMade(desk[p])
  BY DEF CommandsAreSound, AnswersAreMade
<1>2. CASE Reported(p, "answer")
  BY <1>1, <1>2 DEF Answers, Reported, DeskIsMade, ReportIsMade
<1>3. CASE Reported(p, "customers")
  <2>1. ~Reported(p, "answer")
    BY <1>3 DEF Reported
  <2>2. Answers(p) = Range(desk[p].report.answers)
    BY <1>3, <2>1 DEF Answers
  <2>3. PICK label \in DOMAIN desk[p].report.answers : r = desk[p].report.answers[label]
    BY <2>2 DEF Range
  <2> QED
    BY <1>1, <1>3, <2>3 DEF Reported, DeskIsMade, ReportIsMade
<1>4. CASE ~Reported(p, "answer") /\ ~Reported(p, "customers")
  BY <1>4 DEF Answers
<1> QED
  BY <1>2, <1>3, <1>4

\* The probability reported with a block is that of the published quantiles,
\* which never cross and never fall below a model's own, and a block chosen for
\* a target reaches the quantile of the target (repair_monotonic,
\* DistributionInterpolator and choose of the optimizer): for any levels,
\* targets, weights, fares, steps and quantiles a model may predict.
THEOREM ReportedCoverageIsHonest == CommandSpec => []CoverageIsHonest
<1>1. CommandsAreSound => CoverageIsHonest
  <2> SUFFICES ASSUME CommandsAreSound, NEW p \in Processes, NEW r \in Answers(p)
               PROVE  /\ IsPublished(r.q)
                      /\ \A i \in DOMAIN r.q : r.q[i] >= r.raw[i] /\ r.q[i] \in Amounts(r.raw)
                      /\ IsInterpolated(r.q, 0, r.q[Top] + 1)
                      /\ \A profile \in DOMAIN r.blocks :
                            Answered(r.blocks[profile]) =>
                                ReachesQuantile(r.q, TargetOf(profile), r.blocks[profile])
    BY DEF CoverageIsHonest
  <2>1. IsMade(r)
    BY ReportedIsMade
  <2> QED
    BY <2>1, MadeIsHonest
<1> QED
  BY <1>1, CommandsStaySound, PTL

\* Every block answered is the cheapest of all on offer that meets the target
\* of its profile (generate_candidates, calculate_score and optimize_reserve of
\* optimization/, the targets of policy/, under every command that answers).
THEOREM BlocksAreBest == CommandSpec => []BlockIsBest
<1>1. ASSUME CommandsAreSound PROVE BlockIsBest
  <2> SUFFICES ASSUME NEW p \in Processes, NEW r \in Answers(p), NEW profile \in DOMAIN r.blocks
               PROVE  IsCheapest(r.est, r.q, r.step, TargetOf(profile), r.blocks[profile])
    BY DEF BlockIsBest
  <2>1. IsMade(r)
    BY <1>1, ReportedIsMade
  <2>2. /\ r.est \in Nat \ {0} /\ r.step \in Nat \ {0} /\ IsRaw(r.raw) /\ r.q = Repaired(r.raw)
        /\ r.blocks[profile] = Recommend(r.est, r.q, r.step, TargetOf(profile))
    BY <2>1 DEF IsMade, RecommendFor
  <2>3. IsDistribution(r.q)
    BY <2>2, RepairPublishes
  <2>4. TargetOf(profile) \in Int
    <3>1. \A s \in Profiles : Target[s] \in Int
      <4>1. Target \in [Profiles -> 1 .. 99] /\ \A n \in 1 .. 99 : n \in Int
        BY OptimizerAssumption
      <4> QED
        BY <4>1
    <3> QED
      BY <3>1 DEF TargetOf, Unconstrained
  <2> QED
    BY <2>2, <2>3, <2>4, RecommendationIsCheapest
<1> QED
  BY <1>1, CommandInitMade, CommandsStaySound, PTL DEF CommandSpec

\* Of two profiles that answer for one ride the stricter reserves no less.
LEMMA MadeIsOrdered ==
    ASSUME NEW r, IsMade(r), Profiles \subseteq DOMAIN r.blocks,
           NEW lax \in Profiles, NEW strict \in Profiles, Target[lax] <= Target[strict],
           Answered(r.blocks[strict])
    PROVE  Answered(r.blocks[lax]) /\ r.blocks[lax] <= r.blocks[strict]
<1>1. IsRaw(r.raw) /\ r.q = Repaired(r.raw) /\ r.est \in Int
  BY DEF IsMade
<1>2. \A s \in Profiles : r.blocks[s] = Recommend(r.est, r.q, r.step, Target[s])
  BY DEF IsMade, RecommendFor, TargetOf
<1>3. IsDistribution(r.q)
  BY <1>1, RepairPublishes
<1> QED
  BY <1>1, <1>2, <1>3, TargetsAreNumbers, StricterIsLarger DEF Answered

\* And in a comparison over many rides.
LEMMA MadeComparisonIsOrdered ==
    ASSUME NEW r, IsMadeComparison(r), r.kind = "comparison", Profiles \subseteq DOMAIN r.metrics,
           NEW lax \in Profiles, NEW strict \in Profiles, Target[lax] <= Target[strict]
    PROVE  /\ r.metrics[lax].successes <= r.metrics[strict].successes
           /\ r.metrics[lax].blocked <= r.metrics[strict].blocked
           /\ r.metrics[lax].averageExcess <= r.metrics[strict].averageExcess
           /\ r.diagnostics[lax].satisfied = r.metrics[lax].count
<1>1. PICK compared, rides, raws, step :
            AreCompared(rides, raws) /\ r = ComparisonReport(compared, rides, raws, step)
  BY DEF IsMadeComparison
<1> DEFINE metrics == Compared(compared, rides, raws, step)
<1>2. Comparable(compared, rides, raws, step) /\ \A s \in compared : HasMetrics(metrics[s])
  <2> HIDE DEF metrics
  <2> QED
    BY <1>1 DEF ComparisonReport, metrics
<1>3. /\ r.metrics = metrics
      /\ r.diagnostics = [s \in compared \ {"exact_estimate", "fixed_buffer"} |-> Diagnostics(s, rides, raws, step)]
  <2> HIDE DEF metrics
  <2> QED
    BY <1>1, <1>2 DEF ComparisonReport, metrics
<1>4. DOMAIN metrics = compared
  BY DEF Compared
<1>5. lax \in Profiles \cap compared /\ strict \in Profiles \cap compared
  BY <1>3, <1>4
<1>6. r.diagnostics[lax] = Diagnostics(lax, rides, raws, step)
  <2>1. lax \notin {"exact_estimate", "fixed_buffer"}
    BY CommandAssumption
  <2> QED
    BY <1>3, <1>5, <2>1
<1> QED
  BY <1>1, <1>2, <1>3, <1>5, <1>6, ComparisonRises

\* A merchant who asks for more certainty never reserves less, for one ride or
\* in the figures over many, where every profile meets its target for each ride
\* (optimize_reserve, the targets of policy/, StrategyComparison and the
\* diagnostics of the risk profiles): for any rides, predictions and steps.
THEOREM CertaintyCostsMore == CommandSpec => []StricterProfileReservesMore
<1>1. ASSUME CommandsAreSound PROVE StricterProfileReservesMore
  <2>1. ASSUME NEW p \in Processes, NEW lax \in Profiles, NEW strict \in Profiles,
               Target[lax] <= Target[strict],
               Reported(p, "answer"), Profiles \subseteq DOMAIN desk[p].report.blocks,
               Answered(desk[p].report.blocks[strict])
        PROVE  /\ Answered(desk[p].report.blocks[lax])
               /\ desk[p].report.blocks[lax] <= desk[p].report.blocks[strict]
    <3>1. IsMade(desk[p].report)
      BY <1>1, <2>1 DEF CommandsAreSound, AnswersAreMade, DeskIsMade, ReportIsMade, Reported
    <3> QED
      BY <2>1, <3>1, MadeIsOrdered
  <2>2. ASSUME NEW p \in Processes, NEW lax \in Profiles, NEW strict \in Profiles,
               Target[lax] <= Target[strict],
               Reported(p, "comparison"), Profiles \subseteq DOMAIN desk[p].report.metrics
        PROVE  LET metrics == desk[p].report.metrics
               IN  /\ metrics[lax].successes <= metrics[strict].successes
                   /\ metrics[lax].blocked <= metrics[strict].blocked
                   /\ metrics[lax].averageExcess <= metrics[strict].averageExcess
                   /\ desk[p].report.diagnostics[lax].satisfied = metrics[lax].count
    <3>1. IsMadeComparison(desk[p].report) /\ desk[p].report.kind = "comparison"
      BY <1>1, <2>2 DEF CommandsAreSound, AnswersAreMade, DeskIsMade, ReportIsMade, Reported
    <3> QED
      BY <2>2, <3>1, MadeComparisonIsOrdered
  <2> QED
    BY <2>1, <2>2 DEF StricterProfileReservesMore
<1> QED
  BY <1>1, CommandsStaySound, PTL

-----------------------------------------------------------------------------
(* What was held out *)

\* A load that has succeeded has read the metadata at least.
LoadsHaveRead == \A p \in Processes : jobs[p].doing = "loaded" => jobs[p].seen # <<>>

LEMMA LoadsRead == Typed /\ LoadsHaveRead /\ [ArtifactNext]_artifactVars => LoadsHaveRead'
<1> SUFFICES ASSUME Typed, LoadsHaveRead, [ArtifactNext]_artifactVars PROVE LoadsHaveRead'
  OBVIOUS
<1>1. ASSUME NEW p \in Processes, NEW job, jobs' = [jobs EXCEPT ![p] = job],
             job.doing = "loaded" => job.seen # <<>>
      PROVE  LoadsHaveRead'
  <2>1. jobs'[p] = job /\ \A q \in Processes \ {p} : jobs'[q] = jobs[q]
    BY <1>1 DEF Typed
  <2> QED
    BY <1>1, <2>1 DEF LoadsHaveRead
<1>2. CASE UNCHANGED jobs
  BY <1>2 DEF LoadsHaveRead
<1>3. CASE ArtifactNext
  <2>1. PICK p \in Processes :
            \/ \E k \in Kinds : StartSave(p, k) \/ StartLoad(p, k)
            \/ ArtifactStep(p)
            \/ Dispose(p)
    BY <1>3 DEF ArtifactNext
  <2>2. CASE \E k \in Kinds : StartSave(p, k) \/ StartLoad(p, k)
    <3>1. PICK k \in Kinds : StartSave(p, k) \/ StartLoad(p, k)
      BY <2>2
    <3>2. Saving(k, trained[k] + 1).doing = "save" /\ Loading(k, <<>>).doing = "load"
      BY DEF Saving, Loading
    <3>3. \/ jobs' = [jobs EXCEPT ![p] = Saving(k, trained[k] + 1)]
          \/ jobs' = [jobs EXCEPT ![p] = Loading(k, <<>>)]
      BY <3>1 DEF StartSave, StartLoad
    <3> QED
      BY <1>1, <3>2, <3>3
  <2>3. CASE OpenFile(p)
    <3> DEFINE job == [jobs[p] EXCEPT !.file = "open"]
    <3>1. jobs[p] \in SaveJobs /\ jobs' = [jobs EXCEPT ![p] = job]
      BY <2>3, JobFields DEF OpenFile, IsDoing, Typed
    <3>2. job.doing = "save"
      BY <3>1 DEF SaveJobs
    <3> HIDE DEF job
    <3> QED
      BY <1>1, <3>1, <3>2
  <2>4. CASE WriteFile(p)
    <3> DEFINE job == [jobs[p] EXCEPT !.file = "closed", !.at = jobs[p].at + 1]
    <3>1. jobs[p] \in SaveJobs /\ jobs' = [jobs EXCEPT ![p] = job]
      BY <2>4, JobFields DEF WriteFile, IsDoing, Typed
    <3>2. job.doing = "save"
      BY <3>1 DEF SaveJobs
    <3> HIDE DEF job
    <3> QED
      BY <1>1, <3>1, <3>2
  <2>5. CASE FinishSave(p) \/ AbandonSave(p) \/ Dispose(p)
    <3>1. jobs' = [jobs EXCEPT ![p] = NoJob] /\ NoJob.doing = "nothing"
      BY <2>5 DEF FinishSave, AbandonSave, Dispose, NoJob
    <3> QED
      BY <1>1, <3>1
  <2>6. CASE ReadFile(p)
    <3> DEFINE job == [jobs[p] EXCEPT !.seen = Append(@, Found(p))]
    <3>1. jobs[p] \in LoadJobs /\ jobs[p].doing = "load" /\ jobs' = [jobs EXCEPT ![p] = job]
      BY <2>6, JobFields DEF ReadFile, WantsMore, IsDoing, Typed
    <3>2. job.doing = "load"
      BY <3>1 DEF LoadJobs
    <3> HIDE DEF job
    <3> QED
      BY <1>1, <3>1, <3>2
  <2>7. CASE FailToRead(p)
    <3>1. jobs' = [jobs EXCEPT ![p] = LoadFailed(jobs[p].kind)] /\ LoadFailed(jobs[p].kind).doing = "load failed"
      BY <2>7 DEF FailToRead, LoadFailed
    <3> QED
      BY <1>1, <3>1
  <2>8. CASE FinishLoad(p)
    <3>1. jobs[p] \in LoadJobs /\ jobs[p].doing = "load"
      BY <2>8, JobFields DEF FinishLoad, IsDoing, Typed
    <3>2. jobs[p].kind \in Kinds /\ jobs[p].seen \in Seq(Int)
      BY <3>1 DEF LoadJobs
    <3>3. ~(Len(jobs[p].seen) < Len(ReadOrder[jobs[p].kind]))
      BY <2>8, <3>1 DEF FinishLoad, WantsMore, IsDoing
    <3>4. Len(ReadOrder[jobs[p].kind]) >= 1 /\ Len(ReadOrder[jobs[p].kind]) \in Nat
      BY <3>2, MetadataLastAndFirst
    <3>5. jobs[p].seen # <<>>
      BY <3>2, <3>3, <3>4
    <3>6. jobs' = [jobs EXCEPT ![p] = Loaded(jobs[p].kind, jobs[p].seen)]
      BY <2>8 DEF FinishLoad
    <3>7. Loaded(jobs[p].kind, jobs[p].seen).seen = jobs[p].seen
      BY DEF Loaded
    <3> QED
      BY <1>1, <3>5, <3>6, <3>7
  <2> QED
    BY <2>1, <2>2, <2>3, <2>4, <2>5, <2>6, <2>7, <2>8 DEF ArtifactStep
<1> QED
  BY <1>2, <1>3 DEF artifactVars

\* What the base models were fitted to, as many as were begun to be saved.
AreLessons(known, n) ==
    /\ \E S : known \in Seq(S)
    /\ Len(known) = n
    /\ \A i \in 1 .. n : IsLesson(known[i])

LessonsFit == DOMAIN lessons = Kinds /\ AreLessons(lessons["base"], trained["base"])

\* A report about a model of one of them.
IsEvaluation(d, known) ==
    /\ d.base[1] \in 1 .. Len(known)
    /\ d.report.evaluated # <<>>
    /\ d.report.scope = "held_out_test_split" =>
        d.report.evaluated = HeldOut(known[d.base[1]].records, known[d.base[1]].seed)

DeskIsLearnt(d, known) ==
    /\ d.status = "running" /\ StageOf(d) = ToSaveBase => IsLesson(d.lesson)
    /\ d.status = "running" /\ StageOf(d) = ToEvaluate => d.base[1] \in 1 .. Len(known)
    /\ d.status \in {"done", "refused"} /\ d.report.kind = "predictor" => IsEvaluation(d, known)

DesksAreLearnt == \A p \in Processes : DeskIsLearnt(desk[p], lessons["base"])

LEMMA OneMoreLesson ==
    ASSUME NEW known, NEW n \in Nat, AreLessons(known, n), NEW lesson, IsLesson(lesson)
    PROVE  /\ AreLessons(Append(known, lesson), n + 1)
           /\ \A d : DeskIsLearnt(d, known) => DeskIsLearnt(d, Append(known, lesson))
<1> DEFINE more == Append(known, lesson)
<1>1. PICK S : known \in Seq(S)
  BY DEF AreLessons
<1>2. known \in Seq(S \cup {lesson}) /\ lesson \in S \cup {lesson} /\ Len(known) = n
  BY <1>1 DEF AreLessons
<1>3. /\ more \in Seq(S \cup {lesson}) /\ Len(more) = n + 1
      /\ \A i \in 1 .. n : more[i] = known[i]
      /\ more[n + 1] = lesson
  BY <1>2
<1> HIDE DEF more
<1>4. AreLessons(more, n + 1)
  <2>1. ASSUME NEW i \in 1 .. n + 1 PROVE IsLesson(more[i])
    <3>1. i \in 1 .. n \/ i = n + 1
      OBVIOUS
    <3> QED
      BY <1>3, <3>1 DEF AreLessons
  <2> QED
    BY <1>3, <2>1 DEF AreLessons
<1>5. ASSUME NEW d, DeskIsLearnt(d, known) PROVE DeskIsLearnt(d, more)
  <2>1. ASSUME NEW i \in 1 .. Len(known) PROVE i \in 1 .. Len(more) /\ more[i] = known[i]
    BY <1>2, <1>3, <2>1
  <2>2. IsEvaluation(d, known) => IsEvaluation(d, more)
    BY <2>1 DEF IsEvaluation
  <2> QED
    BY <1>5, <2>1, <2>2 DEF DeskIsLearnt
<1> QED
  BY <1>4, <1>5 DEF more

\* A step of p that leaves p's desk learnt keeps them all so.
LEMMA LearntStep ==
    ASSUME CommandsInOrder, DesksAreLearnt, UNCHANGED lessons,
           NEW p \in Processes, NEW d, desk' = [desk EXCEPT ![p] = d], DeskIsLearnt(d, lessons["base"])
    PROVE  DesksAreLearnt'
<1>1. desk'[p] = d /\ \A r \in Processes \ {p} : desk'[r] = desk[r]
  BY DEF CommandsInOrder
<1> QED
  BY <1>1 DEF DesksAreLearnt

\* A report of another kind says nothing about a model.
LEMMA OtherReportsKeepLearnt ==
    ASSUME CommandsInOrder, DesksAreLearnt, UNCHANGED lessons,
           NEW p \in Processes, IsUnderWay(desk[p]),
           NEW report, Report(p, report) \/ Refuse(p, report), report.kind # "predictor"
    PROVE  DesksAreLearnt'
<1>1. DOMAIN desk = Processes /\ DOMAIN desk[p] = DeskFields
  BY DEF CommandsInOrder, IsUnderWay
<1>2. ASSUME NEW status \in {"done", "refused"},
             desk' = [desk EXCEPT ![p].status = status, ![p].report = report]
      PROVE  DesksAreLearnt'
  <2> DEFINE d == [desk[p] EXCEPT !.status = status, !.report = report]
  <2>1. desk' = [desk EXCEPT ![p] = d]
    BY <1>1, <1>2
  <2>2. d.status = status /\ d.report = report
    BY <1>1 DEF DeskFields
  <2> HIDE DEF d
  <2>3. DeskIsLearnt(d, lessons["base"])
    BY <2>2 DEF DeskIsLearnt
  <2> QED
    BY <2>1, <2>3, LearntStep
<1> QED
  BY <1>2 DEF Report, Refuse

\* Nor does a stage that neither fits nor loads a base model.
LEMMA OthersKeepLearnt ==
    ASSUME CommandsInOrder, CommandsInOrder', DesksAreLearnt, UNCHANGED lessons,
           NEW p \in Processes, IsUnderWay(desk[p]), desk[p].status = "running",
           StageOf(desk[p]) \notin {ToLearn, ToLoadBase, ToSaveBase, ToEvaluate},
           NEW fields, NEW kinds, Moves(p, fields, kinds),
           "command" \notin fields, "predictor" \notin kinds
    PROVE  DesksAreLearnt'
<1>1. PICK d : /\ desk' = [desk EXCEPT ![p] = d] /\ DOMAIN d = DeskFields
               /\ \A f \in DeskFields \ fields : d[f] = desk[p][f]
               /\ d.status \in {"running", "done", "refused"}
               /\ d.status = "running" => d.at \in {desk[p].at, desk[p].at + 1}
               /\ d.status # "running" => d.report.kind \in kinds
  BY DEF Moves
<1>2. d.command = desk[p].command
  BY <1>1 DEF DeskFields
<1>3. ASSUME d.status = "running" PROVE StageOf(d) \notin {ToSaveBase, ToEvaluate}
  <2>1. desk'[p] = d
    BY <1>1 DEF CommandsInOrder
  <2>2. IsUnderWay(d)
    BY <1>3, <2>1 DEF CommandsInOrder, DeskInOrder
  <2>3. InOrderAt(d.command.name, Stages(d.command.name), d.at)
    BY <2>2, UnderWayStage
  <2>4. CASE d.at = desk[p].at
    BY <1>2, <2>4 DEF StageOf
  <2>5. CASE d.at = desk[p].at + 1
    <3>1. desk[p].at \in Int
      BY UnderWayStage
    <3>2. d.at - 1 = desk[p].at
      BY <2>5, <3>1
    <3> QED
      BY <1>2, <2>3, <3>2 DEF InOrderAt, StageOf
  <2> QED
    BY <1>1, <1>3, <2>4, <2>5
<1>4. DeskIsLearnt(d, lessons["base"])
  BY <1>1, <1>3 DEF DeskIsLearnt
<1> QED
  BY <1>1, <1>4, LearntStep

\* Answers to one ride or to customers, and comparisons.
LEMMA AnsweringMoves ==
    ASSUME CommandsInOrder, Typed, NEW p \in Processes,
           Answer(p) \/ Compare(p) \/ CompareCustomer(p) \/ CustomersCompared(p)
    PROVE  /\ Moves(p, {"answers", "status", "report"},
                    {"answer", "no customer", "context", "file", "malformed", "customers", "join", "no block",
                     "out of range", "comparison"})
           /\ Elsewhere
<1> DEFINE fields == {"answers", "status", "report"}
           kinds == {"answer", "no customer", "context", "file", "malformed", "customers", "join", "no block",
                     "out of range", "comparison"}
<1>1. PICK stage : In(p, stage)
  BY DEF Answer, Compare, CompareCustomer, CustomersCompared
<1>2. IsUnderWay(desk[p]) /\ desk[p].status = "running"
  BY <1>1, AtStage
<1>3. DOMAIN desk = Processes /\ DOMAIN desk[p] = DeskFields
  BY <1>2 DEF CommandsInOrder, IsUnderWay
<1>4. ASSUME NEW report, Report(p, report) \/ Refuse(p, report), report.kind \in kinds
      PROVE  Moves(p, fields, kinds)
  <2>1. Moves(p, {"status", "report"}, kinds)
    BY <1>2, <1>4, EndMoves
  <2> QED
    BY <2>1, MovesMore
<1>5. ASSUME Answer(p) PROVE Moves(p, fields, kinds)
  <2>1. PICK ride, history, raw, step, asked :
            \/ Report(p, AnswerTo(ride, history, raw, step, asked))
            \/ Refuse(p, AnswerTo(ride, history, raw, step, asked))
    BY <1>5 DEF Answer
  <2> QED
    BY <1>4, <2>1, AnswerKind
<1>6. ASSUME Compare(p) PROVE Moves(p, fields, kinds)
  <2>1. CASE CompareFaults(p) # {}
    <3>1. Refuse(p, Faults("join", CompareFaults(p)))
      BY <1>6, <2>1 DEF Compare
    <3> QED
      BY <1>4, <3>1, FaultsKind
  <2>2. CASE CompareFaults(p) = {}
    <3> DEFINE Made(raws) == ComparisonReport(ComparedBy(Command(p).name), Rides(p), raws, Command(p).step)
    <3>1. \E raws \in [Ids(Rides(p)) -> models] :
            IF Made(raws).kind = "comparison" THEN Report(p, Made(raws)) ELSE Refuse(p, Made(raws))
      BY <1>6, <2>2 DEF Compare
    <3>2. \A raws : Made(raws).kind \in kinds
      BY ComparisonKind
    <3> HIDE DEF Made
    <3> QED
      BY <1>4, <3>1, <3>2
  <2> QED
    BY <2>1, <2>2
<1>7. ASSUME CompareCustomer(p) PROVE Moves(p, fields, kinds)
  <2>2. ASSUME NEW answer, desk' = [desk EXCEPT ![p].answers = Append(@, answer)]
        PROVE  Moves(p, fields, kinds)
    <3> DEFINE d == [desk[p] EXCEPT !.answers = Append(@, answer)]
    <3>1. desk' = [desk EXCEPT ![p] = d]
      BY <1>3, <2>2
    <3>2. /\ DOMAIN d = DeskFields /\ d.status = "running" /\ d.at = desk[p].at
          /\ \A f \in DeskFields \ {"answers"} : d[f] = desk[p][f]
      BY <1>2, <1>3 DEF DeskFields
    <3> HIDE DEF d
    <3>3. Moves(p, {"answers"}, {})
      BY <3>1, <3>2 DEF Moves
    <3>4. {"answers"} \subseteq fields /\ {} \subseteq kinds
      OBVIOUS
    <3> HIDE DEF fields, kinds
    <3> QED
      BY <3>3, <3>4, MovesMore
  <2>3. ASSUME NEW report, Refuse(p, report), IsRefusal(p, report) PROVE Moves(p, fields, kinds)
    <3>1. report.kind \in {"no customer", "join", "malformed", "context", "file"}
      BY <2>3, RefusalKind
    <3> QED
      BY <1>4, <2>3, <3>1
  <2>4. ASSUME IsAnswered(p) PROVE Moves(p, fields, kinds)
    <3>1. PICK history, raw :
              \/ desk' = [desk EXCEPT ![p].answers = Append(@, AnswerOf(p, history, raw))]
              \/ Refuse(p, AnswerOf(p, history, raw))
      BY <2>4 DEF IsAnswered
    <3>2. PICK answer : answer = AnswerOf(p, history, raw)
      OBVIOUS
    <3>3. answer.kind = "answer"
      BY <3>2, AnswerKind DEF AnswerOf
    <3> QED
      BY <1>4, <2>2, <3>1, <3>2, <3>3
  <2> HIDE DEF fields, kinds
  <2> QED
    BY <1>7, <2>3, <2>4, CustomerIsRefusedOrAnswered
<1>8. ASSUME CustomersCompared(p) PROVE Moves(p, fields, kinds)
  <2>1. PICK answers : Report(p, [kind |-> "customers", answers |-> answers])
    BY <1>8 DEF CustomersCompared
  <2> QED
    BY <1>4, <2>1
<1>9. Elsewhere
  BY DEF Answer, Compare, CompareCustomer, CustomersCompared
<1> QED
  BY <1>5, <1>6, <1>7, <1>8, <1>9

LEMMA TypeKeepsLearnt ==
    ASSUME CommandsInOrder, CommandsInOrder', DesksAreLearnt, NEW p \in Processes, Type(p)
    PROVE  DesksAreLearnt'
<1> DEFINE d == Started(Head(typed[p]))
<1>1. desk' = [desk EXCEPT ![p] = d] /\ UNCHANGED lessons
  BY DEF Type
<1>2. d.status = "running" /\ d.at = 1
  BY DEF Started
<1> HIDE DEF d
<1>3. IsUnderWay(d)
  <2>1. desk'[p] = d
    BY <1>1 DEF CommandsInOrder
  <2> QED
    BY <1>2, <2>1 DEF CommandsInOrder, DeskInOrder
<1>4. StageOf(d) \notin {ToSaveBase, ToEvaluate}
  <2>1. InOrderAt(d.command.name, Stages(d.command.name), 1)
    BY <1>2, <1>3, UnderWayStage
  <2>2. ~(1 > 1)
    OBVIOUS
  <2> QED
    BY <1>2, <2>1, <2>2 DEF InOrderAt, StageOf
<1>5. DeskIsLearnt(d, lessons["base"])
  BY <1>2, <1>4 DEF DeskIsLearnt
<1> QED
  BY <1>1, <1>5, LearntStep

\* What a model is fitted to can be split, and shuffled by the seed typed.
LEMMA LearnKeepsLearnt ==
    ASSUME CommandsInOrder, CommandsInOrder', Typed, DesksAreLearnt, NEW p \in Processes, Learn(p)
    PROVE  DesksAreLearnt'
<1>1. In(p, ToLearn) /\ UNCHANGED lessons
  BY DEF Learn, ToLearn, Elsewhere
<1>2. IsUnderWay(desk[p]) /\ StageOf(desk[p]) = ToLearn /\ desk[p].status = "running"
  BY <1>1, AtStage
<1>3. DOMAIN desk = Processes /\ DOMAIN desk[p] = DeskFields
  BY <1>2 DEF CommandsInOrder, IsUnderWay
<1>4. CASE JoinFaults(p) # {}
  <2>1. Refuse(p, Faults("join", JoinFaults(p))) /\ Faults("join", JoinFaults(p)).kind = "join"
    BY <1>4, FaultsKind DEF Learn
  <2> QED
    BY <1>1, <1>2, <2>1, OtherReportsKeepLearnt
<1>5. CASE JoinFaults(p) = {} /\ ~CanSplit(Rides(p))
  <2> DEFINE report == [kind |-> "too few rides"]
  <2>1. Refuse(p, report) /\ report.kind # "predictor"
    BY <1>5 DEF Learn
  <2> HIDE DEF report
  <2> QED
    BY <1>1, <1>2, <2>1, OtherReportsKeepLearnt
<1>6. CASE JoinFaults(p) = {} /\ CanSplit(Rides(p))
  <2> DEFINE lesson == [records |-> Rides(p), seed |-> Command(p).seed]
  <2>1. PICK m \in Nat : /\ DOMAIN Rides(p) = 1 .. m /\ Len(Rides(p)) = m
                         /\ Rides(p) \in Seq(Range(Rides(p)))
                         /\ m <= Len(Command(p).file.records)
                         /\ \A i \in 1 .. m : IsJoinedRide(Rides(p)[i])
                         /\ \A i, j \in 1 .. m : i < j => Rides(p)[i].id < Rides(p)[j].id
    <3>1. \A i \in DOMAIN Command(p).file.records : IsRecord(Command(p).file.records[i])
      BY <1>2, RidesAreAccepted DEF UsingRides, Command
    <3>2. IsParsedFile(Command(p).file)
      BY <1>2 DEF IsUnderWay, IsCommand, Command
    <3> QED
      BY <1>6, <3>1, <3>2, RidesAreJoined
  <2>2. Shuffles(Command(p).seed, m)
    <3>1. Command(p).name = "train-predictor"
      BY <1>2, UnderWayStage DEF InOrderAt, StageOf, Command
    <3>2. \A n \in 0 .. Len(Command(p).file.records) : Shuffles(Command(p).seed, n)
      BY <1>2, <3>1 DEF IsUnderWay, IsCommand, Command
    <3>3. Len(Command(p).file.records) \in Nat
      BY <1>2, RecordsOf DEF IsUnderWay, IsCommand, Command
    <3>4. m \in 0 .. Len(Command(p).file.records)
      BY <2>1, <3>3
    <3> QED
      BY <3>2, <3>4
  <2>3. ASSUME NEW i \in 1 .. m, NEW j \in 1 .. m, i # j PROVE Rides(p)[i].id # Rides(p)[j].id
    <3>1. Rides(p)[i].id \in Int /\ Rides(p)[j].id \in Int
      BY <2>1 DEF IsJoinedRide
    <3>2. i < j \/ j < i
      BY <2>3
    <3>3. Rides(p)[i].id < Rides(p)[j].id \/ Rides(p)[j].id < Rides(p)[i].id
      BY <2>1, <3>2
    <3> QED
      BY <3>1, <3>3
  <2>4. lesson.records = Rides(p) /\ lesson.seed = Command(p).seed
    OBVIOUS
  <2>5. desk' = [desk EXCEPT ![p].at = @ + 1, ![p].lesson = lesson]
    BY <1>6 DEF Learn
  <2> HIDE DEF lesson
  <2>6. IsLesson(lesson)
    BY <1>6, <2>1, <2>2, <2>3, <2>4 DEF IsLesson
  <2> DEFINE d == [desk[p] EXCEPT !.at = @ + 1, !.lesson = lesson]
  <2>7. desk' = [desk EXCEPT ![p] = d]
    BY <1>3, <2>5
  <2>8. d.status = "running" /\ d.lesson = lesson /\ d.command = desk[p].command /\ d.at = desk[p].at + 1
    BY <1>2, <1>3 DEF DeskFields
  <2> HIDE DEF d
  <2>9. StageOf(d) # ToEvaluate
    <3>1. desk'[p] = d
      BY <1>3, <2>7
    <3>2. IsUnderWay(d)
      BY <2>8, <3>1 DEF CommandsInOrder, DeskInOrder
    <3>3. InOrderAt(d.command.name, Stages(d.command.name), d.at)
      BY <3>2, UnderWayStage
    <3>4. d.at - 1 = desk[p].at
      BY <1>2, <2>8, UnderWayStage
    <3>5. ToLearn # ToLoadBase
      BY StagesAreNumbered DEF AreNumbered
    <3> QED
      BY <1>2, <2>8, <3>3, <3>4, <3>5 DEF InOrderAt, StageOf
  <2>10. DeskIsLearnt(d, lessons["base"])
    BY <2>6, <2>8, <2>9 DEF DeskIsLearnt
  <2> QED
    BY <1>1, <2>7, <2>10, LearntStep
<1> QED
  BY <1>4, <1>5, <1>6

\* A permutation sends no two rides to one place, so what is cut off the end of
\* the shuffled rides is none of those at their beginning.
LEMMA HeldOutIsSeparate ==
    ASSUME NEW lesson, IsLesson(lesson)
    PROVE  /\ HeldOut(lesson.records, lesson.seed) # <<>>
           /\ Ids(HeldOut(lesson.records, lesson.seed)) \cap Ids(Learnt(lesson.records, lesson.seed)) = {}
<1> DEFINE records == lesson.records
           n == Len(records)
           order == Shuffle[lesson.seed][n]
           s == Shuffled(records, lesson.seed)
<1>1. n \in Nat /\ n >= 3 /\ DOMAIN records = 1 .. n /\ records \in Seq(Range(records))
  BY DEF IsLesson, CanSplit
<1>2. order \in [1 .. n -> 1 .. n] /\ {order[i] : i \in 1 .. n} = 1 .. n
  BY CommandAssumption DEF IsLesson, Shuffles
<1>3. s = [i \in 1 .. n |-> records[order[i]]]
  BY <1>1 DEF Shuffled
<1>4. \A i, j \in 1 .. n : records[i].id = records[j].id => i = j
  BY <1>1 DEF IsLesson
<1> HIDE DEF n, order, s, records
<1>5. \A i, j \in 1 .. n : order[i] = order[j] => i = j
  <2> DEFINE N == 1 .. n
  <2>1. IsFiniteSet(N)
    BY <1>1, NumbersAreFinite
  <2>2. order \in Surjection(N, N)
    BY <1>2 DEF Surjection
  <2> HIDE DEF N
  <2>3. order \in Injection(N, N)
    BY <2>1, <2>2, FS_Surjection
  <2> QED
    BY <2>3 DEF Injection, IsInjective, N
<1>6. DOMAIN s = 1 .. n /\ Len(s) = n /\ s \in Seq(Range(records))
  <2>1. \A i \in 1 .. n : records[order[i]] \in Range(records)
    BY <1>1, <1>2 DEF Range
  <2>2. s \in [1 .. n -> Range(records)]
    BY <1>3, <2>1
  <2> QED
    BY <1>1, <2>2
<1>7. \A i, j \in 1 .. n : s[i].id = s[j].id => i = j
  BY <1>2, <1>3, <1>4, <1>5
<1>8. PICK a \in Nat, b \in Nat :
        a >= 1 /\ b >= 1 /\ a + b < n /\ Shares(n) = [train |-> a, validation |-> b]
  <2> DEFINE train == AtLeastOne((n * TrainPercent) \div 100)
             validation == AtLeastOne((n * CheckPercent) \div 100)
  <2>1. /\ (n * TrainPercent) \div 100 \in Int /\ (n * CheckPercent) \div 100 \in Int
    <3>1. TrainPercent \in Int /\ CheckPercent \in Int
      BY HistoryAssumption
    <3>2. n * TrainPercent \in Int /\ n * CheckPercent \in Int
      BY <1>1, <3>1
    <3> QED
      BY <3>2
  <2>2. train \in Nat /\ train >= 1 /\ validation \in Nat /\ validation >= 1
    BY <2>1 DEF AtLeastOne
  <2>3. Shares(n) = IF train + validation >= n
                    THEN [train |-> n - 2, validation |-> 1]
                    ELSE [train |-> train, validation |-> validation]
    BY DEF Shares
  <2> HIDE DEF train, validation
  <2>4. CASE train + validation >= n
    <3>1. n - 2 \in Nat /\ n - 2 >= 1 /\ (n - 2) + 1 < n
      BY <1>1
    <3> QED
      BY <2>3, <2>4, <3>1
  <2>5. CASE ~(train + validation >= n)
    <3>1. train + validation < n
      BY <1>1, <2>2, <2>5
    <3> QED
      BY <2>2, <2>3, <2>5, <3>1
  <2> QED
    BY <2>4, <2>5
<1> DEFINE test == SubSeq(s, a + b + 1, n)
           train == SubSeq(s, 1, a)
<1>9. HeldOut(records, lesson.seed) = test /\ Learnt(records, lesson.seed) = train
  BY <1>6, <1>8 DEF HeldOut, Learnt, Split, s
<1>10. /\ DOMAIN test = 1 .. n - (a + b) /\ Len(test) = n - (a + b)
       /\ \A i \in 1 .. n - (a + b) : test[i] = s[a + b + i]
  BY <1>1, <1>6, <1>8
<1>11. DOMAIN train = 1 .. a /\ \A i \in 1 .. a : train[i] = s[i]
  BY <1>1, <1>6, <1>8
<1> HIDE DEF test, train
<1>12. test # <<>>
  BY <1>1, <1>8, <1>10
<1>13. ASSUME NEW i \in DOMAIN test, NEW j \in DOMAIN train, test[i].id = train[j].id PROVE FALSE
  <2>1. a + b + i \in 1 .. n /\ j \in 1 .. n /\ a + b + i # j
    BY <1>1, <1>8, <1>10, <1>11
  <2>2. s[a + b + i].id = s[j].id
    BY <1>10, <1>11, <1>13
  <2> QED
    BY <1>7, <2>1, <2>2
<1>14. Ids(test) \cap Ids(train) = {}
  BY <1>13 DEF Ids
<1> QED
  BY <1>9, <1>12, <1>14 DEF records

\* An evaluation names the training of the metadata it has read.
LEMMA EvaluatePredictorKeepsLearnt ==
    ASSUME CommandsInOrder, Typed, LessonsFit, DesksAreLearnt, NEW p \in Processes, EvaluatePredictor(p)
    PROVE  DesksAreLearnt'
<1>1. In(p, ToEvaluate) /\ UNCHANGED lessons
  BY DEF EvaluatePredictor, ToEvaluate, Elsewhere
<1>2. IsUnderWay(desk[p]) /\ StageOf(desk[p]) = ToEvaluate /\ desk[p].status = "running"
  BY <1>1, AtStage
<1>3. DOMAIN desk = Processes /\ DOMAIN desk[p] = DeskFields
  BY <1>2 DEF CommandsInOrder, IsUnderWay
<1>4. CASE JoinFaults(p) # {}
  <2>1. Refuse(p, Faults("join", JoinFaults(p))) /\ Faults("join", JoinFaults(p)).kind = "join"
    BY <1>4, FaultsKind DEF EvaluatePredictor
  <2> QED
    BY <1>1, <1>2, <2>1, OtherReportsKeepLearnt
<1>5. CASE JoinFaults(p) = {} /\ Rides(p) = <<>>
  <2> DEFINE report == [kind |-> "too few rides"]
  <2>1. Refuse(p, report) /\ report.kind # "predictor"
    BY <1>5 DEF EvaluatePredictor
  <2> HIDE DEF report
  <2> QED
    BY <1>1, <1>2, <2>1, OtherReportsKeepLearnt
<1>6. CASE JoinFaults(p) = {} /\ Rides(p) # <<>>
  <2>1. PICK raws, baseline : Report(p, PredictorReport(p, raws, baseline))
    BY <1>6 DEF EvaluatePredictor
  <2> DEFINE report == PredictorReport(p, raws, baseline)
             lesson == LessonNamed(p)
             d == [desk[p] EXCEPT !.status = "done", !.report = report]
  <2>2. /\ report.evaluated = Evaluable(p)
        /\ report.scope = IF AreTheLearnt(p) THEN "held_out_test_split" ELSE "external_all_records"
    BY DEF PredictorReport
  <2>3. Report(p, report)
    BY <2>1
  <2> HIDE DEF report
  <2>4. desk[p].base[1] \in 1 .. Len(lessons["base"])
    BY <1>2 DEF DesksAreLearnt, DeskIsLearnt
  <2>5. IsLesson(lesson)
    BY <2>4 DEF LessonsFit, AreLessons, LessonNamed
  <2>6. report.evaluated # <<>>
    <3>1. CASE AreTheLearnt(p)
      <4>1. report.evaluated = HeldOut(lesson.records, lesson.seed)
        BY <2>2, <3>1 DEF Evaluable, AreTheLearnt
      <4> QED
        BY <2>5, <4>1, HeldOutIsSeparate
    <3>2. CASE ~AreTheLearnt(p)
      BY <1>6, <2>2, <3>2 DEF Evaluable
    <3> QED
      BY <3>1, <3>2
  <2>7. report.scope = "held_out_test_split" => report.evaluated = HeldOut(lesson.records, lesson.seed)
    BY <2>2 DEF Evaluable, AreTheLearnt
  <2>8. desk' = [desk EXCEPT ![p] = d]
    BY <1>3, <2>3 DEF Report
  <2>9. d.status = "done" /\ d.report = report /\ d.base = desk[p].base
    BY <1>3 DEF DeskFields
  <2> HIDE DEF d
  <2>10. IsEvaluation(d, lessons["base"])
    BY <2>4, <2>6, <2>7, <2>9 DEF IsEvaluation, LessonNamed
  <2>11. DeskIsLearnt(d, lessons["base"])
    BY <2>9, <2>10 DEF DeskIsLearnt
  <2> QED
    BY <1>1, <2>8, <2>11, LearntStep
<1> QED
  BY <1>4, <1>5, <1>6

\* The metadata a load has read are those of a training begun to be saved.
LEMMA LoadReturnsKeepsLearnt ==
    ASSUME CommandsInOrder, CommandsInOrder', ArtifactsInOrder, LoadsHaveRead, LessonsFit, DesksAreLearnt,
           NEW p \in Processes, LoadReturns(p)
    PROVE  DesksAreLearnt'
<1>1. (IsDoing(p, "loaded") \/ IsDoing(p, "load failed")) /\ UNCHANGED lessons /\ Typed
  BY DEF LoadReturns, Dispose, ArtifactsInOrder
<1>2. /\ IsUnderWay(desk[p]) /\ desk[p].status = "running"
      /\ StageOf(desk[p]) = LoadsFrom(jobs[p].kind) /\ jobs[p].kind \in Kinds
  <2>1. jobs[p] # NoJob
    <3>1. NoJob.doing = "nothing"
      BY DEF NoJob
    <3>2. jobs[p].doing # "nothing"
      BY <1>1 DEF IsDoing
    <3> QED
      BY <3>1, <3>2
  <2>2. StageOfJob(jobs[p]) = LoadsFrom(jobs[p].kind)
    BY <1>1 DEF IsDoing, StageOfJob
  <2> QED
    BY <1>1, <2>1, <2>2, JobAtStage
<1>3. DOMAIN desk = Processes /\ DOMAIN desk[p] = DeskFields
  BY <1>2 DEF CommandsInOrder, IsUnderWay
<1>4. CASE IsDoing(p, "loaded")
  <2> DEFINE d == [[desk[p] EXCEPT !.at = @ + 1] EXCEPT ![jobs[p].kind] = jobs[p].seen]
  <2>1. jobs[p].kind \in {"base", "personalized"}
    BY <1>2, CommandAssumption
  <2>2. desk' = [desk EXCEPT ![p] = d]
    BY <1>3, <1>4 DEF LoadReturns
  <2>3. /\ d.status = "running" /\ d.command = desk[p].command /\ d.at = desk[p].at + 1
        /\ jobs[p].kind = "base" => d.base = jobs[p].seen
    BY <1>2, <1>3, <2>1 DEF DeskFields
  <2> HIDE DEF d
  <2>4. InOrderAt(d.command.name, Stages(d.command.name), d.at)
    <3>1. desk'[p] = d
      BY <1>3, <2>2
    <3>2. IsUnderWay(d)
      BY <2>3, <3>1 DEF CommandsInOrder, DeskInOrder
    <3> QED
      BY <3>2, UnderWayStage
  <2>5. d.at - 1 = desk[p].at
    BY <1>2, <2>3, UnderWayStage
  <2>6. /\ StageOf(d) = ToSaveBase => StageOf(desk[p]) = ToLearn
        /\ StageOf(d) = ToEvaluate => StageOf(desk[p]) = ToLoadBase
    BY <2>3, <2>4, <2>5 DEF InOrderAt, StageOf
  <2>7. StageOf(desk[p]) # ToLearn /\ (StageOf(desk[p]) = ToLoadBase => jobs[p].kind = "base")
    <3>1. LoadsFrom("base") = ToLoadBase /\ LoadsFrom("personalized") = ToLoadPersonalized
      BY DEF LoadsFrom, ToLoadBase, ToLoadPersonalized
    <3> QED
      BY <1>2, <2>1, <3>1, StagesAreNumbered DEF AreNumbered
  <2>8. ASSUME jobs[p].kind = "base" PROVE d.base[1] \in 1 .. Len(lessons["base"])
    <3>1. jobs[p].doing = "loaded" /\ jobs[p].seen # <<>>
      BY <1>4 DEF IsDoing, LoadsHaveRead
    <3>2. jobs[p].seen \in Seq(Int)
      BY <1>1, <3>1, JobFields DEF LoadJobs
    <3>3. HasMetadata(p)
      BY <3>1 DEF HasMetadata
    <3>4. jobs[p].seen[1] \in 1 .. trained["base"]
      BY <1>1, <2>8, <3>3 DEF ArtifactsInOrder, LoaderInOrder, ReadSoFar
    <3>6. Len(lessons["base"]) = trained["base"] /\ trained["base"] \in Nat
      BY <1>1, <1>2, <2>8 DEF LessonsFit, AreLessons, Typed
    <3> QED
      BY <2>3, <2>8, <3>4, <3>6
  <2>9. DeskIsLearnt(d, lessons["base"])
    BY <2>3, <2>6, <2>7, <2>8 DEF DeskIsLearnt
  <2> QED
    BY <1>1, <2>2, <2>9, LearntStep
<1>5. CASE ~IsDoing(p, "loaded")
  <2> DEFINE report == [kind |-> "no artifact"]
  <2>1. Refuse(p, report) /\ report.kind # "predictor"
    BY <1>5 DEF LoadReturns
  <2> HIDE DEF report
  <2> QED
    BY <1>1, <1>2, <2>1, OtherReportsKeepLearnt
<1> QED
  BY <1>4, <1>5

LEMMA SaveEndsKeepsLearnt ==
    ASSUME CommandsInOrder, Typed, DesksAreLearnt, NEW p \in Processes, SaveReturns(p) \/ Killed(p)
    PROVE  DesksAreLearnt'
<1>1. UNCHANGED lessons /\ IsUnderWay(desk[p])
  <2>1. jobs[p].doing = "save" /\ NoJob.doing = "nothing"
    BY DEF SaveReturns, Killed, FinishSave, AbandonSave, IsDoing, NoJob
  <2>2. jobs[p] # NoJob
    BY <2>1
  <2> QED
    BY <2>2, JobAtStage DEF SaveReturns, Killed
<1>2. CASE SaveReturns(p)
  <2> DEFINE report == [kind |-> "trained"]
  <2>1. Report(p, report) /\ report.kind # "predictor"
    BY <1>2 DEF SaveReturns
  <2> HIDE DEF report
  <2> QED
    BY <1>1, <2>1, OtherReportsKeepLearnt
<1>3. CASE Killed(p)
  <2> DEFINE report == [kind |-> "killed"]
  <2>1. Refuse(p, report) /\ report.kind # "predictor"
    BY <1>3 DEF Killed
  <2> HIDE DEF report
  <2> QED
    BY <1>1, <2>1, OtherReportsKeepLearnt
<1> QED
  BY <1>2, <1>3

\* What a model was fitted to is noted when it begins to be saved.
LEMMA SaveKeepsLearnt ==
    ASSUME CommandsInOrder, Typed, LessonsFit, DesksAreLearnt,
           NEW p \in Processes, NEW k \in Kinds, Save(p, k)
    PROVE  LessonsFit' /\ DesksAreLearnt'
<1>1. /\ In(p, SavesTo(k)) /\ UNCHANGED desk
      /\ lessons' = [lessons EXCEPT ![k] = Append(@, desk[p].lesson)]
      /\ trained' = [trained EXCEPT ![k] = @ + 1]
  BY DEF Save, StartSave
<1>2. DOMAIN lessons = Kinds /\ DOMAIN trained = Kinds /\ "base" \in Kinds /\ trained["base"] \in Nat
  BY CommandAssumption DEF LessonsFit, Typed
<1>3. DOMAIN lessons' = Kinds
  BY <1>1, <1>2
<1>4. CASE k = "base"
  <2>1. SavesTo(k) = ToSaveBase
    BY <1>4 DEF SavesTo, ToSaveBase
  <2>2. IsLesson(desk[p].lesson)
    BY <1>1, <2>1, AtStage DEF DesksAreLearnt, DeskIsLearnt
  <2>3. lessons'["base"] = Append(lessons["base"], desk[p].lesson) /\ trained'["base"] = trained["base"] + 1
    BY <1>1, <1>2, <1>4
  <2>4. /\ AreLessons(Append(lessons["base"], desk[p].lesson), trained["base"] + 1)
        /\ \A d : DeskIsLearnt(d, lessons["base"]) => DeskIsLearnt(d, Append(lessons["base"], desk[p].lesson))
    BY <1>2, <2>2, OneMoreLesson DEF LessonsFit
  <2>5. LessonsFit'
    BY <1>3, <2>3, <2>4 DEF LessonsFit
  <2>6. DesksAreLearnt'
    BY <1>1, <2>3, <2>4 DEF DesksAreLearnt
  <2> QED
    BY <2>5, <2>6
<1>5. CASE k # "base"
  <2>1. lessons'["base"] = lessons["base"] /\ trained'["base"] = trained["base"]
    BY <1>1, <1>2, <1>5
  <2> QED
    BY <1>1, <1>3, <2>1 DEF LessonsFit, DesksAreLearnt
<1> QED
  BY <1>4, <1>5

\* The stages that have nothing to do with a base model.
OtherStages ==
    {ToReadRide, ToReadRides, ToReadScenario, ToReadTrips, ToReadCustomers, ToValidate, ToCompare, ToAnswer, ToJoin,
     ToSweep, ToLearnCases, ToEvaluateCases, ToProvideHistory, ToCustomers, ToFollow, ToFollowTrips}

LEMMA AtOtherStage ==
    ASSUME CommandsInOrder, Typed, NEW p \in Processes,
           \/ ReadRide(p) \/ ReadRides(p) \/ Validate(p) \/ ProvideHistory(p) \/ Answer(p) \/ Compare(p)
           \/ ReadScenario(p) \/ ReadTrips(p) \/ ReadCustomers(p) \/ Follow(p) \/ FollowTrips(p)
           \/ CompareCustomer(p) \/ CustomersCompared(p)
           \/ BeginSweep(p) \/ SweepOn(p) \/ EndSweep(p) \/ LearnCases(p) \/ EvaluateCases(p)
    PROVE  /\ IsUnderWay(desk[p]) /\ desk[p].status = "running"
           /\ StageOf(desk[p]) \notin {ToLearn, ToLoadBase, ToSaveBase, ToEvaluate}
<1>1. \/ In(p, ToReadRide) \/ In(p, ToReadRides) \/ In(p, ToReadScenario) \/ In(p, ToReadTrips)
      \/ In(p, ToReadCustomers)
      \/ In(p, ToValidate) \/ In(p, ToCompare) \/ In(p, ToAnswer) \/ In(p, ToJoin) \/ In(p, ToSweep)
      \/ In(p, ToLearnCases) \/ In(p, ToEvaluateCases) \/ In(p, ToProvideHistory)
      \/ In(p, ToCustomers) \/ In(p, ToFollow) \/ In(p, ToFollowTrips)
  BY DEF ReadRide, ReadRides, Validate, ProvideHistory, Answer, Compare, ReadScenario, ReadTrips, ReadCustomers, Follow,
         FollowTrips, CompareCustomer, CustomersCompared, BeginSweep, SweepOn, EndSweep, LearnCases,
         EvaluateCases, ToReadRide, ToReadRides, ToReadScenario, ToReadTrips, ToReadCustomers, ToValidate, ToCompare,
         ToAnswer, ToJoin, ToSweep, ToLearnCases, ToEvaluateCases, ToProvideHistory, ToCustomers,
         ToFollow, ToFollowTrips
<1>2. PICK stage \in OtherStages : In(p, stage)
  BY <1>1 DEF OtherStages
<1>3. stage \notin {ToLearn, ToLoadBase, ToSaveBase, ToEvaluate}
  BY StagesAreNumbered DEF AreNumbered, OtherStages
<1> QED
  BY <1>2, <1>3, AtStage

LEMMA CommandStepKeepsLearnt ==
    /\ ArtifactsInOrder /\ LoadsHaveRead /\ CommandsInOrder /\ CommandsInOrder'
    /\ LessonsFit /\ DesksAreLearnt /\ [CommandNext]_commandVars
    => LessonsFit' /\ DesksAreLearnt'
<1> SUFFICES ASSUME ArtifactsInOrder, LoadsHaveRead, CommandsInOrder, CommandsInOrder',
                    LessonsFit, DesksAreLearnt, [CommandNext]_commandVars
             PROVE  LessonsFit' /\ DesksAreLearnt'
  OBVIOUS
<1>1. Typed
  BY DEF ArtifactsInOrder
<1>2. CASE UNCHANGED commandVars
  BY <1>2 DEF commandVars, LessonsFit, DesksAreLearnt
<1>3. CASE CommandNext
  <2>1. PICK p \in Processes :
            \/ Type(p) \/ ReadRide(p) \/ ReadRides(p) \/ Validate(p)
            \/ \E k \in Kinds : Load(p, k) \/ Save(p, k)
            \/ UseFiles(p) \/ LoadReturns(p) \/ SaveReturns(p) \/ Killed(p)
            \/ Learn(p) \/ EvaluatePredictor(p)
            \/ ProvideHistory(p) \/ Answer(p) \/ Compare(p)
            \/ ReadScenario(p) \/ ReadTrips(p) \/ ReadCustomers(p) \/ Follow(p) \/ FollowTrips(p)
            \/ CompareCustomer(p) \/ CustomersCompared(p)
            \/ BeginSweep(p) \/ SweepOn(p) \/ EndSweep(p) \/ LearnCases(p) \/ EvaluateCases(p)
    BY <1>3 DEF CommandNext
  <2>2. ASSUME UNCHANGED <<lessons, trained>> PROVE LessonsFit'
    BY <2>2 DEF LessonsFit
  <2>3. ASSUME NEW fields, NEW kinds, Moves(p, fields, kinds), Elsewhere,
               "command" \notin fields, "predictor" \notin kinds,
               IsUnderWay(desk[p]), desk[p].status = "running",
               StageOf(desk[p]) \notin {ToLearn, ToLoadBase, ToSaveBase, ToEvaluate}
        PROVE  LessonsFit' /\ DesksAreLearnt'
    BY <2>2, <2>3, OthersKeepLearnt DEF Elsewhere
  <2>4. CASE Type(p)
    BY <2>2, <2>4, TypeKeepsLearnt DEF Type
  <2>5. CASE ReadRide(p) \/ ReadRides(p) \/ ReadScenario(p) \/ ReadTrips(p) \/ ReadCustomers(p) \/ ProvideHistory(p) \/ EndSweep(p)
    BY <1>1, <2>3, <2>5, AtOtherStage, ReadingMoves
  <2>6. CASE Validate(p) \/ Follow(p) \/ FollowTrips(p) \/ EvaluateCases(p)
    BY <1>1, <2>3, <2>6, AtOtherStage, ReportingMoves, EvaluatingCasesMoves
  <2>7. CASE BeginSweep(p) \/ SweepOn(p)
    BY <1>1, <2>3, <2>7, AtOtherStage, SweepingMoves
  <2>8. CASE Answer(p) \/ Compare(p) \/ CompareCustomer(p) \/ CustomersCompared(p)
    BY <1>1, <2>3, <2>8, AtOtherStage, AnsweringMoves
  <2>9. CASE LearnCases(p)
    BY <1>1, <2>3, <2>9, AtOtherStage, LearningMoves
  <2>10. CASE Learn(p)
    BY <1>1, <2>2, <2>10, LearnKeepsLearnt DEF Learn, Elsewhere
  <2>11. CASE EvaluatePredictor(p)
    BY <1>1, <2>2, <2>11, EvaluatePredictorKeepsLearnt DEF EvaluatePredictor, Elsewhere
  <2>12. CASE LoadReturns(p)
    BY <2>2, <2>12, LoadReturnsKeepsLearnt DEF LoadReturns, Dispose
  <2>13. CASE SaveReturns(p) \/ Killed(p)
    BY <1>1, <2>2, <2>13, SaveEndsKeepsLearnt DEF SaveReturns, Killed, FinishSave, AbandonSave
  <2>14. CASE \E k \in Kinds : Save(p, k)
    BY <1>1, <2>14, SaveKeepsLearnt
  <2>15. CASE UseFiles(p) \/ \E k \in Kinds : Load(p, k)
    <3>1. UNCHANGED <<desk, lessons, trained>>
      BY <2>15 DEF UseFiles, Load, StartLoad, OpenFile, WriteFile, ReadFile, FailToRead, FinishLoad
    <3> QED
      BY <2>2, <3>1 DEF DesksAreLearnt
  <2> QED
    BY <2>1, <2>4, <2>5, <2>6, <2>7, <2>8, <2>9, <2>10, <2>11, <2>12, <2>13, <2>14, <2>15
<1> QED
  BY <1>2, <1>3

LEMMA CommandInitLearnt == CommandInit => LoadsHaveRead /\ LessonsFit /\ DesksAreLearnt
<1> SUFFICES ASSUME CommandInit PROVE LoadsHaveRead /\ LessonsFit /\ DesksAreLearnt
  OBVIOUS
<1>1. PICK session \in Sessions : trained = session.trained /\ lessons = session.lessons
  BY DEF CommandInit
<1>2. /\ DOMAIN lessons = Kinds
      /\ lessons["base"] \in Seq(Range(lessons["base"])) /\ Len(lessons["base"]) = trained["base"]
      /\ \A i \in DOMAIN lessons["base"] : IsLesson(lessons["base"][i])
  BY <1>1, SessionAssumption
<1>3. DOMAIN lessons["base"] = 1 .. trained["base"]
  BY <1>2
<1>4. LessonsFit
  BY <1>2, <1>3 DEF LessonsFit, AreLessons
<1>5. \A p \in Processes : desk[p].status = "prompt" /\ jobs[p].doing = "nothing"
  BY DEF CommandInit, ArtifactInit, NoDesk, NoJob
<1>6. LoadsHaveRead /\ DesksAreLearnt
  BY <1>5 DEF LoadsHaveRead, DesksAreLearnt, DeskIsLearnt
<1> QED
  BY <1>4, <1>6

\* What is reported as held out was held out: none of the rides an evaluation
\* reports as held out is one the model named by the metadata it has read was
\* fitted to, and there is always one at least (split_records of
\* prediction/dataset.py, the metadata it is told from and the command
\* evaluate-predictor): for any number of terminals, trainings and rides, any
\* seeds and shuffles, and however saving and loading interleave.
THEOREM ReportedRidesAreUnseen == CommandSpec => []HeldOutIsUnseen
<1> DEFINE Known == LoadsHaveRead /\ LessonsFit /\ DesksAreLearnt
<1>1. CommandSpec => []ArtifactsInOrder
  BY CommandsRefineArtifacts, ArtifactsAreInOrder, PTL
<1>2. CommandSpec => []CommandsInOrder
  <2>1. CommandsAreSound => CommandsInOrder
    BY DEF CommandsAreSound
  <2> QED
    BY <2>1, CommandsStaySound, PTL
<1>3. ArtifactsInOrder /\ CommandsInOrder /\ CommandsInOrder' /\ Known /\ [CommandNext]_commandVars => Known'
  <2>1. ArtifactsInOrder => Typed
    BY DEF ArtifactsInOrder
  <2> QED
    BY <2>1, CommandStepIsArtifactStep, LoadsRead, CommandStepKeepsLearnt
<1>4. CommandInit => Known
  BY CommandInitLearnt
<1>5. Known => HeldOutIsUnseen
  <2> SUFFICES ASSUME Known, NEW p \in Processes, Reported(p, "predictor")
               PROVE  LET r == desk[p].report
                          seen == desk[p].base
                          lesson == lessons["base"][seen[1]]
                      IN  /\ r.evaluated # <<>>
                          /\ r.scope = "held_out_test_split" /\ (\A i \in DOMAIN seen : seen[i] = seen[1]) =>
                                Ids(r.evaluated) \cap Ids(Learnt(lesson.records, lesson.seed)) = {}
    BY DEF HeldOutIsUnseen
  <2> DEFINE lesson == lessons["base"][desk[p].base[1]]
  <2>1. IsEvaluation(desk[p], lessons["base"])
    BY DEF DesksAreLearnt, DeskIsLearnt, Reported
  <2>2. IsLesson(lesson)
    BY <2>1 DEF IsEvaluation, LessonsFit, AreLessons
  <2>3. Ids(HeldOut(lesson.records, lesson.seed)) \cap Ids(Learnt(lesson.records, lesson.seed)) = {}
    BY <2>2, HeldOutIsSeparate
  <2> QED
    BY <2>1, <2>3 DEF IsEvaluation
<1> QED
  BY <1>1, <1>2, <1>3, <1>4, <1>5, PTL DEF CommandSpec

-----------------------------------------------------------------------------
(* What a terminal has swept.                                              *)

\* The rides of a command's file.
RidesOfFile(command) ==
    Join([i \in DOMAIN command.file.records |-> RideOf(command.file.records[i].transaction)],
         [i \in DOMAIN command.file.records |-> OutcomeRead(command.file.records[i].outcome)])

\* A desk has swept nothing, or the rides of its command's file.
DeskIsSwept(d) ==
    \/ d.sweep = SweepInit(<<>>)
    \/ LET S == Range(RidesOfFile(d.command)) IN AreSwept(S) /\ SweepHolds(S, d.sweep)

DesksAreSwept == \A p \in Processes : desk[p].status # "prompt" => DeskIsSwept(desk[p])

LEMMA RidesOfCommand == ASSUME NEW p PROVE Rides(p) = RidesOfFile(desk[p].command)
BY DEF Rides, RidesOfFile, RidesRead, OutcomesRead, Command

\* A sweep of nothing.
LEMMA NothingToSweep ==
    /\ SweepInit(<<>>).todo = <<>> /\ SweepInit(<<>>).built = <<>>
    /\ ~CanSplit(SweepInit(<<>>).built)
<1> DEFINE S == Range(<<>>)
           s == Sorted(S, ByStart)
<1>1. S = {}
  BY DEF Range
<1>2. AreSwept(S) /\ Cardinality(S) = 0
  BY <1>1, FS_EmptySet DEF AreSwept
<1>3. Lists(s, 0, StartOrder(S), S)
  BY <1>2, SortedLists
<1>4. SweepInit(<<>>).todo = s /\ SweepInit(<<>>).built = <<>>
  BY DEF SweepInit
<1> HIDE DEF s, S
<1>5. s = <<>>
  <2>1. s \in [1 .. 0 -> S]
    BY <1>3 DEF Lists
  <2> QED
    BY <2>1
<1> QED
  BY <1>4, <1>5 DEF CanSplit

\* The rides of an accepted file are told apart, and each has its times and
\* what it cost of its estimate.
LEMMA RidesCanBeSwept ==
    ASSUME CommandsInOrder, Typed, NEW p \in Processes, In(p, "join"),
           JoinFaults(p) = {}, Malformed(Rides(p)) = {}
    PROVE  AreSwept(Range(Rides(p)))
<1> DEFINE rides == Rides(p)
           S == Range(rides)
<1>1. IsUnderWay(desk[p]) /\ StageOf(desk[p]) = "join"
  BY AtStage
<1>2. \A i \in DOMAIN Command(p).file.records : IsRecord(Command(p).file.records[i])
  BY <1>1, RidesAreAccepted DEF Command, UsingRides, ToJoin
<1>3. IsParsedFile(Command(p).file)
  BY <1>1 DEF IsUnderWay, IsCommand, Command
<1>4. PICK m \in Nat : /\ DOMAIN rides = 1 .. m
                       /\ rides \in Seq(S)
                       /\ \A i \in 1 .. m : IsJoinedRide(rides[i])
                       /\ \A i, j \in 1 .. m : i < j => rides[i].id < rides[j].id
  BY <1>2, <1>3, RidesAreJoined
<1>5. \A r \in S : ~(r.end < r.start)
  BY DEF Malformed
<1> HIDE DEF rides
<1>6. S = {rides[i] : i \in 1 .. m}
  BY <1>4 DEF Range
<1>7. ASSUME NEW r \in S PROVE IsSwept(r)
  <2>1. IsJoinedRide(r)
    BY <1>4, <1>6
  <2> QED
    BY <1>5, <2>1 DEF IsJoinedRide, IsSwept
<1>8. ASSUME NEW r \in S, NEW t \in S, r.id = t.id PROVE r = t
  <2>1. PICK i \in 1 .. m : r = rides[i]
    BY <1>6
  <2>2. PICK j \in 1 .. m : t = rides[j]
    BY <1>6
  <2>3. rides[i].id \in Int
    BY <1>4 DEF IsJoinedRide
  <2>4. ~(i < j) /\ ~(j < i)
    BY <1>4, <1>8, <2>1, <2>2, <2>3
  <2> QED
    BY <2>1, <2>2, <2>4
<1>9. IsFiniteSet(S)
  <2> DEFINE N == 1 .. m
  <2>1. IsFiniteSet(N)
    BY NumbersAreFinite
  <2>2. rides \in Surjection(N, S)
    BY <1>4, <1>6 DEF Surjection
  <2> HIDE DEF N, S
  <2> QED
    BY <2>1, <2>2, FS_Surjection
<1> QED
  BY <1>7, <1>8, <1>9 DEF AreSwept, rides

\* A step of p that leaves p's desk swept keeps them all so.
LEMMA SweptStep ==
    ASSUME CommandsInOrder, DesksAreSwept,
           NEW p \in Processes, NEW d, desk' = [desk EXCEPT ![p] = d], DeskIsSwept(d)
    PROVE  DesksAreSwept'
<1>1. desk'[p] = d /\ \A r \in Processes \ {p} : desk'[r] = desk[r]
  BY DEF CommandsInOrder
<1> QED
  BY <1>1 DEF DesksAreSwept

LEMMA SameSweep ==
    ASSUME NEW d, NEW e, DeskIsSwept(d), e.sweep = d.sweep, e.command = d.command
    PROVE  DeskIsSwept(e)
BY DEF DeskIsSwept

\* So does one that neither sweeps nor begins another command.
LEMMA OthersKeepSwept ==
    ASSUME CommandsInOrder, DesksAreSwept, NEW p \in Processes, desk[p].status = "running",
           NEW fields, NEW kinds, Moves(p, fields, kinds), "command" \notin fields, "sweep" \notin fields
    PROVE  DesksAreSwept'
<1>1. PICK d : /\ desk' = [desk EXCEPT ![p] = d]
               /\ \A f \in DeskFields \ fields : d[f] = desk[p][f]
  BY DEF Moves
<1>2. d.command = desk[p].command /\ d.sweep = desk[p].sweep
  BY <1>1 DEF DeskFields
<1>3. DeskIsSwept(desk[p])
  BY DEF DesksAreSwept
<1> QED
  BY <1>1, <1>2, <1>3, SameSweep, SweptStep

LEMMA RefusalsKeepSwept ==
    ASSUME CommandsInOrder, DesksAreSwept, NEW p \in Processes, IsUnderWay(desk[p]),
           desk[p].status = "running", NEW report, Refuse(p, report)
    PROVE  DesksAreSwept'
<1> DEFINE d == [desk[p] EXCEPT !.status = "refused", !.report = report]
<1>1. DOMAIN desk = Processes /\ DOMAIN desk[p] = DeskFields
  BY DEF CommandsInOrder, IsUnderWay
<1>2. desk' = [desk EXCEPT ![p] = d]
  BY <1>1 DEF Refuse
<1>3. d.command = desk[p].command /\ d.sweep = desk[p].sweep
  BY <1>1 DEF DeskFields
<1> HIDE DEF d
<1>4. DeskIsSwept(desk[p])
  BY DEF DesksAreSwept
<1>5. DeskIsSwept(d)
  BY <1>3, <1>4, SameSweep
<1> QED
  BY <1>2, <1>5, SweptStep

LEMMA TypeKeepsSwept ==
    ASSUME CommandsInOrder, DesksAreSwept, NEW p \in Processes, Type(p)
    PROVE  DesksAreSwept'
<1> DEFINE d == Started(Head(typed[p]))
<1>1. desk' = [desk EXCEPT ![p] = d]
  BY DEF Type
<1>2. DeskIsSwept(d)
  BY DEF Started, DeskIsSwept
<1> HIDE DEF d
<1> QED
  BY <1>1, <1>2, SweptStep

LEMMA BeginSweepKeepsSwept ==
    ASSUME CommandsInOrder, Typed, DesksAreSwept, NEW p \in Processes, BeginSweep(p)
    PROVE  DesksAreSwept'
<1>1. In(p, "join")
  BY DEF BeginSweep
<1>2. IsUnderWay(desk[p]) /\ desk[p].status = "running"
  BY <1>1, AtStage
<1>3. CASE JoinFaults(p) # {} \/ Malformed(Rides(p)) # {}
  <2>1. PICK report : Refuse(p, report)
    BY <1>3 DEF BeginSweep
  <2> QED
    BY <1>2, <2>1, RefusalsKeepSwept
<1>4. CASE JoinFaults(p) = {} /\ Malformed(Rides(p)) = {}
  <2> DEFINE rides == Rides(p)
             d == [desk[p] EXCEPT !.at = @ + 1, !.sweep = SweepInit(rides)]
  <2>1. DOMAIN desk = Processes /\ DOMAIN desk[p] = DeskFields
    BY <1>2 DEF CommandsInOrder, IsUnderWay
  <2>2. desk' = [desk EXCEPT ![p] = d]
    BY <1>4, <2>1 DEF BeginSweep
  <2>3. d.command = desk[p].command /\ d.sweep = SweepInit(rides)
    BY <2>1 DEF DeskFields
  <2>4. AreSwept(Range(rides))
    BY <1>1, <1>4, RidesCanBeSwept
  <2>5. rides = RidesOfFile(d.command)
    BY <2>3, RidesOfCommand
  <2> HIDE DEF d, rides
  <2>6. DeskIsSwept(d)
    BY <2>3, <2>4, <2>5, SweepBegins DEF DeskIsSwept
  <2> QED
    BY <2>2, <2>6, SweptStep
<1> QED
  BY <1>3, <1>4

LEMMA SweepOnKeepsSwept ==
    ASSUME CommandsInOrder, Typed, DesksAreSwept, NEW p \in Processes, SweepOn(p)
    PROVE  DesksAreSwept'
<1>1. In(p, "sweep") /\ desk[p].sweep.todo # <<>>
  BY DEF SweepOn, Sweeping
<1>2. IsUnderWay(desk[p]) /\ desk[p].status = "running"
  BY <1>1, AtStage
<1> DEFINE sweep == desk[p].sweep
           next == IF Due(sweep) THEN Release(sweep) ELSE Build(sweep)
           S == Range(RidesOfFile(desk[p].command))
           d == [desk[p] EXCEPT !.sweep = next]
<1>3. DOMAIN desk = Processes /\ DOMAIN desk[p] = DeskFields
  BY <1>2 DEF CommandsInOrder, IsUnderWay
<1>4. desk' = [desk EXCEPT ![p] = d]
  BY <1>3 DEF SweepOn
<1>5. d.command = desk[p].command /\ d.sweep = next
  BY <1>3 DEF DeskFields
<1>6. AreSwept(S) /\ SweepHolds(S, sweep)
  BY <1>1, <1>2, NothingToSweep DEF DesksAreSwept, DeskIsSwept
<1> HIDE DEF d, S, sweep
<1>7. SweepHolds(S, next)
  BY <1>1, <1>6, ReleaseHolds, BuildHolds DEF sweep
<1> HIDE DEF next
<1>8. DeskIsSwept(d)
  BY <1>5, <1>6, <1>7 DEF DeskIsSwept, S
<1> QED
  BY <1>4, <1>8, SweptStep

LEMMA CommandStepKeepsSwept ==
    Typed /\ CommandsInOrder /\ DesksAreSwept /\ [CommandNext]_commandVars => DesksAreSwept'
<1> SUFFICES ASSUME Typed, CommandsInOrder, DesksAreSwept, [CommandNext]_commandVars
             PROVE  DesksAreSwept'
  OBVIOUS
<1>1. CASE UNCHANGED commandVars
  BY <1>1 DEF commandVars, DesksAreSwept
<1>2. CASE CommandNext
  <2>1. PICK p \in Processes :
            \/ Type(p) \/ ReadRide(p) \/ ReadRides(p) \/ Validate(p)
            \/ \E k \in Kinds : Load(p, k) \/ Save(p, k)
            \/ UseFiles(p) \/ LoadReturns(p) \/ SaveReturns(p) \/ Killed(p)
            \/ Learn(p) \/ EvaluatePredictor(p)
            \/ ProvideHistory(p) \/ Answer(p) \/ Compare(p)
            \/ ReadScenario(p) \/ ReadTrips(p) \/ ReadCustomers(p) \/ Follow(p) \/ FollowTrips(p)
            \/ CompareCustomer(p) \/ CustomersCompared(p)
            \/ BeginSweep(p) \/ SweepOn(p) \/ EndSweep(p) \/ LearnCases(p) \/ EvaluateCases(p)
    BY <1>2 DEF CommandNext
  <2>2. ASSUME NEW fields, NEW kinds, Moves(p, fields, kinds),
               "command" \notin fields, "sweep" \notin fields, desk[p].status = "running"
        PROVE  DesksAreSwept'
    BY <2>2, OthersKeepSwept
  <2>3. ASSUME NEW stage, In(p, stage) PROVE desk[p].status = "running"
    BY <2>3, AtStage
  <2>4. CASE Type(p)
    BY <2>4, TypeKeepsSwept
  <2>5. CASE ReadRide(p) \/ ReadRides(p) \/ ReadScenario(p) \/ ReadTrips(p) \/ ReadCustomers(p) \/ ProvideHistory(p) \/ EndSweep(p)
    BY <2>2, <2>5, AtOtherStage, ReadingMoves
  <2>6. CASE Validate(p) \/ Follow(p) \/ FollowTrips(p) \/ EvaluateCases(p)
    BY <2>2, <2>6, AtOtherStage, ReportingMoves, EvaluatingCasesMoves
  <2>7. CASE Answer(p) \/ Compare(p) \/ CompareCustomer(p) \/ CustomersCompared(p)
    BY <2>2, <2>7, AtOtherStage, AnsweringMoves
  <2>8. CASE Learn(p) \/ LearnCases(p)
    <3>1. desk[p].status = "running"
      BY <2>3, <2>8 DEF Learn, LearnCases
    <3> QED
      BY <2>2, <2>8, <3>1, LearningMoves
  <2>9. CASE EvaluatePredictor(p)
    <3>1. desk[p].status = "running"
      BY <2>3, <2>9 DEF EvaluatePredictor
    <3> QED
      BY <2>2, <2>9, <3>1, EvaluatingMoves
  <2>10. CASE LoadReturns(p) \/ SaveReturns(p) \/ Killed(p)
    <3>1. jobs[p] # NoJob
      <4>1. \/ jobs[p].doing = "loaded" \/ jobs[p].doing = "load failed" \/ jobs[p].doing = "save"
        BY <2>10 DEF LoadReturns, SaveReturns, Killed, Dispose, FinishSave, AbandonSave, IsDoing
      <4>2. NoJob.doing = "nothing"
        BY DEF NoJob
      <4> QED
        BY <4>1, <4>2
    <3>2. desk[p].status = "running"
      BY <3>1, JobAtStage
    <3> QED
      BY <2>2, <2>10, <3>2, ArtifactMoves
  <2>11. CASE UseFiles(p) \/ \E k \in Kinds : Load(p, k) \/ Save(p, k)
    <3>1. UNCHANGED desk
      BY <2>11 DEF UseFiles, Load, Save, StartLoad, StartSave, OpenFile, WriteFile, ReadFile, FailToRead, FinishLoad
    <3> QED
      BY <3>1 DEF DesksAreSwept
  <2>12. CASE BeginSweep(p)
    BY <2>12, BeginSweepKeepsSwept
  <2>13. CASE SweepOn(p)
    BY <2>13, SweepOnKeepsSwept
  <2> QED
    BY <2>1, <2>4, <2>5, <2>6, <2>7, <2>8, <2>9, <2>10, <2>11, <2>12, <2>13
<1> QED
  BY <1>1, <1>2

LEMMA DesksStaySwept == CommandSpec => []DesksAreSwept
<1>1. CommandInit => DesksAreSwept
  BY DEF CommandInit, NoDesk, DesksAreSwept
<1>2. CommandsAreSound => Typed /\ CommandsInOrder
  BY DEF CommandsAreSound
<1> QED
  BY <1>1, <1>2, CommandsStaySound, CommandStepKeepsSwept, PTL DEF CommandSpec

\* No ride is trained or evaluated with a history that was not known when it
\* started: the sweep hands every ride the history that looking it up among the
\* rides of its customer that had ended would give, in order of time, loses none
\* and repeats none, and the split cuts what it built into three parts that
\* follow one another (build_personalized_records and chronological_split of
\* personalization/dataset.py, the commands train-personalized-predictor and
\* evaluate-personalization): for any number of terminals and rides, and any
\* times and customers.
THEOREM SweepsAreCausal == CommandSpec => []SweepIsCausal
<1>1. DesksAreSwept => SweepIsCausal
  <2> SUFFICES ASSUME DesksAreSwept, NEW p \in Processes, desk[p].status # "prompt"
               PROVE  LET built == Sweeping(p).built
                          parts == Split(built)
                      IN  /\ \A i \in DOMAIN built :
                              /\ built[i].history = FeaturesFor(Rides(p), built[i].ride)
                              /\ AreFeatures(built[i].history)
                              /\ i > 1 => built[i - 1].ride.start <= built[i].ride.start
                          /\ Sweeping(p).todo = <<>> /\ CanSplit(built) =>
                              /\ Range(RidesOf(built)) = Range(Rides(p))
                              /\ \A part \in {"train", "validation", "test"} : parts[part] # <<>>
                              /\ parts.train \o parts.validation \o parts.test = built
    BY DEF SweepIsCausal
  <2> DEFINE sweep == desk[p].sweep
             rides == Rides(p)
  <2>1. Sweeping(p) = sweep
    BY DEF Sweeping
  <2>2. \/ sweep = SweepInit(<<>>)
        \/ AreSwept(Range(rides)) /\ SweepHolds(Range(rides), sweep)
    BY RidesOfCommand DEF DesksAreSwept, DeskIsSwept
  <2> HIDE DEF sweep, rides
  <2>3. CASE sweep = SweepInit(<<>>)
    <3>1. sweep.built = <<>> /\ ~CanSplit(sweep.built)
      BY <2>3, NothingToSweep
    <3> QED
      BY <2>1, <3>1
  <2>4. CASE AreSwept(Range(rides)) /\ SweepHolds(Range(rides), sweep)
    BY <2>1, <2>4, SweptIsCausal DEF rides
  <2> QED
    BY <2>2, <2>3, <2>4
<1> QED
  BY <1>1, DesksStaySwept, PTL

-----------------------------------------------------------------------------
(* Every comparison reported adds up.                                      *)

\* A comparison that is reported adds up: of each strategy the successes and the
\* shortfalls, the averages and the totals within their rounding; between them
\* the fares; and the figures of the cities.
THEOREM ReportedComparisonsAddUp ==
    CommandSpec => [](\A p \in Processes :
                        Reported(p, "comparison") => ComparisonAddsUp(desk[p].report))
<1>1. CommandsAreSound => \A p \in Processes : Reported(p, "comparison") => ComparisonAddsUp(desk[p].report)
  <2> SUFFICES ASSUME CommandsAreSound, NEW p \in Processes, Reported(p, "comparison")
               PROVE  ComparisonAddsUp(desk[p].report)
    OBVIOUS
  <2> DEFINE report == desk[p].report
  <2>1. IsMadeComparison(report) /\ report.kind = "comparison"
    BY DEF CommandsAreSound, AnswersAreMade, DeskIsMade, ReportIsMade, Reported
  <2> HIDE DEF report
  <2>2. PICK compared, rides, raws, step :
            /\ AreCompared(rides, raws) /\ {"exact_estimate", "fixed_buffer"} \subseteq compared
            /\ report = ComparisonReport(compared, rides, raws, step)
    BY <2>1 DEF IsMadeComparison
  <2>3. ComparisonAddsUp(report)
    BY <2>1, <2>2, ReportedComparisonAddsUp
  <2> QED
    BY <2>3 DEF report
<1> QED
  BY <1>1, CommandsStaySound, PTL

-----------------------------------------------------------------------------
(* Everything reported of personalized predictions, and of rides under way, *)
(* adds up                                                                  *)

ReportAddsUp(r) ==
    /\ r.kind = "personalization" => PersonalizationAddsUp(r)
    /\ r.kind = "ride" => RideAddsUp(r)
    /\ r.kind = "rides" => RidesAddUp(r)

Figured == {"personalization", "ride", "rides"}

\* What is known of a desk: what is evaluated can be split, and what was
\* reported adds up.
DeskAddsUp(d) ==
    /\ d.status = "running" /\ StageOf(d) = ToEvaluateCases => CanSplit(d.sweep.built)
    /\ d.status \in {"done", "refused"} => ReportAddsUp(d.report)

DesksAddUp == \A p \in Processes : DeskAddsUp(desk[p])

LEMMA AddingStep ==
    ASSUME CommandsInOrder, DesksAddUp,
           NEW p \in Processes, NEW d, desk' = [desk EXCEPT ![p] = d], DeskAddsUp(d)
    PROVE  DesksAddUp'
<1>1. desk'[p] = d /\ \A r \in Processes \ {p} : desk'[r] = desk[r]
  BY DEF CommandsInOrder
<1> QED
  BY <1>1 DEF DesksAddUp

LEMMA EndKeepsAdding ==
    ASSUME CommandsInOrder, DesksAddUp, NEW p \in Processes, IsUnderWay(desk[p]),
           NEW report, Report(p, report) \/ Refuse(p, report), ReportAddsUp(report)
    PROVE  DesksAddUp'
<1>1. DOMAIN desk = Processes /\ DOMAIN desk[p] = DeskFields
  BY DEF CommandsInOrder, IsUnderWay
<1>2. PICK status \in {"done", "refused"} : desk' = [desk EXCEPT ![p].status = status, ![p].report = report]
  BY DEF Report, Refuse
<1> DEFINE d == [desk[p] EXCEPT !.status = status, !.report = report]
<1>3. desk' = [desk EXCEPT ![p] = d]
  BY <1>1, <1>2
<1>4. d.status = status /\ d.report = report
  BY <1>1 DEF DeskFields
<1> HIDE DEF d
<1>5. DeskAddsUp(d)
  BY <1>2, <1>4 DEF DeskAddsUp
<1> QED
  BY <1>3, <1>5, AddingStep

\* Any stage but the sweep leads elsewhere than to the evaluation of cases.
LEMMA OthersKeepAdding ==
    ASSUME CommandsInOrder, CommandsInOrder', DesksAddUp,
           NEW p \in Processes, IsUnderWay(desk[p]), desk[p].status = "running",
           StageOf(desk[p]) \notin {ToSweep, ToEvaluateCases},
           NEW fields, NEW kinds, Moves(p, fields, kinds),
           "command" \notin fields, kinds \cap Figured = {}
    PROVE  DesksAddUp'
<1>1. PICK d : /\ desk' = [desk EXCEPT ![p] = d] /\ DOMAIN d = DeskFields
               /\ \A f \in DeskFields \ fields : d[f] = desk[p][f]
               /\ d.status \in {"running", "done", "refused"}
               /\ d.status = "running" => d.at \in {desk[p].at, desk[p].at + 1}
               /\ d.status # "running" => d.report.kind \in kinds
  BY DEF Moves
<1>2. d.command = desk[p].command
  BY <1>1 DEF DeskFields
<1>3. ASSUME d.status = "running" PROVE StageOf(d) # ToEvaluateCases
  <2>1. desk'[p] = d
    BY <1>1 DEF CommandsInOrder
  <2>2. IsUnderWay(d)
    BY <1>3, <2>1 DEF CommandsInOrder, DeskInOrder
  <2>3. InOrderAt(d.command.name, Stages(d.command.name), d.at)
    BY <2>2, UnderWayStage
  <2>4. CASE d.at = desk[p].at
    BY <1>2, <2>4 DEF StageOf
  <2>5. CASE d.at = desk[p].at + 1
    <3>1. desk[p].at \in Int
      BY UnderWayStage
    <3>2. d.at - 1 = desk[p].at
      BY <2>5, <3>1
    <3> QED
      BY <1>2, <2>3, <3>2 DEF InOrderAt, StageOf
  <2> QED
    BY <1>1, <1>3, <2>4, <2>5
<1>4. DeskAddsUp(d)
  BY <1>1, <1>3 DEF DeskAddsUp, ReportAddsUp, Figured
<1> QED
  BY <1>1, <1>4, AddingStep

\* The stages that have nothing to do with cases.
StagesBeforeCases ==
    {ToReadRide, ToReadRides, ToReadScenario, ToReadTrips, ToReadCustomers, ToValidate, ToCompare, ToLearn, ToEvaluate,
     ToAnswer, ToJoin, ToLearnCases, ToProvideHistory, ToCustomers, ToFollow, ToFollowTrips}

LEMMA AwayFromCases ==
    ASSUME CommandsInOrder, Typed, NEW p \in Processes,
           \/ ReadRide(p) \/ ReadRides(p) \/ Validate(p) \/ ProvideHistory(p) \/ Answer(p) \/ Compare(p)
           \/ ReadScenario(p) \/ ReadTrips(p) \/ ReadCustomers(p) \/ Follow(p) \/ FollowTrips(p)
           \/ CompareCustomer(p) \/ CustomersCompared(p)
           \/ BeginSweep(p) \/ Learn(p) \/ EvaluatePredictor(p) \/ LearnCases(p)
    PROVE  /\ IsUnderWay(desk[p]) /\ desk[p].status = "running"
           /\ StageOf(desk[p]) \notin {ToSweep, ToEvaluateCases}
<1>1. \/ In(p, ToReadRide) \/ In(p, ToReadRides) \/ In(p, ToReadScenario) \/ In(p, ToReadTrips)
      \/ In(p, ToReadCustomers)
      \/ In(p, ToValidate) \/ In(p, ToCompare) \/ In(p, ToAnswer) \/ In(p, ToJoin)
      \/ In(p, ToLearn) \/ In(p, ToEvaluate) \/ In(p, ToLearnCases) \/ In(p, ToProvideHistory)
      \/ In(p, ToCustomers) \/ In(p, ToFollow) \/ In(p, ToFollowTrips)
  BY DEF ReadRide, ReadRides, Validate, ProvideHistory, Answer, Compare, ReadScenario, ReadTrips, ReadCustomers, Follow,
         FollowTrips, CompareCustomer, CustomersCompared, BeginSweep, Learn, EvaluatePredictor, LearnCases,
         ToReadRide, ToReadRides, ToReadScenario, ToReadTrips, ToReadCustomers, ToValidate, ToCompare,
         ToAnswer, ToJoin, ToLearn, ToEvaluate, ToLearnCases, ToProvideHistory, ToCustomers,
         ToFollow, ToFollowTrips
<1>2. PICK stage \in StagesBeforeCases : In(p, stage)
  BY <1>1 DEF StagesBeforeCases
<1>3. stage \notin {ToSweep, ToEvaluateCases}
  BY StagesAreNumbered DEF AreNumbered, StagesBeforeCases
<1> QED
  BY <1>2, <1>3, AtStage

LEMMA TypeKeepsAdding ==
    ASSUME CommandsInOrder, CommandsInOrder', DesksAddUp, NEW p \in Processes, Type(p)
    PROVE  DesksAddUp'
<1> DEFINE d == Started(Head(typed[p]))
<1>1. desk' = [desk EXCEPT ![p] = d]
  BY DEF Type
<1>2. d.status = "running" /\ d.at = 1
  BY DEF Started
<1> HIDE DEF d
<1>3. desk'[p] = d
  BY <1>1 DEF CommandsInOrder
<1>4. IsUnderWay(d)
  BY <1>2, <1>3 DEF CommandsInOrder, DeskInOrder
<1>5. InOrderAt(d.command.name, Stages(d.command.name), 1)
  BY <1>2, <1>4, UnderWayStage
<1>6. StageOf(d) # ToEvaluateCases
  BY <1>2, <1>5 DEF InOrderAt, StageOf
<1>7. DeskAddsUp(d)
  BY <1>2, <1>6 DEF DeskAddsUp
<1> QED
  BY <1>1, <1>7, AddingStep

\* A command that sweeps is not evaluating yet.
LEMMA SweepOnKeepsAdding ==
    ASSUME CommandsInOrder, Typed, DesksAddUp, NEW p \in Processes, SweepOn(p)
    PROVE  DesksAddUp'
<1>1. In(p, ToSweep)
  BY DEF SweepOn, ToSweep
<1>2. IsUnderWay(desk[p]) /\ desk[p].status = "running" /\ StageOf(desk[p]) = ToSweep
  BY <1>1, AtStage
<1>3. DOMAIN desk = Processes /\ DOMAIN desk[p] = DeskFields
  BY <1>2 DEF CommandsInOrder, IsUnderWay
<1> DEFINE next == IF Due(desk[p].sweep) THEN Release(desk[p].sweep) ELSE Build(desk[p].sweep)
           d == [desk[p] EXCEPT !.sweep = next]
<1>4. desk' = [desk EXCEPT ![p] = d]
  BY <1>3 DEF SweepOn
<1> HIDE DEF next
<1>5. d.status = "running" /\ d.command = desk[p].command /\ d.at = desk[p].at
  BY <1>2, <1>3 DEF DeskFields
<1> HIDE DEF d
<1>6. StageOf(d) = ToSweep
  BY <1>2, <1>5 DEF StageOf
<1>7. ToSweep # ToEvaluateCases
  BY StagesAreNumbered DEF AreNumbered
<1>8. DeskAddsUp(d)
  BY <1>5, <1>6, <1>7 DEF DeskAddsUp
<1> QED
  BY <1>4, <1>8, AddingStep

\* What was swept is evaluated only if it can be split.
LEMMA EndSweepKeepsAdding ==
    ASSUME CommandsInOrder, Typed, DesksAddUp, NEW p \in Processes, EndSweep(p)
    PROVE  DesksAddUp'
<1>1. In(p, ToSweep)
  BY DEF EndSweep, ToSweep
<1>2. IsUnderWay(desk[p]) /\ desk[p].status = "running"
  BY <1>1, AtStage
<1>3. DOMAIN desk = Processes /\ DOMAIN desk[p] = DeskFields
  BY <1>2 DEF CommandsInOrder, IsUnderWay
<1>4. CASE CanSplit(desk[p].sweep.built)
  <2> DEFINE d == [desk[p] EXCEPT !.at = @ + 1]
  <2>1. desk' = [desk EXCEPT ![p] = d]
    BY <1>3, <1>4 DEF EndSweep, Advance, Sweeping
  <2>2. d.status = "running" /\ d.sweep = desk[p].sweep
    BY <1>2, <1>3 DEF DeskFields
  <2> HIDE DEF d
  <2>3. DeskAddsUp(d)
    BY <1>4, <2>2 DEF DeskAddsUp
  <2> QED
    BY <2>1, <2>3, AddingStep
<1>5. CASE ~CanSplit(desk[p].sweep.built)
  <2> DEFINE d == [desk[p] EXCEPT !.status = "refused", !.report = [kind |-> "too few rides"]]
  <2>1. desk' = [desk EXCEPT ![p] = d]
    BY <1>3, <1>5 DEF EndSweep, Refuse, Sweeping
  <2>2. d.status = "refused" /\ d.report.kind = "too few rides"
    BY <1>3 DEF DeskFields
  <2> HIDE DEF d
  <2>3. DeskAddsUp(d)
    BY <2>2 DEF DeskAddsUp, ReportAddsUp
  <2> QED
    BY <2>1, <2>3, AddingStep
<1> QED
  BY <1>4, <1>5

\* What is held out of what was swept has its predictions.
AreHeldOut(cases, n) ==
    /\ DOMAIN cases = 1 .. n /\ Len(cases) = n
    /\ \A j \in 1 .. n : IsJoinedRide(cases[j].ride) /\ cases[j].history.count \in Nat

ArePredictions(cases, M, P) == P \in [Ids(RidesOf(cases)) -> M]

AreRaws(M) == \A raw \in M : IsRaw(raw)

ArePredicted(cases, n, base, personal) ==
    /\ AreCases(cases, n, base, personal)
    /\ base = [id \in DOMAIN base |-> base[id]]
    /\ \A id \in DOMAIN base : \E j \in 1 .. n : cases[j].ride.id = id

LEMMA TestIsPredicted ==
    ASSUME NEW cases, NEW n \in Nat, AreHeldOut(cases, n),
           NEW M, AreRaws(M),
           NEW base, ArePredictions(cases, M, base),
           NEW personal, ArePredictions(cases, M, personal)
    PROVE  ArePredicted(cases, n, base, personal)
<1> DEFINE rides == RidesOf(cases)
           N == Ids(rides)
<1>1. DOMAIN rides = 1 .. n /\ \A j \in 1 .. n : rides[j] = cases[j].ride
  BY DEF RidesOf, AreHeldOut
<1>2. N = {rides[j].id : j \in 1 .. n}
  BY <1>1 DEF Ids
<1> HIDE DEF rides
<1>3. \A j \in 1 .. n : cases[j].ride.id \in N
  BY <1>1, <1>2
<1>4. \A id \in N : \E j \in 1 .. n : cases[j].ride.id = id
  BY <1>1, <1>2
<1>5. base \in [N -> M] /\ personal \in [N -> M]
  BY DEF rides, ArePredictions
<1> HIDE DEF N
<1>6. \A j \in 1 .. n : /\ cases[j].ride.fare \in Nat \ {0} /\ cases[j].ride.id \in DOMAIN base
                        /\ IsRaw(base[cases[j].ride.id]) /\ IsRaw(personal[cases[j].ride.id])
  BY <1>3, <1>5 DEF IsJoinedRide, AreHeldOut, AreRaws
<1>7. AreCases(cases, n, base, personal)
  BY <1>6 DEF AreCases, AreHeldOut
<1> QED
  BY <1>4, <1>5, <1>7 DEF ArePredicted

LEMMA EvaluateCasesKeepsAdding ==
    ASSUME CommandsInOrder, Typed, DesksAreSwept, DesksAddUp, AnswersAreMade,
           NEW p \in Processes, EvaluateCases(p)
    PROVE  DesksAddUp'
<1>1. In(p, ToEvaluateCases)
  BY DEF EvaluateCases, ToEvaluateCases
<1>2. IsUnderWay(desk[p]) /\ desk[p].status = "running" /\ StageOf(desk[p]) = ToEvaluateCases
  BY <1>1, AtStage
<1>3. DOMAIN desk = Processes /\ DOMAIN desk[p] = DeskFields
  BY <1>2 DEF CommandsInOrder, IsUnderWay
<1> DEFINE sweep == desk[p].sweep
           built == sweep.built
           test == Split(built).test
           step == Command(p).step
<1>4. CanSplit(built)
  BY <1>2 DEF DesksAddUp, DeskAddsUp
<1>5. PICK S : AreSwept(S) /\ SweepHolds(S, sweep)
  BY <1>2, <1>4, NothingToSweep DEF DesksAreSwept, DeskIsSwept
<1>6. built \in Seq(Cases(S))
  BY <1>5 DEF SweepHolds, IsSweep
<1>7. PICK n \in Nat \ {0} :
          /\ DOMAIN test = 1 .. n /\ Len(test) = n
          /\ \A j \in 1 .. n : IsJoinedRide(test[j].ride) /\ test[j].history.count \in Nat
  <2> HIDE DEF sweep, built
  <2> QED
    BY <1>4, <1>5, <1>6, TestIsBuilt
<1>8. PICK base \in [Ids(RidesOf(test)) -> models], personal \in [Ids(RidesOf(test)) -> models] :
          IF HasDownstream(test, base, personal, step)
          THEN Report(p, CasesReport(p, test, base, personal))
          ELSE Refuse(p, [kind |-> "no block"])
  BY DEF EvaluateCases, Sweeping
<1> HIDE DEF test, step
<1>9. /\ AreCases(test, n, base, personal)
      /\ base = [id \in DOMAIN base |-> base[id]]
      /\ \A id \in DOMAIN base : \E j \in 1 .. n : test[j].ride.id = id
  <2>1. AreRaws(models)
    BY DEF AnswersAreMade, AreRaws
  <2>2. AreHeldOut(test, n) /\ n \in Nat
    BY <1>7 DEF AreHeldOut
  <2>3. ArePredictions(test, models, base) /\ ArePredictions(test, models, personal)
    BY <1>8 DEF ArePredictions
  <2>4. ArePredicted(test, n, base, personal)
    BY <2>1, <2>2, <2>3, TestIsPredicted
  <2> QED
    BY <2>4 DEF ArePredicted
<1>10. CASE HasDownstream(test, base, personal, step)
  <2> DEFINE r == CasesReport(p, test, base, personal)
             enough == WithEnough(test)
             d == [desk[p] EXCEPT !.status = "done", !.report = r]
  <2>1. /\ r.overall = Cohort(test, base, personal, enough)
        /\ r.depths = Grouped(ByDepth(test), base, personal, enough)
        /\ r.segments = Grouped(BySegment(test, enough), base, personal, enough)
        /\ r.downstream = <<Downstream(RidesOf(test), base, step),
                            Downstream(RidesOf(test), Fallback(base, personal, enough), step)>>
    BY DEF CasesReport, step
  <2>2. desk' = [desk EXCEPT ![p] = d]
    BY <1>3, <1>8, <1>10 DEF Report
  <2> HIDE DEF r
  <2>3. d.status = "done" /\ d.report = r
    BY <1>3 DEF DeskFields
  <2> HIDE DEF d, enough
  <2>4. n \in Nat /\ n > 0
    BY <1>7
  <2>5. enough = WithEnough(test)
    BY DEF enough
  <2>6. PersonalizationAddsUp(r)
    BY <1>7, <1>9, <1>10, <2>1, <2>4, <2>5, CasesAddUp
  <2>7. r.kind = "personalization"
    BY CasesKind DEF r
  <2>8. DeskAddsUp(d)
    BY <2>3, <2>6, <2>7 DEF DeskAddsUp, ReportAddsUp
  <2> QED
    BY <2>2, <2>8, AddingStep
<1>11. CASE ~HasDownstream(test, base, personal, step)
  <2> DEFINE d == [desk[p] EXCEPT !.status = "refused", !.report = [kind |-> "no block"]]
  <2>1. desk' = [desk EXCEPT ![p] = d]
    BY <1>3, <1>8, <1>11 DEF Refuse
  <2>2. d.status = "refused" /\ d.report.kind = "no block"
    BY <1>3 DEF DeskFields
  <2> HIDE DEF d
  <2>3. DeskAddsUp(d)
    BY <2>2 DEF DeskAddsUp, ReportAddsUp
  <2> QED
    BY <2>1, <2>3, AddingStep
<1> QED
  BY <1>10, <1>11

\* A ride is followed from what was accepted, with predictions of the models.
LEMMA FollowKeepsAdding ==
    ASSUME CommandsInOrder, Typed, DesksAddUp, AnswersAreMade, NEW p \in Processes, Follow(p)
    PROVE  DesksAddUp'
<1>1. In(p, ToFollow)
  BY DEF Follow, ToFollow
<1>2. IsUnderWay(desk[p]) /\ StageOf(desk[p]) = ToFollow
  BY <1>1, AtStage
<1>3. PICK trip : trip = Command(p).trip
  OBVIOUS
<1>4. IsTrip(trip) /\ IsParsedTrip(trip)
  BY <1>2, <1>3, TripIsAccepted, TripIsParsed DEF Command
<1>5. PICK confirming : confirming = Command(p).confirm
  OBVIOUS
<1>6. PICK raws \in [ContextsOf(<<trip>>) -> models] :
          LET s == Ridden(trip, Targets(raws, Command(p).step, Command(p).profile), confirming)
          IN  IF s.stopped # "no" THEN Refuse(p, [kind |-> "stopped", why |-> s.stopped])
              ELSE Report(p, [kind |-> "ride", confirming |-> confirming, session |-> s,
                              static |-> s.initial >= OutcomeRead(trip.outcome).fare,
                              dynamic |-> s.block >= OutcomeRead(trip.outcome).fare])
  BY <1>3, <1>5 DEF Follow
<1>7. ArePredictedFor(raws, trip)
  <2>1. PICK trips : trips = <<trip>>
    OBVIOUS
  <2>2. 1 \in DOMAIN trips /\ trips[1] = trip
    BY <2>1
  <2>3. \A raw \in models : IsRaw(raw)
    BY DEF AnswersAreMade
  <2> QED
    BY <1>6, <2>1, <2>2, <2>3, ContextsArePredicted
<1>8. PICK step, profile : step = Command(p).step /\ profile = Command(p).profile
  OBVIOUS
<1>9. PICK s : s = Ridden(trip, Targets(raws, step, profile), confirming)
  OBVIOUS
<1>10. CASE s.stopped # "no"
  <2>1. PICK r : r = [kind |-> "stopped", why |-> s.stopped]
    OBVIOUS
  <2>2. Refuse(p, r)
    BY <1>6, <1>8, <1>9, <1>10, <2>1
  <2>3. ReportAddsUp(r)
    BY <2>1 DEF ReportAddsUp
  <2> QED
    BY <1>2, <2>2, <2>3, EndKeepsAdding
<1>11. CASE s.stopped = "no"
  <2>1. PICK r : r = [kind |-> "ride", confirming |-> confirming, session |-> s,
                      static |-> s.initial >= OutcomeRead(trip.outcome).fare,
                      dynamic |-> s.block >= OutcomeRead(trip.outcome).fare]
    OBVIOUS
  <2>2. Report(p, r)
    BY <1>6, <1>8, <1>9, <1>11, <2>1
  <2>3. r.session = s /\ r.confirming = confirming /\ r.kind = "ride"
    BY <2>1
  <2>4. /\ r.static = (s.initial >= OutcomeRead(trip.outcome).fare)
        /\ r.dynamic = (s.block >= OutcomeRead(trip.outcome).fare)
    BY Zenon, <2>1
  <2>5. RideAddsUp(r)
    BY <1>4, <1>7, <1>9, <1>11, <2>3, <2>4, RideReportAddsUp
  <2>6. ReportAddsUp(r)
    BY <2>3, <2>5 DEF ReportAddsUp
  <2> QED
    BY <1>2, <2>2, <2>6, EndKeepsAdding
<1> QED
  BY <1>10, <1>11

LEMMA FollowTripsKeepsAdding ==
    ASSUME CommandsInOrder, Typed, DesksAddUp, AnswersAreMade, NEW p \in Processes, FollowTrips(p)
    PROVE  DesksAddUp'
<1>1. In(p, ToFollowTrips)
  BY DEF FollowTrips, ToFollowTrips
<1>2. IsUnderWay(desk[p]) /\ StageOf(desk[p]) = ToFollowTrips
  BY <1>1, AtStage
<1>3. PICK trips : trips = Command(p).file.records
  OBVIOUS
<1>4. PICK n \in Nat : AreAccepted(trips, n)
  BY <1>2, <1>3, TripsAreParsed DEF Command
<1>5. PICK step, profile : step = Command(p).step /\ profile = Command(p).profile
  OBVIOUS
<1>6. PICK raws \in [ContextsOf(trips) -> models] :
          LET r == TripsReport(trips, AllRidden(trips, Targets(raws, step, profile)))
          IN  IF r.kind = "rides" THEN Report(p, r) ELSE Refuse(p, r)
  BY <1>3, <1>5 DEF FollowTrips
<1>7. PICK targets : targets = Targets(raws, step, profile)
  OBVIOUS
<1>8. PICK r : r = TripsReport(trips, AllRidden(trips, targets))
  OBVIOUS
<1>9. Report(p, r) \/ Refuse(p, r)
  BY <1>6, <1>7, <1>8
<1>10. r.kind = "rides" => RidesAddUp(r)
  <2>1. \A raw \in models : IsRaw(raw)
    BY DEF AnswersAreMade
  <2> QED
    BY <1>4, <1>6, <1>7, <1>8, <2>1, TripsReportAddsUp
<1>11. r.kind \in {"stopped", "out of range", "rides"}
  BY <1>8, TripsKind
<1>12. ReportAddsUp(r)
  BY <1>10, <1>11 DEF ReportAddsUp
<1> QED
  BY <1>2, <1>9, <1>12, EndKeepsAdding

LEMMA ValidateKeepsAdding ==
    ASSUME CommandsInOrder, Typed, DesksAddUp, NEW p \in Processes, Validate(p)
    PROVE  DesksAddUp'
<1>1. In(p, ToValidate)
  BY DEF Validate, ToValidate
<1>2. IsUnderWay(desk[p])
  BY <1>1, AtStage
<1>3. PICK r : r = [kind |-> "valid"]
  OBVIOUS
<1>4. Report(p, r)
  BY <1>3 DEF Validate
<1>5. ReportAddsUp(r)
  BY <1>3 DEF ReportAddsUp
<1> QED
  BY <1>2, <1>4, <1>5, EndKeepsAdding

LEMMA JobAwayFromCases ==
    ASSUME CommandsInOrder, Typed, NEW p \in Processes, LoadReturns(p) \/ SaveReturns(p) \/ Killed(p)
    PROVE  /\ IsUnderWay(desk[p]) /\ desk[p].status = "running"
           /\ StageOf(desk[p]) \notin {ToSweep, ToEvaluateCases}
<1>1. jobs[p] # NoJob
  <2>1. \/ jobs[p].doing = "loaded" \/ jobs[p].doing = "load failed" \/ jobs[p].doing = "save"
    BY DEF LoadReturns, SaveReturns, Killed, Dispose, FinishSave, AbandonSave, IsDoing
  <2>2. NoJob.doing = "nothing"
    BY DEF NoJob
  <2> QED
    BY <2>1, <2>2
<1>2. /\ IsUnderWay(desk[p]) /\ desk[p].status = "running"
      /\ StageOf(desk[p]) = StageOfJob(jobs[p]) /\ jobs[p].kind \in Kinds
  BY <1>1, JobAtStage
<1>3. StageOf(desk[p]) \in ArtifactStages
  BY <1>2, StagesOfArtifacts DEF StageOfJob, ArtifactStages
<1>4. ArtifactStages \cap {ToSweep, ToEvaluateCases} = {}
  BY StagesAreNumbered DEF AreNumbered, ArtifactStages
<1> QED
  BY <1>2, <1>3, <1>4

LEMMA CommandStepKeepsAdding ==
    /\ Typed /\ CommandsInOrder /\ CommandsInOrder' /\ DesksAreSwept /\ AnswersAreMade /\ DesksAddUp
    /\ [CommandNext]_commandVars
    => DesksAddUp'
<1> SUFFICES ASSUME Typed, CommandsInOrder, CommandsInOrder', DesksAreSwept, AnswersAreMade, DesksAddUp,
                    [CommandNext]_commandVars
             PROVE  DesksAddUp'
  OBVIOUS
<1>1. CASE UNCHANGED commandVars
  BY <1>1 DEF commandVars, DesksAddUp
<1>2. CASE CommandNext
  <2>1. PICK p \in Processes :
            \/ Type(p) \/ ReadRide(p) \/ ReadRides(p) \/ Validate(p)
            \/ \E k \in Kinds : Load(p, k) \/ Save(p, k)
            \/ UseFiles(p) \/ LoadReturns(p) \/ SaveReturns(p) \/ Killed(p)
            \/ Learn(p) \/ EvaluatePredictor(p)
            \/ ProvideHistory(p) \/ Answer(p) \/ Compare(p)
            \/ ReadScenario(p) \/ ReadTrips(p) \/ ReadCustomers(p) \/ Follow(p) \/ FollowTrips(p)
            \/ CompareCustomer(p) \/ CustomersCompared(p)
            \/ BeginSweep(p) \/ SweepOn(p) \/ EndSweep(p) \/ LearnCases(p) \/ EvaluateCases(p)
    BY <1>2 DEF CommandNext
  <2>2. ASSUME NEW fields, NEW kinds, Moves(p, fields, kinds),
               "command" \notin fields, kinds \cap Figured = {},
               IsUnderWay(desk[p]) /\ desk[p].status = "running"
               /\ StageOf(desk[p]) \notin {ToSweep, ToEvaluateCases}
        PROVE  DesksAddUp'
    BY <2>2, OthersKeepAdding
  <2>3. CASE Type(p)
    BY <2>3, TypeKeepsAdding
  <2>4. CASE ReadRide(p) \/ ReadRides(p) \/ ReadScenario(p) \/ ReadTrips(p) \/ ReadCustomers(p) \/ ProvideHistory(p)
    BY <2>2, <2>4, AwayFromCases, ReadingMoves DEF Figured
  <2>5. CASE EndSweep(p)
    BY <2>5, EndSweepKeepsAdding
  <2>6. CASE Validate(p) \/ Follow(p) \/ FollowTrips(p)
    BY <2>6, ValidateKeepsAdding, FollowKeepsAdding, FollowTripsKeepsAdding
  <2>7. CASE Answer(p) \/ Compare(p) \/ CompareCustomer(p) \/ CustomersCompared(p)
    BY <2>2, <2>7, AwayFromCases, AnsweringMoves DEF Figured
  <2>8. CASE Learn(p) \/ LearnCases(p)
    BY <2>2, <2>8, AwayFromCases, LearningMoves DEF Figured
  <2>9. CASE EvaluatePredictor(p)
    BY <2>2, <2>9, AwayFromCases, EvaluatingMoves DEF Figured
  <2>10. CASE LoadReturns(p) \/ SaveReturns(p) \/ Killed(p)
    BY <2>2, <2>10, JobAwayFromCases, ArtifactMoves DEF Figured
  <2>11. CASE UseFiles(p) \/ \E k \in Kinds : Load(p, k) \/ Save(p, k)
    <3>1. UNCHANGED desk
      BY <2>11 DEF UseFiles, Load, Save, StartLoad, StartSave, OpenFile, WriteFile, ReadFile, FailToRead, FinishLoad
    <3> QED
      BY <3>1 DEF DesksAddUp
  <2>12. CASE BeginSweep(p)
    BY <2>2, <2>12, AwayFromCases, SweepingMoves DEF Figured
  <2>13. CASE SweepOn(p)
    BY <2>13, SweepOnKeepsAdding
  <2>14. CASE EvaluateCases(p)
    BY <2>14, EvaluateCasesKeepsAdding
  <2> QED
    BY <2>1, <2>3, <2>4, <2>5, <2>6, <2>7, <2>8, <2>9, <2>10, <2>11, <2>12, <2>13, <2>14
<1> QED
  BY <1>1, <1>2

LEMMA DesksStayAdding == CommandSpec => []DesksAddUp
<1>1. CommandInit => DesksAddUp
  BY DEF CommandInit, NoDesk, DesksAddUp, DeskAddsUp
<1>2. CommandsAreSound => Typed /\ CommandsInOrder /\ AnswersAreMade
  BY DEF CommandsAreSound
<1> QED
  BY <1>1, <1>2, CommandsStaySound, DesksStaySwept, CommandStepKeepsAdding, PTL DEF CommandSpec

\* What is reported of personalized predictions adds up: whatever the rides and
\* the predictions, those that fall back and those that do not are all there
\* are; higher quantiles cover no fewer of them; the cities and the depths of
\* history share out the counts, the coverage and the losses of the whole; no
\* segment is larger than what is personalized; and the averages of the blocks
\* downstream agree with their totals (evaluate_personalization of
\* personalization/evaluation.py, under the command evaluate-personalization).
THEOREM ReportedPersonalizationAddsUp ==
    CommandSpec => [](\A p \in Processes :
                        Reported(p, "personalization") => PersonalizationAddsUp(desk[p].report))
<1>1. DesksAddUp => \A p \in Processes : Reported(p, "personalization") => PersonalizationAddsUp(desk[p].report)
  BY DEF DesksAddUp, DeskAddsUp, ReportAddsUp, Reported
<1> QED
  BY <1>1, DesksStayAdding, PTL

\* Everything the commands report adds up, comparisons and personalized
\* predictions as above, and of rides under way: a block never falls, and ends
\* as the largest recommended along the way if every increase was confirmed and
\* as the first if none was; the raised blocks collect from everyone the first
\* blocks collect from, and the rides they save are the difference of the two
\* columns and are among the rides that were raised; the means of first and last
\* blocks and of the raises agree within their rounding; no median is above the
\* largest increase; and no more rides were raised than increases asked for
\* (evaluate_dynamic_reoptimization of dynamic/evaluation.py, and run-dynamic-ride
\* of cli.py).
THEOREM ReportsAreConsistent == CommandSpec => []ReportsAddUp
<1>1. /\ DesksAddUp
      /\ \A p \in Processes : Reported(p, "comparison") => ComparisonAddsUp(desk[p].report)
      => ReportsAddUp
  <2> SUFFICES ASSUME DesksAddUp, NEW p \in Processes,
                      Reported(p, "comparison") => ComparisonAddsUp(desk[p].report)
               PROVE  /\ Reported(p, "comparison") => ComparisonAddsUp(desk[p].report)
                      /\ Reported(p, "personalization") => PersonalizationAddsUp(desk[p].report)
                      /\ Reported(p, "ride") => RideAddsUp(desk[p].report)
                      /\ Reported(p, "rides") => RidesAddUp(desk[p].report)
    BY DEF ReportsAddUp
  <2> QED
    BY DEF DesksAddUp, DeskAddsUp, ReportAddsUp, Reported
<1> QED
  BY <1>1, DesksStayAdding, ReportedComparisonsAddUp, PTL
=============================================================================
