----------------------------- MODULE ArtifactStore -----------------------------
(***************************************************************************)
(* A directory with a trained model is written file by file and read file  *)
(* by file, by processes that share nothing but the file system: the save  *)
(* and load functions of prediction/persistence.py and                     *)
(* personalization/persistence.py, used by the commands of cli.py and by   *)
(* the dashboard.                                                          *)
(*                                                                         *)
(* Nothing keeps two processes from training and saving the same kind of   *)
(* artifact at the same time.  A file holds the number of the training     *)
(* that wrote it.  Opening a file for writing empties it; whoever reads it *)
(* then, or after the writer died, finds it torn.  Two that have one file  *)
(* open leave it as the one or the other wrote it, or a mixture of both.   *)
(***************************************************************************)
EXTENDS Integers, Sequences, FiniteSets

CONSTANTS
    Processes,      \* processes of the operating system
    Kinds,          \* the base and the personalized artifact
    Files,
    Metadata,       \* metadata.json
    WriteOrder,     \* [Kinds -> sequence of Files], as the save functions write
    ReadOrder,      \* [Kinds -> sequence of Files], as the load functions read
    MaxTrainings    \* bound on the trainings of a behaviour

Absent == 0
Torn == -1      \* emptied by the one that has it open
Mixed == -2     \* emptied or written by several that had it open at a time

\* The metadata are written last and read first.
ASSUME ArtifactAssumption ==
    /\ Metadata \in Files
    /\ WriteOrder \in [Kinds -> Seq(Files)]
    /\ ReadOrder \in [Kinds -> Seq(Files)]
    /\ MaxTrainings \in Nat
    /\ \A k \in Kinds :
        /\ \A i \in 1 .. Len(WriteOrder[k]) :
            WriteOrder[k][i] = Metadata <=> i = Len(WriteOrder[k])
        /\ Len(ReadOrder[k]) >= 1
        /\ \A i \in 1 .. Len(ReadOrder[k]) :
            /\ ReadOrder[k][i] = Metadata <=> i = 1
            /\ \E j \in 1 .. Len(WriteOrder[k]) : WriteOrder[k][j] = ReadOrder[k][i]

VARIABLES
    disk,       \* what each file of each artifact holds
    trained,    \* how many trainings of each kind have begun to be saved
    alongside,  \* for each of them, those still being saved when it began: a
                \* history variable
    jobs        \* what each process is doing with an artifact

artifactVars == <<disk, trained, alongside, jobs>>

NoJob == [doing |-> "nothing"]
Saving(k, g) == [doing |-> "save", kind |-> k, generation |-> g, at |-> 1, file |-> "closed"]
Loading(k, seen) == [doing |-> "load", kind |-> k, seen |-> seen]
Loaded(k, seen) == [doing |-> "loaded", kind |-> k, seen |-> seen]
LoadFailed(k) == [doing |-> "load failed", kind |-> k]

IsDoing(p, what) == jobs[p].doing = what

ArtifactInit ==
    /\ trained \in [Kinds -> 0 .. 1]
    /\ disk = [k \in Kinds |-> [f \in Files |->
                    IF \E i \in DOMAIN WriteOrder[k] : WriteOrder[k][i] = f
                    THEN trained[k] ELSE Absent]]
    /\ alongside = [k \in Kinds |-> [n \in 1 .. trained[k] |-> {}]]
    /\ jobs = [p \in Processes |-> NoJob]

-----------------------------------------------------------------------------
(* Saving.                                                                 *)

Savers(k) == {p \in Processes : IsDoing(p, "save") /\ jobs[p].kind = k}

StartSave(p, k) ==
    /\ jobs[p] = NoJob
    /\ trained[k] < MaxTrainings
    /\ trained' = [trained EXCEPT ![k] = @ + 1]
    /\ alongside' = [alongside EXCEPT ![k] = Append(@, {jobs[q].generation : q \in Savers(k)})]
    /\ jobs' = [jobs EXCEPT ![p] = Saving(k, trained[k] + 1)]
    /\ UNCHANGED disk

\* Slip: the files are written in the opposite order, the metadata first.
FileFromTheEnd(p) ==
    LET order == WriteOrder[jobs[p].kind] IN order[Len(order) + 1 - jobs[p].at]
FileAtHand(p) == WriteOrder[jobs[p].kind][jobs[p].at]

HasOpen(p, k, f) == p \in Savers(k) /\ jobs[p].file = "open" /\ FileAtHand(p) = f

\* The file at hand is opened and thereby emptied.
OpenFile(p) ==
    /\ IsDoing(p, "save")
    /\ jobs[p].file = "closed"
    /\ jobs[p].at <= Len(WriteOrder[jobs[p].kind])
    /\ disk' = [disk EXCEPT ![jobs[p].kind][FileAtHand(p)] =
            IF \E q \in Processes : HasOpen(q, jobs[p].kind, FileAtHand(p)) THEN Mixed ELSE Torn]
    /\ jobs' = [jobs EXCEPT ![p].file = "open"]
    /\ UNCHANGED <<trained, alongside>>

\* It is as this process emptied it, unless another one had it open since.
WriteFile(p) ==
    /\ IsDoing(p, "save")
    /\ jobs[p].file = "open"
    /\ \E left \in {jobs[p].generation, Mixed} :
        /\ disk[jobs[p].kind][FileAtHand(p)] = Torn => left # Mixed
        /\ disk' = [disk EXCEPT ![jobs[p].kind][FileAtHand(p)] = left]
    /\ jobs' = [jobs EXCEPT ![p] = [@ EXCEPT !.file = "closed", !.at = jobs[p].at + 1]]
    /\ UNCHANGED <<trained, alongside>>

FinishSave(p) ==
    /\ IsDoing(p, "save")
    /\ jobs[p].at > Len(WriteOrder[jobs[p].kind])
    /\ jobs' = [jobs EXCEPT ![p] = NoJob]
    /\ UNCHANGED <<disk, trained, alongside>>

\* The process is killed, or the disk is full: the files stay as they are.
AbandonSave(p) ==
    /\ IsDoing(p, "save")
    /\ jobs' = [jobs EXCEPT ![p] = NoJob]
    /\ UNCHANGED <<disk, trained, alongside>>

-----------------------------------------------------------------------------
(* Loading.                                                                *)

StartLoad(p, k) ==
    /\ jobs[p] = NoJob
    /\ jobs' = [jobs EXCEPT ![p] = Loading(k, <<>>)]
    /\ UNCHANGED <<disk, trained, alongside>>

FileWanted(p) == ReadOrder[jobs[p].kind][Len(jobs[p].seen) + 1]
Found(p) == disk[jobs[p].kind][FileWanted(p)]

WantsMore(p) ==
    /\ IsDoing(p, "load")
    /\ Len(jobs[p].seen) < Len(ReadOrder[jobs[p].kind])

\* A mixture of two models may well be read as a model; the metadata are one
\* short text, of which a mixture is none.
ReadFile(p) ==
    /\ WantsMore(p)
    /\ Found(p) \notin {Absent, Torn}
    /\ Found(p) = Mixed => FileWanted(p) # Metadata
    /\ jobs' = [jobs EXCEPT ![p].seen = Append(@, Found(p))]
    /\ UNCHANGED <<disk, trained, alongside>>

\* A missing, torn or mixed file, and metadata of other libraries or another
\* configuration, end the load.
FailToRead(p) ==
    /\ WantsMore(p)
    /\ Found(p) \in {Absent, Torn, Mixed} \/ FileWanted(p) = Metadata
    /\ jobs' = [jobs EXCEPT ![p] = LoadFailed(jobs[p].kind)]
    /\ UNCHANGED <<disk, trained, alongside>>

FinishLoad(p) ==
    /\ IsDoing(p, "load")
    /\ ~WantsMore(p)
    /\ jobs' = [jobs EXCEPT ![p] = Loaded(jobs[p].kind, jobs[p].seen)]
    /\ UNCHANGED <<disk, trained, alongside>>

\* The command that loaded the artifact is done with it.
Dispose(p) ==
    /\ IsDoing(p, "loaded") \/ IsDoing(p, "load failed")
    /\ jobs' = [jobs EXCEPT ![p] = NoJob]
    /\ UNCHANGED <<disk, trained, alongside>>

ArtifactStep(p) ==
    \/ OpenFile(p) \/ WriteFile(p) \/ FinishSave(p) \/ AbandonSave(p)
    \/ ReadFile(p) \/ FailToRead(p) \/ FinishLoad(p)

ArtifactNext ==
    \E p \in Processes :
        \/ \E k \in Kinds : StartSave(p, k) \/ StartLoad(p, k)
        \/ ArtifactStep(p)
        \/ Dispose(p)

ArtifactSpec == ArtifactInit /\ [][ArtifactNext]_artifactVars

-----------------------------------------------------------------------------
Overlapped(k, g) == \E n \in g .. trained[k] : alongside[k][n] # {}

NoOlder(k, found, g) ==
    \/ found >= g
    \/ found \in alongside[k][g]
    \/ found = Mixed /\ Overlapped(k, g)

\* An artifact is put together from a training and what an earlier one wrote
\* only if the earlier one was still being saved when the saving of the other
\* began, and a mixture is read only if two saves overlapped that late.  One
\* save after the other, wherever it is broken off and whoever reads
\* meanwhile, leaves nothing older next to its metadata: the order of the
\* writes and of the reads of persistence.py, which nothing else protects.
OlderOnlyIfOverlapping ==
    \A p \in Processes :
        jobs[p].doing \in {"load", "loaded"} =>
            \A i \in DOMAIN jobs[p].seen : NoOlder(jobs[p].kind, jobs[p].seen[i], jobs[p].seen[1])
=============================================================================
