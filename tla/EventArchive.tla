---------------------------- MODULE EventArchive ----------------------------
(***************************************************************************)
(* One stream of the auto-compacting event store (internal/ares_events)    *)
(* and its round archive on disk (internal/ares_archive).  Append starts a *)
(* worker in the background, which archives the finished rounds and then   *)
(* compacts the stream; the workers of successive appends overlap, and no  *)
(* lock is held while a worker reads the stream, writes a record or saves  *)
(* a summary.  A round ends with a terminal event, a task that completed   *)
(* or failed.                                                              *)
(*                                                                         *)
(* The store and its counters live in memory; the archive files outlive    *)
(* the process, and the streams of the agents keep their names.  A round   *)
(* is taken to fit into one page of the scan.                              *)
(***************************************************************************)
EXTENDS Integers, Sequences, SequencesExt

CONSTANTS
  Archivers,       \* bound: background workers under way at a time
  MaxVersion,      \* bound: events of the stream
  ArchiveRuns,     \* bound: lives of the process
  Threshold,       \* CompactionConfig
  KeepRecent,
  MaxRounds        \* files the writer keeps of one stream

ASSUME ArchiveAssumption ==
  /\ MaxVersion \in Nat /\ ArchiveRuns \in Nat
  /\ Threshold \in Nat \ {0} /\ KeepRecent \in Nat /\ MaxRounds \in Nat \ {0}

VARIABLES
  trimming,      \* EnableTrimming, with a trim store
  events,        \* for each version, whether it is a terminal event
  trimmed,       \* the versions up to this one are gone from the store
  summaries,     \* the summary repository, in the order of saving
  lastChecked,
  boundary,      \* lastArchivedVersion, 0 when there is none
  rounds,        \* roundCounter
  files,         \* the files on disk, from round to what its record says
  archiver,      \* the workers
  life           \* which life of the process this is

archive == <<trimming, events, trimmed, summaries, lastChecked, boundary, rounds,
             files, archiver, life>>

streamVars == <<trimming, events, life>>
roundVars  == <<boundary, rounds, files>>
compactVars == <<trimmed, summaries, lastChecked>>

Resting == [at |-> "idle", drain |-> "none", start |-> 0, from |-> 0, to |-> 0, round |-> 0]

ArchiveStart(trims) ==
  /\ trimming \in trims
  /\ events = <<>> /\ trimmed = 0 /\ summaries = <<>> /\ lastChecked = 0
  /\ boundary = 0 /\ rounds = 0
  /\ files = [n \in {} |-> Resting]
  /\ archiver = [w \in Archivers |-> Resting]
  /\ life = 1

ArchiveInit == ArchiveStart(BOOLEAN)

Higher(a, b) == IF a > b THEN a ELSE b

At(w, where) == archiver[w].at = where
Goes(w, where) == archiver' = [archiver EXCEPT ![w].at = where]

\* The worker goes on and keeps nothing but the drain it is in and a round start.
Enters(w, where, drain, start) ==
  archiver' = [archiver EXCEPT ![w] = [Resting EXCEPT !.at = where, !.drain = drain,
                                                      !.start = start]]
Rests(w) == archiver' = [archiver EXCEPT ![w] = Resting]

-----------------------------------------------------------------------------
\* Events are appended; the worker drains the archive only if there is a
\* terminal event among them.
AppendEvents(w, kinds) ==
  /\ At(w, "idle")
  /\ Len(events) + Len(kinds) <= MaxVersion
  /\ events' = events \o kinds
  /\ IF TRUE \in Range(kinds) THEN Enters(w, "mark", "appended", 0)
                             ELSE Enters(w, "check", "none", 0)
  /\ UNCHANGED <<trimming, life, roundVars, compactVars>>

(* archivePendingRoundsOnce, in a loop until it archives nothing. *)

EndDrain(w) ==
  Enters(w, IF archiver[w].drain = "appended" THEN "check" ELSE "compact", "none", 0)

MarkRoundStart(w) ==
  /\ At(w, "mark")
  /\ Enters(w, "scan", archiver[w].drain, boundary)
  /\ UNCHANGED <<streamVars, roundVars, compactVars>>

\* The round is what is left of the stream after its start, up to the first
\* terminal event.
ScanRound(w) ==
  LET first == Higher(archiver[w].start, trimmed) + 1
      ends  == {v \in first .. Len(events) : events[v]} IN
  /\ At(w, "scan")
  /\ IF ends = {}
     THEN EndDrain(w)
     ELSE \E t \in ends :
            /\ \A v \in ends : t <= v
            /\ archiver' = [archiver EXCEPT ![w].at = "claim", ![w].from = first, ![w].to = t]
  /\ UNCHANGED <<streamVars, roundVars, compactVars>>

Overtaken(w) == boundary # 0 /\ boundary # archiver[w].start

ClaimRound(w) ==
  /\ At(w, "claim")
  /\ IF Overtaken(w)
     THEN EndDrain(w)
     ELSE archiver' = [archiver EXCEPT ![w].at = "sink", ![w].round = rounds + 1]
  /\ UNCHANGED <<streamVars, roundVars, compactVars>>

\* rotate deletes the files with the smallest numbers.
Rotated(fs) ==
  [n \in {m \in DOMAIN fs : Cardinality({k \in DOMAIN fs : k >= m}) <= MaxRounds} |-> fs[n]]

Written(fs, w) ==
  LET n == archiver[w].round IN
  [k \in DOMAIN fs \cup {n} |->
     IF k = n THEN [from |-> archiver[w].from, to |-> archiver[w].to, life |-> life] ELSE fs[k]]

\* The archive sink writes the record, or fails.
SinkRound(w) ==
  /\ At(w, "sink")
  /\ \/ files' = Rotated(Written(files, w)) /\ Goes(w, "commit")
     \/ UNCHANGED files /\ EndDrain(w)
  /\ UNCHANGED <<streamVars, boundary, rounds, compactVars>>

CommitRoundUnchecked(w) ==
  /\ At(w, "commit")
  /\ boundary' = archiver[w].to /\ rounds' = archiver[w].round
  /\ Enters(w, "mark", archiver[w].drain, 0)
  /\ UNCHANGED <<streamVars, files, compactVars>>

CommitRound(w) ==
  /\ At(w, "commit")
  /\ IF Overtaken(w)
     THEN UNCHANGED <<boundary, rounds>>
     ELSE boundary' = archiver[w].to /\ rounds' = archiver[w].round
  /\ Enters(w, "mark", archiver[w].drain, 0)
  /\ UNCHANGED <<streamVars, files, compactVars>>

-----------------------------------------------------------------------------
(* maybeCompact and the compactor. *)

\* The threshold and the debounce, which counts versions: the version never
\* falls, so CheckAndCompact sees the threshold exceeded as well.
CheckStream(w) ==
  LET version == Len(events) IN
  /\ At(w, "check")
  /\ IF version <= Threshold \/ version - lastChecked < Threshold \div 4
     THEN Rests(w) /\ UNCHANGED lastChecked
     ELSE /\ Enters(w, "mark", "before", 0)
          /\ lastChecked' = version
  /\ UNCHANGED <<streamVars, roundVars, trimmed, summaries>>

\* All but the most recent events are candidates.
ReadCandidates(w) ==
  /\ At(w, "compact")
  /\ IF Len(events) - trimmed <= KeepRecent
     THEN Rests(w)
     ELSE archiver' = [archiver EXCEPT ![w].at = "save", ![w].from = trimmed + 1,
                                       ![w].to = Len(events) - KeepRecent]
  /\ UNCHANGED <<streamVars, roundVars, compactVars>>

\* The summary is saved and what it covers may go, or the compaction ends.
SaveSummary(w) ==
  /\ At(w, "save")
  /\ \/ /\ summaries' = Append(summaries, [start |-> archiver[w].from, end |-> archiver[w].to])
        /\ IF trimming THEN Goes(w, "trim") ELSE Rests(w)
     \/ Rests(w) /\ UNCHANGED summaries
  /\ UNCHANGED <<streamVars, roundVars, trimmed, lastChecked>>

\* TrimBefore may fail, which only delays the trimming.
TrimBefore(version) == trimmed' \in {trimmed, Higher(trimmed, version)}

TrimCompacted(w) ==
  /\ At(w, "trim")
  /\ TrimBefore(archiver[w].to)
  /\ Goes(w, "trim latest")
  /\ UNCHANGED <<streamVars, roundVars, summaries, lastChecked>>

\* maybeCompact trims again, by the summary that starts last.
TrimLatest(w) ==
  /\ At(w, "trim latest")
  /\ \E i \in DOMAIN summaries :
       /\ \A j \in DOMAIN summaries :
            \/ summaries[j].start < summaries[i].start
            \/ summaries[j].start = summaries[i].start /\ j <= i
       /\ TrimBefore(summaries[i].end)
  /\ Rests(w)
  /\ UNCHANGED <<streamVars, roundVars, summaries, lastChecked>>

-----------------------------------------------------------------------------
\* The process ends, with its store, and starts again over the same files.
RestartProcess ==
  /\ life < ArchiveRuns
  /\ life' = life + 1
  /\ events' = <<>> /\ trimmed' = 0 /\ summaries' = <<>> /\ lastChecked' = 0
  /\ boundary' = 0 /\ rounds' = 0
  /\ archiver' = [w \in Archivers |-> Resting]
  /\ UNCHANGED <<trimming, files>>

ArchiverStep(w) ==
  \/ MarkRoundStart(w) \/ ScanRound(w) \/ ClaimRound(w) \/ SinkRound(w) \/ CommitRound(w)
  \/ CheckStream(w) \/ ReadCandidates(w) \/ SaveSummary(w) \/ TrimCompacted(w) \/ TrimLatest(w)

ArchiveNext ==
  \/ \E w \in Archivers :
       \/ \E kinds \in [1 .. 1 -> BOOLEAN] \cup [1 .. 2 -> BOOLEAN] : AppendEvents(w, kinds)
       \/ ArchiverStep(w)
  \/ RestartProcess

ArchiveSpec == ArchiveInit /\ [][ArchiveNext]_archive

-----------------------------------------------------------------------------
\* An event leaves the store only when a saved summary covers it, whatever
\* compactions overlap and whichever of their steps fail (compactor.go:100).
NothingForgotten ==
  \A v \in 1 .. trimmed : \E i \in DOMAIN summaries :
    summaries[i].start <= v /\ v <= summaries[i].end

\* Consecutive records of one life join without a gap or an overlap, although
\* two workers may archive the same round at the same time: no event is orphaned
\* from its round and no round has two numbers (compactable_store.go:393).
RoundsAreWhole ==
  ~ trimming =>
    \A n \in DOMAIN files :
      n - 1 \in DOMAIN files /\ files[n - 1].life = files[n].life
        => files[n].from = files[n - 1].to + 1

LastRoundIsThere ==
  ~ trimming /\ rounds > 0 =>
    /\ rounds \in DOMAIN files
    /\ files[rounds].life = life /\ files[rounds].to = boundary

\* As long as the directory has no files of an earlier life, the last round that
\* was archived is on disk: a record written late does not replace it, and the
\* rotation that a late record sets off does not delete it (writer.go:169).
LastRoundIsRecorded ==
  (\A n \in DOMAIN files : files[n].life = life) => LastRoundIsThere

\* Compaction loses no event and archiving no round.
ArchiveIsWhole == NothingForgotten /\ RoundsAreWhole /\ LastRoundIsRecorded

\* "When MaxRounds is exceeded, the oldest rounds are deleted" (interfaces.go:14),
\* never the one that was archived last.
OldestRoundsAreDeleted == LastRoundIsThere
=============================================================================
