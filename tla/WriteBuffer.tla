----------------------------- MODULE WriteBuffer -----------------------------
(***************************************************************************)
(* The write buffer before the database (internal/storage/postgres) and    *)
(* the memory manager that starts and stops it (internal/ares_memory).     *)
(* Writers put items into a channel under the buffer's mutex; one loop     *)
(* gathers them into a batch and flushes it when it is full, at each tick  *)
(* and at the end.  A batch that cannot be flushed goes back item by item. *)
(*                                                                         *)
(* Items are numbered in the order in which their writers get the mutex.   *)
(***************************************************************************)
EXTENDS Integers, Sequences, SequencesExt

CONSTANTS
  BatchSize,       \* batchSize; the channel holds twice as many
  FlushRetries,    \* maxRetries
  MaxWrites,       \* bound: calls of Write
  MaxMemoryStarts  \* bound: calls of the manager's Start

ASSUME WriteBufferAssumption ==
  /\ BatchSize \in Nat \ {0} /\ FlushRetries \in Nat
  /\ MaxWrites \in Nat /\ MaxMemoryStarts \in Nat

VARIABLES
  channel,    \* WriteBuffer.buffer
  gathered,   \* the batch of the loop; what is left of it while it is put back
  loop,       \* where the loop stands
  tries,      \* failed attempts of the flush under way
  stopped,    \* WriteBuffer.stopped, which is set where the channel is closed
  mutex,      \* who holds WriteBuffer.mu
  writes,     \* calls of Write so far
  kept,       \* items in the database
  lost,       \* items refused, or given up with a line in the log
  manager,    \* where the memory manager stands
  baseDone,   \* baseCtx, which is the loop's context
  starts      \* calls of the manager's Start

buffered == <<channel, gathered, loop, tries, stopped, mutex, writes, kept, lost,
              manager, baseDone, starts>>

WriteBufferInit ==
  /\ channel = <<>> /\ gathered = <<>>
  /\ loop = "off" /\ tries = 0
  /\ stopped = FALSE /\ mutex = "free"
  /\ writes = 0 /\ kept = {} /\ lost = {}
  /\ manager = "new" /\ baseDone = FALSE /\ starts = 0

HasRoom == Len(channel) < 2 * BatchSize

-----------------------------------------------------------------------------
(* Write, under the mutex. *)

Submit == writes < MaxWrites /\ mutex = "free" /\ writes' = writes + 1

WriteSends ==
  /\ Submit /\ ~stopped /\ HasRoom
  /\ channel' = Append(channel, writes')
  /\ UNCHANGED <<gathered, loop, tries, stopped, mutex, kept, lost, manager, baseDone, starts>>

\* Stopped, or the writer's own context is done.
WriteRefused ==
  /\ Submit
  /\ lost' = lost \cup {writes'}
  /\ UNCHANGED <<channel, gathered, loop, tries, stopped, mutex, kept, manager, baseDone, starts>>

\* A full channel keeps the writer, and the mutex, for a moment.
WriteWaits ==
  /\ Submit /\ ~stopped /\ ~HasRoom
  /\ mutex' = "writer"
  /\ UNCHANGED <<channel, gathered, loop, tries, stopped, kept, lost, manager, baseDone, starts>>

WriteWaitEnds ==
  /\ mutex = "writer"
  /\ mutex' = "free"
  /\ \/ HasRoom /\ channel' = Append(channel, writes) /\ UNCHANGED lost
     \/ lost' = lost \cup {writes} /\ UNCHANGED channel
  /\ UNCHANGED <<gathered, loop, tries, stopped, writes, kept, manager, baseDone, starts>>

-----------------------------------------------------------------------------
(* processLoop: any case of its select that is ready may be taken. *)

BeginFlush(how) == loop' = how /\ tries' = 0

LoopTakes ==
  /\ loop = "select" /\ channel # <<>>
  /\ channel' = Tail(channel)
  /\ gathered' = Append(gathered, Head(channel))
  /\ IF Len(gathered') >= BatchSize THEN BeginFlush("flushing") ELSE UNCHANGED <<loop, tries>>
  /\ UNCHANGED <<stopped, mutex, writes, kept, lost, manager, baseDone, starts>>

LoopTicks ==
  /\ loop = "select" /\ gathered # <<>>
  /\ BeginFlush("flushing")
  /\ UNCHANGED <<channel, gathered, stopped, mutex, writes, kept, lost, manager, baseDone, starts>>

\* The context is done, or the channel is closed and drained.
LoopLeaves(cause) ==
  /\ loop = "select" /\ cause
  /\ IF gathered # <<>> THEN BeginFlush("final") ELSE loop' = "ended" /\ UNCHANGED tries
  /\ UNCHANGED <<channel, gathered, stopped, mutex, writes, kept, lost, manager, baseDone, starts>>

LoopCancelled == LoopLeaves(baseDone)
LoopClosed    == LoopLeaves(stopped /\ channel = <<>>)

AfterFlush == IF loop = "final" THEN "ended" ELSE "select"

\* One transaction.  The loop's context is gone once it is baseDone; the last
\* flush has one of its own.
FlushSucceeds ==
  /\ loop \in {"flushing", "final"} /\ (baseDone => loop = "final")
  /\ kept' = kept \cup ToSet(gathered)
  /\ gathered' = <<>>
  /\ loop' = AfterFlush
  /\ UNCHANGED <<channel, tries, stopped, mutex, writes, lost, manager, baseDone, starts>>

FlushFails ==
  /\ loop \in {"flushing", "final"} /\ tries < FlushRetries
  /\ tries' = tries + 1
  /\ UNCHANGED <<channel, gathered, loop, stopped, mutex, writes, kept, lost, manager, baseDone, starts>>

\* The attempts are used up, or the context ends one of them or the pause
\* before the next: the batch goes back unless the buffer is stopped, and the
\* last batch is only logged.
FlushGivesUp ==
  /\ loop \in {"flushing", "final"}
  /\ loop = "flushing" => tries = FlushRetries \/ baseDone
  /\ IF loop = "flushing" /\ ~stopped
     THEN loop' = "requeueing" /\ UNCHANGED <<gathered, lost>>
     ELSE /\ lost' = lost \cup ToSet(gathered)
          /\ gathered' = <<>>
          /\ loop' = AfterFlush
  /\ UNCHANGED <<channel, tries, stopped, mutex, writes, kept, manager, baseDone, starts>>

\* The first item of the batch, back into the channel or dropped.
PutBack == IF HasRoom THEN channel' = Append(channel, Head(gathered)) /\ UNCHANGED lost
                      ELSE lost' = lost \cup {Head(gathered)} /\ UNCHANGED channel

PutBackAndMoveOn ==
  /\ PutBack
  /\ gathered' = Tail(gathered)
  /\ loop' = IF Len(gathered) = 1 THEN "select" ELSE loop

\* A requeue that goes through Write.
RequeueLocked ==
  /\ loop = "requeueing" /\ mutex = "free"
  /\ PutBackAndMoveOn
  /\ UNCHANGED <<tries, stopped, mutex, writes, kept, manager, baseDone, starts>>

\* A requeue without batch = batch[:0].
RequeueKeepsBatch ==
  /\ loop = "requeueing"
  /\ PutBack /\ loop' = "select"
  /\ UNCHANGED <<gathered, tries, stopped, mutex, writes, kept, manager, baseDone, starts>>

\* requeueItems asked for stopped once and takes no mutex: a Stop that comes
\* in between has closed the channel, and the send panics.
Requeue ==
  /\ loop = "requeueing"
  /\ IF stopped THEN loop' = "panicked" /\ UNCHANGED <<channel, gathered, lost>>
                ELSE PutBackAndMoveOn
  /\ UNCHANGED <<tries, stopped, mutex, writes, kept, manager, baseDone, starts>>

-----------------------------------------------------------------------------
(* The memory manager. *)

\* A buffer that was stopped refuses, after the manager has taken back that it
\* was stopped itself.
MemoryStart ==
  /\ manager \in {"new", "stopped", "refused"} /\ starts < MaxMemoryStarts /\ mutex = "free"
  /\ starts' = starts + 1 /\ baseDone' = FALSE
  /\ IF stopped
     THEN manager' = "refused" /\ UNCHANGED loop
     ELSE manager' = "started" /\ loop' = "select"
  /\ UNCHANGED <<channel, gathered, tries, stopped, mutex, writes, kept, lost>>

\* The context Start was given ends.
ParentCancelled ==
  /\ manager = "started" /\ ~baseDone
  /\ baseDone' = TRUE
  /\ UNCHANGED <<channel, gathered, loop, tries, stopped, mutex, writes, kept, lost, manager, starts>>

MemoryStop ==
  /\ manager \in {"new", "started", "refused"}
  /\ manager' = "stopping"
  /\ baseDone' = (manager # "new")
  /\ UNCHANGED <<channel, gathered, loop, tries, stopped, mutex, writes, kept, lost, starts>>

\* WriteBuffer.Stop: it keeps the mutex while it waits for the loop.
BufferStop ==
  /\ manager = "stopping" /\ ~stopped /\ mutex = "free"
  /\ stopped' = TRUE /\ mutex' = "stop"
  /\ UNCHANGED <<channel, gathered, loop, tries, writes, kept, lost, manager, baseDone, starts>>

MemoryStopReturns ==
  /\ manager = "stopping" /\ stopped
  /\ mutex = "stop" => loop \in {"off", "ended"}
  /\ manager' = "stopped"
  /\ mutex' = IF mutex = "stop" THEN "free" ELSE mutex
  /\ UNCHANGED <<channel, gathered, loop, tries, stopped, writes, kept, lost, baseDone, starts>>

LoopStep ==
  \/ LoopTakes \/ LoopTicks \/ LoopCancelled \/ LoopClosed
  \/ FlushSucceeds \/ FlushFails \/ FlushGivesUp \/ Requeue

\* A panic of the loop ends the process.
WriteBufferNext ==
  /\ loop # "panicked"
  /\ \/ WriteSends \/ WriteRefused \/ WriteWaits \/ WriteWaitEnds
     \/ LoopStep
     \/ MemoryStart \/ ParentCancelled \/ MemoryStop \/ BufferStop \/ MemoryStopReturns

WriteBufferSpec == WriteBufferInit /\ [][WriteBufferNext]_buffered

\* The loop runs and its select is fair; a writer waits 100 ms at most; the
\* mutex goes to the one that waits longest.
WriteBufferFairness ==
  /\ WF_buffered(LoopStep) /\ SF_buffered(LoopCancelled)
  /\ WF_buffered(WriteWaitEnds)
  /\ SF_buffered(BufferStop) /\ WF_buffered(MemoryStopReturns)

-----------------------------------------------------------------------------
WriteBufferTypeOK ==
  /\ channel \in Seq(1..MaxWrites) /\ Len(channel) <= 2 * BatchSize
  /\ gathered \in Seq(1..MaxWrites) /\ Len(gathered) <= BatchSize
  /\ loop \in {"off", "select", "flushing", "final", "requeueing", "ended", "panicked"}
  /\ tries \in 0..FlushRetries
  /\ stopped \in BOOLEAN /\ baseDone \in BOOLEAN
  /\ mutex \in {"free", "writer", "stop"}
  /\ writes \in 0..MaxWrites /\ starts \in 0..MaxMemoryStarts
  /\ kept \subseteq 1..MaxWrites /\ lost \subseteq 1..MaxWrites
  /\ manager \in {"new", "started", "stopping", "stopped", "refused"}

InHand == IF mutex = "writer" THEN {writes} ELSE {}

\* Every item a writer brought is in exactly one place: with its writer, in
\* the channel, in the batch, in the database or reported as lost; so nothing
\* is written twice or dropped in silence, whatever fails and whenever the
\* buffer is stopped (write_buffer.go:140-150).
WritesAreAccountedFor ==
  /\ UNION {InHand, ToSet(channel), ToSet(gathered), kept, lost} = 1..writes
  /\ Cardinality(InHand) + Len(channel) + Len(gathered)
       + Cardinality(kept) + Cardinality(lost) = writes

\* The manager's Stop comes to its end although it holds the buffer's mutex
\* while it waits for a loop that may be putting a batch back.
MemoryStopEnds == manager = "stopping" ~> (manager = "stopped" \/ loop = "panicked")

\* write_buffer.go:392, "Stop gracefully shuts down the buffer and flushes
\* remaining items": with nothing refused or failed, a manager that has
\* stopped has left no item behind.
StopFlushesBuffered == manager = "stopped" /\ lost = {} /\ starts = 1 => channel = <<>>

=============================================================================
