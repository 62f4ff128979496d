------------------------------- MODULE LogQueue -------------------------------
(***************************************************************************)
(* The access-log forwarder of an edge: it collects the lines of nginx's   *)
(* log into numbered segment files, uploads them in batches and removes    *)
(* what the controller has acknowledged.  One goroutine does all of it;    *)
(* what makes it hard is that the agent may be killed, or the machine may  *)
(* lose power, between any two writes.                                     *)
(*                                                                         *)
(* A record is one unit of length.  A record whose write was cut short is  *)
(* a fragment without a line end: what is appended after it makes one      *)
(* unreadable record with it.                                              *)
(***************************************************************************)
EXTENDS Naturals, Sequences, FiniteSets, Functions

CONSTANTS
    SegmentLimit,     \* segmentBytes, in records
    QueueLimit,       \* maxQueueBytes, in records
    BatchSize,        \* logUploadBatchSize
    RotateSize,       \* lines after which logrotate truncates the log
    MaxLines,         \* bound: lines written
    MaxRotations,     \* bound: rotations
    MaxKills,         \* bound: kills of the agent
    MaxPowerLosses,   \* bound: power losses
    MaxShortWrites    \* bound: records cut short by a full disk

ASSUME QueueAssumption ==
    /\ {SegmentLimit, QueueLimit, BatchSize} \subseteq Nat \ {0}
    /\ {RotateSize, MaxLines, MaxRotations, MaxKills, MaxPowerLosses, MaxShortWrites}
          \subseteq Nat

VARIABLES
    log,        \* the lines in nginx's log file
    written,    \* how many lines nginx has written; line n is the n-th
    lost,       \* the lines that were truncated before they were collected
    delivered,  \* the lines the controller has stored
    segments,   \* the segment files, by sequence number
    cursor,     \* access-log-cursor.json
    offset,     \* access-log-offset, in lines
    stable,     \* what of these three a power loss cannot take back
    pc,         \* the statement the forwarder executes next
    position,   \* how far this collection has read
    open,       \* does the appender hold a file?
    batch,      \* the batch being uploaded
    faults      \* faults that have happened

source == <<log, written, lost>>
disk == <<segments, cursor, offset, stable>>
memory == <<pc, position, open, batch>>
queueVars == <<source, delivered, disk, memory, faults>>

Fragment == 0
NoCursor == [segment |-> 0, offset |-> 0]
NoBatch == [segment |-> 0, end |-> 0, lines |-> {}]

Cursor == [segment : Nat, offset : Nat]

QueueTypeOK ==
    /\ log \in Seq(1..written) /\ written \in Nat
    /\ lost \subseteq 1..written /\ delivered \subseteq 1..written
    /\ \A s \in DOMAIN segments : s \in Nat /\ segments[s] \in Seq(0..written)
    /\ cursor \in Cursor /\ offset \in 0..written
    /\ \A s \in DOMAIN stable.segments : s \in Nat /\ stable.segments[s] \in Seq(0..written)
    /\ stable.cursor \in Cursor /\ stable.offset \in Nat
    /\ pc \in {"idle", "collect", "close", "save", "pending", "upload", "cursor", "sync", "remove",
               "removed"}
    /\ position \in 0..written /\ open \in BOOLEAN
    /\ batch \in [segment : Nat, end : Nat, lines : SUBSET (1..written)]
    /\ faults \in [rotate : 0..MaxRotations, kill : 0..MaxKills,
                   power : 0..MaxPowerLosses, short : 0..MaxShortWrites]

NoSegments == [s \in {} |-> << >>]

QueueInit ==
    /\ log = << >> /\ written = 0 /\ lost = {} /\ delivered = {}
    /\ segments = NoSegments /\ cursor = NoCursor /\ offset = 0
    /\ stable = [segments |-> segments, cursor |-> cursor, offset |-> offset]
    /\ pc = "idle" /\ position = 0 /\ open = FALSE /\ batch = NoBatch
    /\ faults = [rotate |-> 0, kill |-> 0, power |-> 0, short |-> 0]

-------------------------------------------------------------------------------
(* Segments *)

Files == DOMAIN segments
Newest == CHOOSE s \in Files : \A t \in Files : t =< s

\* Mutant: the files are not sorted.
OldestIsNewest == CHOOSE s \in Files : \A t \in Files : t =< s

Oldest == CHOOSE s \in Files : \A t \in Files : s =< t
WithFile(files, s, contents) == [t \in DOMAIN files \cup {s} |-> IF t = s THEN contents ELSE files[t]]
Without(files, s) == Restrict(files, DOMAIN files \ {s})

\* The length of all files, with what is acknowledged already.
Total == FoldFunction(LAMBDA file, sum : Len(file) + sum, 0, segments)

\* The ends of the records of a file: a fragment ends with what follows it.
Ends(file) == {k \in 1..Len(file) : k = Len(file) \/ file[k] # Fragment}

\* The lines that can be decoded between two positions of a file.
Readable(file, from, to) ==
    {file[k] : k \in {k \in from + 1..to : /\ file[k] # Fragment
                                           /\ k = from + 1 \/ file[k - 1] # Fragment}}

\* Where reading a segment starts.
Start(s) == IF cursor.segment = s THEN cursor.offset ELSE 0

\* newQueueAppender and openFile: a sequence number that neither a file nor the
\* cursor has.
NextSequence ==
    IF Files # {} /\ Newest >= cursor.segment THEN Newest + 1 ELSE cursor.segment + 1

\* An error of newQueueAppender and nextBatch.
CursorAhead == Files # {} /\ cursor.segment > Oldest

\* The errors of nextBatch.
CursorInvalid == CursorAhead \/ (Files # {} /\ Start(Oldest) > Len(segments[Oldest]))

-------------------------------------------------------------------------------
(* nginx and logrotate *)

\* A rotation is noticed by the size of the file; that the log does not grow
\* beyond the old offset before the next collection is assumed.
RotationNoticed ==
    \A seen \in {offset, position} : Len(log) < seen => Len(log) + 1 < seen

WriteLine ==
    /\ written < MaxLines
    /\ RotationNoticed
    /\ written' = written + 1
    /\ log' = Append(log, written + 1)
    /\ UNCHANGED <<lost, delivered, disk, memory, faults>>

Queued == UNION {Readable(segments[s], Start(s), Len(segments[s])) : s \in Files}

\* copytruncate.  A rotation takes the only copy of lines whose segment is not
\* synced, and may hide an offset that a power loss brings back: power losses
\* after a rotation are left out.
Rotate ==
    /\ Len(log) >= RotateSize
    /\ faults.power = MaxPowerLosses
    /\ faults.rotate < MaxRotations
    /\ faults' = [faults EXCEPT !.rotate = @ + 1]
    /\ log' = << >>
    /\ lost' = lost \cup (Range(log) \ (delivered \cup Queued))
    /\ UNCHANGED <<written, delivered, disk, memory>>

-------------------------------------------------------------------------------
(* Collect *)

\* The file is smaller than the offset: it has been rotated.
BeginCollect ==
    /\ pc = "idle"
    /\ position' = IF Len(log) < offset THEN 0 ELSE offset
    /\ pc' = IF CursorAhead THEN "pending" ELSE "collect"
    /\ UNCHANGED <<source, delivered, disk, open, batch, faults>>

\* Mutant: the limit is compared with what is in the queue already.
FitsBefore == 0 =< QueueLimit - Total

Fits == 1 =< QueueLimit - Total
HasLine == position < Len(log)

\* Append: into the latest file unless it is full; a full one is synced and
\* closed before the next one is created.
Appended(piece) ==
    IF Files # {} /\ Len(segments[Newest]) < SegmentLimit
    THEN /\ segments' = WithFile(segments, Newest, Append(segments[Newest], piece))
         /\ UNCHANGED stable
    ELSE /\ segments' = WithFile(segments, NextSequence, <<piece>>)
         /\ stable' = IF open
                      THEN [stable EXCEPT !.segments = WithFile(@, Newest, segments[Newest])]
                      ELSE stable

AppendRecord ==
    /\ pc = "collect"
    /\ HasLine /\ Fits
    /\ Appended(log[position + 1])
    /\ position' = position + 1
    /\ open' = TRUE
    /\ UNCHANGED <<source, delivered, cursor, offset, pc, batch, faults>>

\* The disk is full: a part of the record is written and the collection ends.
ShortWrite ==
    /\ pc = "collect"
    /\ HasLine /\ Fits
    /\ faults.short < MaxShortWrites
    /\ faults' = [faults EXCEPT !.short = @ + 1]
    /\ Appended(Fragment)
    /\ open' = TRUE
    /\ pc' = "close"
    /\ UNCHANGED <<source, delivered, cursor, offset, position, batch>>

\* Mutant: the file is closed but not synced.
CloseUnsynced ==
    /\ pc = "close" \/ (pc = "collect" /\ ~(HasLine /\ Fits))
    /\ open' = FALSE
    /\ pc' = "save"
    /\ UNCHANGED <<source, delivered, segments, cursor, offset, stable, position, batch, faults>>

\* The end of the log, or the limit of the queue: the file is synced.
CloseAppender ==
    /\ pc = "close" \/ (pc = "collect" /\ ~(HasLine /\ Fits))
    /\ stable' = IF open THEN [stable EXCEPT !.segments = WithFile(@, Newest, segments[Newest])]
                 ELSE stable
    /\ open' = FALSE
    /\ pc' = "save"
    /\ UNCHANGED <<source, delivered, segments, cursor, offset, position, batch, faults>>

\* The offset is written when something has been collected; its directory is
\* not synced.
SaveOffset ==
    /\ pc = "save"
    /\ offset' = IF position = 0 THEN offset ELSE position
    /\ position' = 0
    /\ pc' = "pending"
    /\ UNCHANGED <<source, delivered, segments, cursor, stable, open, batch, faults>>

-------------------------------------------------------------------------------
(* Upload *)

\* Nothing is pending, or the queue cannot be read.
EndCycle ==
    /\ pc = "pending"
    /\ Files = {} \/ CursorInvalid
    /\ pc' = "idle"
    /\ UNCHANGED <<source, delivered, disk, position, open, batch, faults>>

\* The end of a batch that starts at "from": BatchSize records, or the end of
\* the file.
BatchEnd(file, from) ==
    CHOOSE end \in {from} \cup Ends(file) :
        /\ end >= from
        /\ LET taken == {k \in Ends(file) : k > from /\ k =< end}
               left == {k \in Ends(file) : k > end}
           IN  Cardinality(taken) =< BatchSize /\ (left = {} \/ Cardinality(taken) = BatchSize)

\* nextBatch: records that cannot be decoded are skipped, and a batch that has
\* no others needs no request.
TakeBatch ==
    /\ pc = "pending"
    /\ Files # {} /\ ~CursorInvalid
    /\ LET file == segments[Oldest]
           end == BatchEnd(file, Start(Oldest))
           lines == Readable(file, Start(Oldest), end)
       IN  /\ batch' = [segment |-> Oldest, end |-> end, lines |-> lines]
           /\ pc' = IF lines = {} THEN "cursor" ELSE "upload"
    /\ UNCHANGED <<source, delivered, disk, position, open, faults>>

Accept ==
    /\ pc = "upload"
    /\ delivered' = delivered \cup batch.lines
    /\ pc' = "cursor"
    /\ UNCHANGED <<source, disk, position, open, batch, faults>>

\* The controller has stored the batch, but its answer does not arrive.
AcceptUnheard ==
    /\ pc = "upload"
    /\ delivered' = delivered \cup batch.lines
    /\ pc' = "idle"
    /\ UNCHANGED <<source, disk, position, open, batch, faults>>

\* The request fails, or the batch waits for more records, or the time budget
\* of the cycle is used up.
Refuse ==
    /\ pc = "upload"
    /\ pc' = "idle"
    /\ UNCHANGED <<source, delivered, disk, position, open, batch, faults>>

\* ackBatch: the cursor is renamed into place ...
WriteCursor ==
    /\ pc = "cursor"
    /\ cursor' = [segment |-> batch.segment, offset |-> batch.end]
    /\ pc' = "sync"
    /\ UNCHANGED <<source, delivered, segments, offset, stable, position, open, batch, faults>>

\* Mutant: the only segment is kept.
SyncCursorKeepsOne ==
    /\ pc = "sync"
    /\ stable' = [stable EXCEPT !.cursor = cursor, !.offset = offset]
    /\ pc' = IF Len(segments[batch.segment]) = batch.end /\ batch.segment # Newest
             THEN "remove" ELSE "pending"
    /\ UNCHANGED <<source, delivered, segments, cursor, offset, position, open, batch, faults>>

\* ... its directory synced, which is the offset's directory as well ...
SyncCursor ==
    /\ pc = "sync"
    /\ stable' = [stable EXCEPT !.cursor = cursor, !.offset = offset]
    /\ pc' = IF Len(segments[batch.segment]) = batch.end THEN "remove" ELSE "pending"
    /\ UNCHANGED <<source, delivered, segments, cursor, offset, position, open, batch, faults>>

\* ... and a segment that has been read to its end is removed.
RemoveSegment ==
    /\ pc = "remove"
    /\ segments' = Without(segments, batch.segment)
    /\ pc' = "removed"
    /\ UNCHANGED <<source, delivered, cursor, offset, stable, position, open, batch, faults>>

SyncRemoval ==
    /\ pc = "removed"
    /\ stable' = [stable EXCEPT !.segments = Without(@, batch.segment)]
    /\ pc' = "pending"
    /\ UNCHANGED <<source, delivered, segments, cursor, offset, position, open, batch, faults>>

-------------------------------------------------------------------------------
(* Faults *)

Restarted == pc' = "idle" /\ position' = 0 /\ open' = FALSE /\ batch' = NoBatch

\* The agent is killed; what it has written stays.  That the system writes it
\* back before the machine loses power is assumed.
Kill ==
    /\ faults.kill < MaxKills
    /\ faults' = [faults EXCEPT !.kill = @ + 1]
    /\ Restarted
    /\ stable' = [segments |-> segments, cursor |-> cursor, offset |-> offset]
    /\ UNCHANGED <<source, delivered, segments, cursor, offset>>

\* What a power loss may leave of a file: all that is synced and some of the
\* rest; the last record may be cut short.
Survivors(s) ==
    LET file == IF s \in Files THEN segments[s] ELSE stable.segments[s]
        least == IF s \in DOMAIN stable.segments THEN Len(stable.segments[s]) ELSE 0
    IN  {SubSeq(file, 1, k) : k \in least..Len(file)}
          \cup {Append(SubSeq(file, 1, k), Fragment) :
                  k \in {k \in least..Len(file) : k < Len(file) /\ faults.short < MaxShortWrites}}

PowerLoss ==
    /\ faults.power < MaxPowerLosses
    /\ faults' = [faults EXCEPT !.power = @ + 1]
    /\ \E left \in SUBSET (Files \cup DOMAIN stable.segments) :
          /\ Files \cap DOMAIN stable.segments \subseteq left
          /\ segments' \in [left -> UNION {Survivors(s) : s \in left}]
          /\ \A s \in left : segments'[s] \in Survivors(s)
    /\ cursor' \in {cursor, stable.cursor}
    /\ offset' \in {offset, stable.offset}
    /\ stable' = [segments |-> segments', cursor |-> cursor', offset |-> offset']
    /\ Restarted
    /\ UNCHANGED <<source, delivered>>

-------------------------------------------------------------------------------

Collect == BeginCollect \/ AppendRecord \/ CloseAppender \/ SaveOffset
DrainQueue == EndCycle \/ TakeBatch \/ Accept \/ WriteCursor \/ SyncCursor \/ RemoveSegment
         \/ SyncRemoval

QueueNext ==
    \/ WriteLine \/ Rotate
    \/ Collect
    \/ DrainQueue \/ AcceptUnheard \/ Refuse
    \/ Kill \/ PowerLoss

QueueSpec == QueueInit /\ [][QueueNext]_queueVars

\* The disk may run full.
FullDiskSpec == QueueInit /\ [][QueueNext \/ ShortWrite]_queueVars

\* The forwarder runs in a cycle once a second.
LiveQueueSpec == QueueSpec /\ WF_queueVars(Collect \/ DrainQueue)

-------------------------------------------------------------------------------
(* Properties *)

Delivery == INSTANCE LogDelivery WITH
    written <- written, lost <- lost, delivered <- delivered

\* The forwarder delivers the lines in their order and without a gap, and loses
\* those only that a rotation has taken before their collection, wherever it is
\* killed and whatever the power loss leaves of unsynced files.
DeliversInOrder == Delivery!Spec

\* The queue keeps its limit, also when a collection is repeated after a crash
\* and finds its records in the queue already.  The cursor never points beyond
\* the oldest segment: with such a cursor nothing is uploaded any more, or
\* records are passed over.  Neither a removal that a power loss undoes nor a
\* number used twice leads there.
QueueSound == QueueTypeOK /\ Total =< QueueLimit /\ ~CursorInvalid

\* From some time on the controller answers every upload.
EventuallyOnline == <>[][~AcceptUnheard /\ ~Refuse]_queueVars

\* A line reaches the controller in the end, or has gone with a rotation, when
\* the controller can be reached again: the queue does not wedge.
LinesDelivered ==
    EventuallyOnline =>
        \A n \in 1..MaxLines : n \in Delivery!Outstanding ~> n \in delivered \cup lost

\* "The access-log forwarder durably segments HTTP records": a record that the
\* offset has passed is stored by the controller or readable in the queue.
RecordsDurable ==
    \A k \in DOMAIN log : k =< offset => log[k] \in delivered \cup Queued
===============================================================================
