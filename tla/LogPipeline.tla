----------------------------- MODULE LogPipeline -----------------------------
(***************************************************************************)
(* The way of a log record of the extension: queued and kept in            *)
(* chrome.storage (packages/extension/src/shared/logger.ts), sent in       *)
(* batches over the relay (connection-manager.ts), written by the bridge   *)
(* to the rotating extension.log (service.ts, shared/logger.ts), teed to   *)
(* the remote sink (remote-sink.ts) and posted to the ingest service       *)
(* (packages/log-ingest).                                                  *)
(*                                                                         *)
(* A record is its number in the order of logging; what it says is left    *)
(* out.  Numbers below 1 are lines of earlier runs.                        *)
(***************************************************************************)
EXTENDS LogFiles, FiniteSets

CONSTANTS
    MaxRecords,   \* records logged: a bound
    MaxBuffer,    \* MAX_BUFFER_ENTRIES
    MaxChunk,     \* MAX_BATCH_ENTRIES
    MaxRemote,    \* maxBufferRecords
    MaxBatch,     \* maxBatch
    MaxCrashes,   \* evictions, breaks, bridge restarts and refused removals: a bound
    Malformed,    \* records isValidLogEntry refuses, of level debug say
    Flush         \* a flush in the write queue

ASSUME LogPipelineAssumption ==
    /\ {MaxRecords, MaxBuffer, MaxChunk, MaxRemote, MaxBatch} \subseteq Nat \ {0}
    /\ MaxCrashes \in Nat /\ Malformed \subseteq 1..MaxRecords

Records == (0 - Keep)..MaxRecords
ASSUME FlushAssumption == Flush \notin Records
Batches == BoundedSeq(Records, MaxBuffer)

VARIABLES
    logged,     \* records logged so far
    queue,      \* writeQueue: works that wait, a record to append or a flush
    trimming,   \* entries the flush in progress has sent and not yet removed
    buffer,     \* the entries in chrome.storage
    relayUp,    \* the relay is open, server_info has come, the timer runs
    wire,       \* log_batch frames on their way to the bridge
    files,      \* extension.log and its generations
    remote,     \* the remote sink's buffer
    posting,    \* the batch whose POST the sink waits for
    network,    \* POSTs the ingest service may still get
    database,   \* how often each record was inserted
    resent,     \* entries sent and not removed: the life died, or could not
    crashes

vars == <<logged, queue, trimming, buffer, relayUp, wire, files, remote,
          posting, network, database, resent, crashes>>
extensionVars == <<logged, queue, trimming, buffer, relayUp, resent>>
sinkVars == <<remote, posting, network, database>>
bridgeVars == <<files, sinkVars>>

TypeOK ==
    /\ logged \in 0..MaxRecords
    /\ Range(queue) \subseteq Records \cup {Flush}
    /\ trimming \in 0..MaxBuffer
    /\ buffer \in Batches
    /\ relayUp \in BOOLEAN
    /\ Range(wire) \subseteq Batches
    /\ \A i \in Generations : Range(files[i]) \subseteq Records
    /\ Range(remote) \subseteq Records /\ Len(remote) <= MaxRemote
    /\ Range(posting) \subseteq Records /\ Len(posting) <= MaxBatch
    /\ \A post \in network : Range(post) \subseteq Records
    /\ database \in [1..MaxRecords -> 0..2]
    /\ resent \subseteq Records
    /\ crashes \in 0..MaxCrashes

\* The generations earlier runs have left.
Init ==
    /\ logged = 0 /\ queue = <<>> /\ trimming = 0 /\ buffer = <<>>
    /\ relayUp = FALSE /\ wire = <<>>
    /\ \E n \in {-1, Keep} :
          files = [i \in Generations |-> IF i <= n THEN <<0 - i>> ELSE <<>>]
    /\ remote = <<>> /\ posting = <<>> /\ network = {} /\ database = [r \in 1..MaxRecords |-> 0]
    /\ resent = {} /\ crashes = 0

\* The last n of a sequence; a sequence without its first n.
Newest(s, n) == IF Len(s) > n THEN SubSeq(s, Len(s) - n + 1, Len(s)) ELSE s
Without(s, n) == SubSeq(s, n + 1, Len(s))
First(s, n) == SubSeq(s, 1, Min({n, Len(s)}))

-----------------------------------------------------------------------------
(***************************************************************************)
(* The extension: one work of the write queue at a time.                   *)
(***************************************************************************)

LogRecord ==
    /\ logged < MaxRecords
    /\ logged' = logged + 1
    /\ queue' = Append(queue, logged')
    /\ UNCHANGED <<trimming, buffer, relayUp, resent, wire, bridgeVars, crashes>>

\* Read, append, drop the oldest, write back.  A write the storage refuses is
\* lost.
Appends ==
    /\ trimming = 0 /\ queue # <<>> /\ Head(queue) # Flush
    /\ buffer' \in {Newest(Append(buffer, Head(queue)), MaxBuffer), buffer}
    /\ queue' = Tail(queue)
    /\ UNCHANGED <<logged, trimming, relayUp, resent, wire, bridgeVars, crashes>>

\* The timer's flush; one that waits does for the next.
FlushDue ==
    /\ relayUp /\ Flush \notin Range(queue) /\ trimming = 0
    /\ queue' = Append(queue, Flush)
    /\ UNCHANGED <<logged, trimming, buffer, relayUp, resent, wire, bridgeVars, crashes>>

Chunks(s) ==
    [i \in 1..((Len(s) + MaxChunk - 1) \div MaxChunk) |->
        First(Without(s, (i - 1) * MaxChunk), MaxChunk)]

\* The snapshot is sent in chunks, all within one turn of the event loop.
Sends ==
    /\ trimming = 0 /\ queue # <<>> /\ Head(queue) = Flush
    /\ IF relayUp /\ buffer # <<>>
       THEN trimming' = Len(buffer) /\ wire' = wire \o Chunks(buffer) /\ UNCHANGED queue
       ELSE queue' = Tail(queue) /\ UNCHANGED <<trimming, wire>>
    /\ UNCHANGED <<logged, buffer, relayUp, resent, bridgeVars, crashes>>

\* What the flush leaves of the buffer (mutants: one entry too many stays, or
\* the buffer is cleared if the relay is still there).
TrimsOneLess(n) == Without(buffer, n - 1)
TrimsNothing(n) == buffer
Trims(n) == Without(buffer, n)

\* A removal the storage refuses is not noticed: the entries are sent again.
Trimmed ==
    /\ trimming > 0
    /\ \/ /\ buffer' = Trims(trimming)
          /\ UNCHANGED <<resent, crashes>>
       \/ /\ crashes < MaxCrashes /\ crashes' = crashes + 1
          /\ resent' = resent \cup Range(First(buffer, trimming))
          /\ UNCHANGED buffer
    /\ trimming' = 0
    /\ queue' = Tail(queue)
    /\ UNCHANGED <<logged, relayUp, wire, bridgeVars>>

ServerInfo ==
    /\ ~relayUp
    /\ relayUp' = TRUE
    /\ queue' = Append(queue, Flush)
    /\ UNCHANGED <<logged, trimming, buffer, resent, wire, bridgeVars, crashes>>

\* Frames not yet received are lost with the socket; a flush that waits finds no
\* relay.
RelayBreaks ==
    /\ relayUp /\ crashes < MaxCrashes
    /\ crashes' = crashes + 1
    /\ relayUp' = FALSE /\ wire' = <<>>
    /\ UNCHANGED <<logged, queue, trimming, buffer, resent, bridgeVars>>

\* Chrome evicts the service worker: what was in its memory is gone.
Evicted ==
    /\ crashes < MaxCrashes
    /\ crashes' = crashes + 1
    /\ queue' = <<>> /\ trimming' = 0
    /\ relayUp' = FALSE
    /\ resent' = resent \cup Range(First(buffer, trimming))
    /\ UNCHANGED <<logged, buffer, wire, bridgeVars>>

-----------------------------------------------------------------------------
(***************************************************************************)
(* The bridge.                                                             *)
(***************************************************************************)

\* The wait for a POST is over, however it ended (mutant: a batch that failed is
\* kept for the next flush).
KeptForRetry(batch) == batch
NotRetried(batch) == <<>>

\* flush, if none is in progress: one batch.
Flushed(sink) ==
    IF sink.posting = <<>>
    THEN [remote |-> Without(sink.remote, MaxBatch), posting |-> First(sink.remote, MaxBatch)]
    ELSE sink

\* enqueue: what is beyond the limit is dropped, the oldest first; a full batch is
\* flushed at once.
Enqueued(sink, line) ==
    LET teed == [sink EXCEPT !.remote = Newest(Append(@, line), MaxRemote)]
    IN  IF Len(teed.remote) >= MaxBatch THEN Flushed(teed) ELSE teed

SinkBecomes(sink) ==
    /\ remote' = sink.remote /\ posting' = sink.posting
    /\ network' = IF sink.posting = posting THEN network
                  ELSE network \cup {sink.posting}

\* A batch without the records in out.
Passing(batch, out) ==
    FoldLeft(LAMBDA kept, r : IF r \in out THEN kept ELSE Append(kept, r), <<>>, batch)

Valid(batch) == Passing(batch, Malformed)

\* log_batch: each valid entry is teed and written.  Somebody may have a
\* generation of the log open, and the append of any line may be refused.
ReceivesBatch ==
    /\ wire # <<>>
    /\ wire' = Tail(wire)
    /\ LET valid == Valid(Head(wire))
       IN  /\ \E busy \in {{}} \cup {{i} : i \in Generations},
                 refused \in SUBSET Range(valid) :
                  files' = AllWritten(files, valid, busy, refused)
           /\ SinkBecomes(FoldLeft(Enqueued, [remote |-> remote, posting |-> posting], valid))
    /\ UNCHANGED <<extensionVars, database, crashes>>

FlushTimer ==
    /\ posting = <<>> /\ remote # <<>>
    /\ SinkBecomes(Flushed([remote |-> remote, posting |-> posting]))
    /\ UNCHANGED <<extensionVars, wire, files, database, crashes>>

\* The ingest service inserts the batch, in one statement, or refuses it.
Inserts(post) ==
    /\ network' = network \ {post}
    /\ database' \in {database, [r \in 1..MaxRecords |->
          IF r \in Range(post) THEN Min({database[r] + 1, 2}) ELSE database[r]]}
    /\ UNCHANGED <<extensionVars, wire, files, remote, posting, crashes>>

\* An answer, an error or the time limit; the POST may be under way still.
PostEnds ==
    /\ posting # <<>>
    /\ remote' = NotRetried(posting) \o remote
    /\ posting' = <<>>
    /\ UNCHANGED <<extensionVars, wire, files, network, database, crashes>>

\* The best-effort flush of a process that ends does not outlive it.
BridgeRestarts ==
    /\ crashes < MaxCrashes
    /\ crashes' = crashes + 1
    /\ relayUp' = FALSE /\ wire' = <<>>
    /\ remote' = <<>> /\ posting' = <<>>
    /\ UNCHANGED <<logged, queue, trimming, buffer, resent, files,
                   network, database>>

ExtensionStep == Appends \/ FlushDue \/ Sends \/ Trimmed \/ ServerInfo

Next ==
    \/ LogRecord \/ ExtensionStep
    \/ RelayBreaks \/ Evicted
    \/ ReceivesBatch \/ FlushTimer \/ PostEnds \/ BridgeRestarts
    \/ \E post \in network : Inserts(post)

Spec == Init /\ [][Next]_vars

\* Promises and timers of the extension run; a socket delivers; the relay comes
\* back (ConnectionManager); a POST ends, at the latest after postTimeoutMs.
Fairness ==
    /\ WF_vars(Appends \/ Sends \/ Trimmed) /\ WF_vars(FlushDue)
    /\ WF_vars(ServerInfo)
    /\ WF_vars(ReceivesBatch) /\ WF_vars(FlushTimer) /\ WF_vars(PostEnds)

FairSpec == Spec /\ Fairness

-----------------------------------------------------------------------------
(***************************************************************************)
(* Properties.                                                             *)
(***************************************************************************)

\* The log shows the records in the order they were logged, and none twice but
\* those a life sent and could not remove, because it died or the storage refused:
\* neither breaks, restarts, overflows nor rotations reorder or repeat a line.
LogIsInOrder ==
    LET lines == AllLines(files)
    IN  \A i, j \in DOMAIN lines :
           i < j => lines[i] < lines[j] \/ lines[j] \in resent

\* A line once in the files leaves them at the old end only, whatever rotations
\* are done, stopped half way or kept from deleting the oldest: of a batch just
\* the lines whose append was refused are missing, and nothing in between goes.
LinesAgeOut ==
    [][files' # files =>
          \E refused \in SUBSET Range(Valid(Head(wire))) :
             LET lines == AllLines(files) \o Passing(Valid(Head(wire)), refused)
             IN  \E n \in 0..Len(lines) : AllLines(files)' = Without(lines, n)]_vars

\* A row is inserted no more often than its line was sent to the bridge: a batch
\* whose answer is lost, late or a failure is not posted again.
NoRowTwice == \A r \in 1..MaxRecords : database[r] > 1 => r \in resent

\* Every entry leaves the extension's storage in the end, and the sink always
\* comes to post again.
LogDrains ==
    /\ \A r \in 1..MaxRecords : []<>(r \notin Range(buffer))
    /\ []<>(remote = <<>>)
=============================================================================
