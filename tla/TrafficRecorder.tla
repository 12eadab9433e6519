---------------------------- MODULE TrafficRecorder ----------------------------
(***************************************************************************)
(* chaos_service/traffic.py and the hook that feeds it (after_request in   *)
(* app/api/hooks.py): request threads put events into a bounded queue      *)
(* without waiting, one daemon thread appends them to a file.  The writer  *)
(* has no handler for a write error: it dies and nothing starts it again   *)
(* until the process restarts.  Events are numbered as they are accepted.  *)
(*                                                                         *)
(* replay_traffic.py reads that file line by line and sends every event    *)
(* again; sent to the service that records, its requests are recorded too  *)
(* and lengthen the file it is still reading.                              *)
(***************************************************************************)
EXTENDS Naturals, Sequences

CONSTANTS
  MaxQueue,   \* TRAFFIC_RECORD_MAX_QUEUE
  Responses,  \* what after_request sees: the class of path and of status
  ReplayLimit,  \* --limit of replay_traffic.py
  SampleEvents, \* lines of sample-data/traffic_record_demo.jsonl
  MaxEvents,  \* bound: responses in a behaviour
  MaxFaults   \* bound: write errors and restarts

ASSUME TrafficAssumption ==
  MaxQueue \in Nat \ {0} /\ {ReplayLimit, SampleEvents, MaxEvents, MaxFaults} \subseteq Nat

VARIABLES
  queue,     \* _record_queue
  hand,      \* the event the writer has taken, 0 for none
  file,      \* TRAFFIC_RECORD_FILE
  alive,     \* _writer_thread.is_alive()
  accepted,  \* history: how many events have been put into the queue
  offered,   \* history: how many responses were worth recording
  lost,      \* history: the events taken or queued and never to be written
  faults,    \* history: write errors and restarts so far
  replay     \* replay_traffic.main: whether it runs, on the built-in sample or
             \* not, the lines it loaded, sent, and sent with success

trafficVars == <<queue, hand, file, alive, accepted, offered, lost, faults, replay>>

NewReplay(on, builtin) == [on |-> on, builtin |-> builtin, loaded |-> 0, sent |-> 0, ok |-> 0]

\* init_traffic_recording: a queue and a writer.
TrafficInit ==
  /\ queue = <<>> /\ hand = 0 /\ file = <<>> /\ alive = TRUE
  /\ accepted = 0 /\ offered = 0 /\ lost = {} /\ faults = 0
  /\ replay = NewReplay(FALSE, FALSE)

\* record_success_traffic looks only at answers below 400 that are not probes,
\* metrics or static files.
Worth(response) == response.path = "business" /\ response.status < 400

\* put_nowait: a full queue drops the event, the request does not wait.
Enqueue(response) ==
  IF ~Worth(response) THEN UNCHANGED <<queue, accepted, offered>>
  ELSE /\ offered < MaxEvents
       /\ offered' = offered + 1
       /\ IF Len(queue) < MaxQueue
            THEN queue' = Append(queue, accepted + 1) /\ accepted' = accepted + 1
            ELSE UNCHANGED <<queue, accepted>>

\* A client's request ends.
Record(response) ==
  /\ Enqueue(response)
  /\ UNCHANGED <<hand, file, alive, lost, faults, replay>>

\* Mutant: the newest event is taken first.
WriterGetNewest ==
  /\ alive /\ hand = 0 /\ queue # <<>>
  /\ hand' = queue[Len(queue)]
  /\ queue' = SubSeq(queue, 1, Len(queue) - 1)
  /\ UNCHANGED <<file, alive, accepted, offered, lost, faults, replay>>

\* item = ctx._record_queue.get()
WriterGet ==
  /\ alive /\ hand = 0 /\ queue # <<>>
  /\ hand' = Head(queue) /\ queue' = Tail(queue)
  /\ UNCHANGED <<file, alive, accepted, offered, lost, faults, replay>>

\* mkdir, open for append, write, close.
WriterWrite ==
  /\ hand # 0
  /\ file' = Append(file, hand) /\ hand' = 0
  /\ UNCHANGED <<queue, alive, accepted, offered, lost, faults, replay>>

\* Mutant: the loop catches the error and goes on, and the item is forgotten.
WriterFailQuietly ==
  /\ hand # 0 /\ faults < MaxFaults
  /\ hand' = 0
  /\ UNCHANGED <<queue, file, alive, accepted, offered, lost, faults, replay>>

\* An OSError: task_done runs, the exception ends the thread.
WriterFail ==
  /\ hand # 0 /\ faults < MaxFaults
  /\ faults' = faults + 1
  /\ lost' = lost \union {hand} /\ hand' = 0
  /\ alive' = FALSE
  /\ UNCHANGED <<queue, file, accepted, offered, replay>>

\* The process restarts: a new queue and a new daemon thread.
ProcessRestart ==
  /\ faults < MaxFaults
  /\ faults' = faults + 1
  /\ lost' = lost \union {queue[i] : i \in 1 .. Len(queue)} \union ({hand} \ {0})
  /\ queue' = <<>> /\ hand' = 0 /\ alive' = TRUE
  /\ UNCHANGED <<file, accepted, offered, replay>>

-----------------------------------------------------------------------------
(* replay_traffic.py *)

\* resolve_input_path: a missing or empty file is replaced by the sample,
\* unless --no-builtin-sample is given.
StartReplay ==
  /\ ~replay.on
  /\ \E allowed \in BOOLEAN : replay' = NewReplay(TRUE, allowed /\ file = <<>>)
  /\ UNCHANGED <<queue, hand, file, alive, accepted, offered, lost, faults>>

\* What the report counts as ok; no answer is status 0.
Succeeds(response) == response.status \in 200 .. 399

\* iter_events reads lazily: the lines there are by now.
Lines == IF replay.builtin THEN SampleEvents ELSE Len(file)

\* Mutant: one event more than the limit is sent.
ReplaySendOneMore(response) ==
  /\ replay.on /\ replay.loaded < Lines /\ replay.sent <= ReplayLimit
  /\ Enqueue(response)
  /\ replay' = [replay EXCEPT !.loaded = @ + 1, !.sent = @ + 1,
                               !.ok = @ + IF Succeeds(response) THEN 1 ELSE 0]
  /\ UNCHANGED <<hand, file, alive, lost, faults>>

\* send: the next line, below the limit; the service answers, and records.
ReplaySend(response) ==
  /\ replay.on /\ replay.loaded < Lines /\ replay.sent < ReplayLimit
  /\ Enqueue(response)
  /\ replay' = [replay EXCEPT !.loaded = @ + 1, !.sent = @ + 1,
                               !.ok = @ + IF Succeeds(response) THEN 1 ELSE 0]
  /\ UNCHANGED <<hand, file, alive, lost, faults>>

\* Past the limit the rest of the file is only counted.
ReplaySkip ==
  /\ replay.on /\ replay.loaded < Lines /\ replay.sent >= ReplayLimit
  /\ replay' = [replay EXCEPT !.loaded = @ + 1]
  /\ UNCHANGED <<queue, hand, file, alive, accepted, offered, lost, faults>>

\* The end of the file: the report is written.
ReplayEnd ==
  /\ replay.on /\ replay.loaded >= Lines
  /\ replay' = [replay EXCEPT !.on = FALSE]
  /\ UNCHANGED <<queue, hand, file, alive, accepted, offered, lost, faults>>

-----------------------------------------------------------------------------
TrafficNext ==
  \/ \E response \in Responses : Record(response) \/ ReplaySend(response)
  \/ StartReplay \/ ReplaySkip \/ ReplayEnd
  \/ WriterGet \/ WriterWrite \/ WriterFail \/ ProcessRestart

TrafficSpec == TrafficInit /\ [][TrafficNext]_trafficVars

\* The writer thread is scheduled as long as it lives.
TrafficFairness == WF_trafficVars(WriterGet) /\ WF_trafficVars(WriterWrite)

-----------------------------------------------------------------------------
(* PROPERTIES *)

Queued == {queue[i] : i \in 1 .. Len(queue)}
Filed  == {file[i] : i \in 1 .. Len(file)}

\* The queue, the file and the counters have their shape.
TrafficTypeOK ==
  /\ queue \in Seq(Nat \ {0}) /\ Len(queue) <= MaxQueue
  /\ hand \in Nat /\ file \in Seq(Nat \ {0}) /\ alive \in BOOLEAN
  /\ accepted \in Nat /\ offered \in Nat /\ lost \subseteq Nat /\ faults \in Nat
  /\ replay \in [on : BOOLEAN, builtin : BOOLEAN, loaded : Nat, sent : Nat, ok : Nat]

\* The file holds each event once, in the order in which the requests ended,
\* across dead writers and restarts, and what is still to come is newer.
FileInOrder ==
  /\ \A i, j \in 1 .. Len(file) : i < j => file[i] < file[j]
  /\ \A i \in 1 .. Len(file) : hand # 0 => file[i] < hand
  /\ \A i \in 1 .. Len(file), j \in 1 .. Len(queue) : file[i] < queue[j]

\* A replay sends the lines of its input in their order, each at most once, and
\* stops at its limit however much its own requests lengthen the file; a line
\* is left out only once the limit is reached.  On a recorded file it never
\* runs ahead of the writer.
ReplayBounded ==
  /\ replay.ok <= replay.sent
  /\ replay.sent = IF replay.loaded < ReplayLimit THEN replay.loaded ELSE ReplayLimit
  /\ replay.loaded <= Lines

\* Every accepted event is queued, in the writer's hand or in the file, except
\* for those that went with a dead writer or a restart; without one nothing
\* that was accepted is missing.
NothingMissing ==
  /\ 1 .. accepted = Queued \union Filed \union lost \union ({hand} \ {0})
  /\ faults = 0 => lost = {}

\* As long as the writer lives, the queue drains: an event that was accepted is
\* written.  A write error ends that promise until the process restarts.
QueueDrains ==
  \A n \in 1 .. MaxEvents : n \in Queued ~> (n \in Filed \/ ~alive \/ n \in lost)
=============================================================================
