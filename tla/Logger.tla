------------------------------- MODULE Logger -------------------------------
(***************************************************************************)
(* The logger: threads add entries that reach the severity of the process  *)
(* to a blocking_collection, one worker takes and writes them. The worker  *)
(* is started and joined by the constructor and destructor of a static     *)
(* object. log() looks at the severity first and is admitted to the queue  *)
(* after; one that comes too late throws.                                  *)
(*                                                                         *)
(* The queue is what blocking_collection implements (ClosableQueue).       *)
(***************************************************************************)
EXTENDS Naturals, FiniteSets, SequencesExt

CONSTANTS Threads,
          Entries,    \* the entries of a behaviour, by their severities
          Levels      \* severities: numbers

VARIABLES severity,   \* of the process
          logging,    \* logging[h]: <<entry>> between severity check and queue, <<>> else
          logged,     \* entries whose log() has returned, in order of their add
          refused,    \* entries whose log() has thrown
          worker,     \* unstarted, idle, printing or ended
          written,    \* what was printed, in order
          shutdown,   \* running, completed or joined
          intime,     \* how many entries were in the queue's history when it was completed
          queue, closed, admitted, taken, ended

loggerVars == <<severity, logging, logged, refused, worker, written, shutdown, intime, queue, closed, admitted, taken, ended>>
queueVars == <<queue, closed, admitted, taken, ended>>

Queue == INSTANCE ClosableQueue WITH Items <- DOMAIN Entries, Unbounded <- {"logging_worker"}

Init == /\ Queue!Init
        /\ severity \in Levels
        /\ logging = [h \in Threads |-> <<>>] /\ logged = <<>> /\ refused = {}
        /\ worker = "unstarted" /\ written = <<>> /\ shutdown = "running" /\ intime = 0

Fresh(e) == /\ e \notin refused \cup admitted \cup Range(logged)
            /\ \A h \in Threads : logging[h] # <<e>>

-----------------------------------------------------------------------------
\* initialize_logger()
InitializeLogger ==
  /\ worker = "unstarted" /\ worker' = "idle"
  /\ UNCHANGED <<severity, logging, logged, refused, written, shutdown, intime, queueVars>>

\* logger::severity(value)
SetSeverity(s) ==
  /\ severity # s /\ severity' = s
  /\ UNCHANGED <<logging, logged, refused, worker, written, shutdown, intime, queueVars>>

\* log(): what is not severe enough is dropped ...
Log(h, e) ==
  /\ logging[h] = <<>> /\ Fresh(e) /\ Entries[e] >= severity
  /\ logging' = [logging EXCEPT ![h] = <<e>>]
  /\ UNCHANGED <<severity, logged, refused, worker, written, shutdown, intime, queueVars>>

\* ... the queue refuses when it is complete ...
Admit(h) ==
  /\ logging[h] # <<>> /\ logging[h][1] \notin admitted
  /\ IF closed
     THEN /\ refused' = refused \cup Range(logging[h])
          /\ logging' = [logging EXCEPT ![h] = <<>>]
          /\ UNCHANGED queueVars
     ELSE Queue!Admit(logging[h][1]) /\ UNCHANGED <<refused, logging>>
  /\ UNCHANGED <<severity, logged, worker, written, shutdown, intime>>

\* ... and takes the entry.
Put(h) ==
  /\ logging[h] # <<>> /\ Queue!Put(logging[h][1])
  /\ logged' = Append(logged, logging[h][1])
  /\ logging' = [logging EXCEPT ![h] = <<>>]
  /\ UNCHANGED <<severity, refused, worker, written, shutdown, intime>>

-----------------------------------------------------------------------------
\* logging_worker(): try_get() ...
WorkerTakes ==
  /\ worker = "idle" /\ Queue!Take
  /\ worker' = "printing"
  /\ UNCHANGED <<severity, logging, logged, refused, written, shutdown, intime>>

\* ... log_to_console(), log_to_debug() ...
WorkerWrites ==
  /\ worker = "printing"
  /\ written' = Append(written, Last(taken))
  /\ worker' = "idle"
  /\ UNCHANGED <<severity, logging, logged, refused, shutdown, intime, queueVars>>

\* ... until nothing is left of a complete queue.
WorkerEnds ==
  /\ worker = "idle" /\ Queue!End("logging_worker")
  /\ worker' = "ended"
  /\ UNCHANGED <<severity, logging, logged, refused, written, shutdown, intime>>

\* shutdown_logger(): complete() and join().
Complete ==
  /\ shutdown = "running" /\ worker # "unstarted" /\ Queue!Close
  /\ shutdown' = "completed" /\ intime' = Len(logged)
  /\ UNCHANGED <<severity, logging, logged, refused, worker, written>>

Join ==
  /\ shutdown = "completed" /\ worker = "ended" /\ shutdown' = "joined"
  /\ UNCHANGED <<severity, logging, logged, refused, worker, written, intime, queueVars>>

Next == \/ InitializeLogger \/ WorkerTakes \/ WorkerWrites \/ WorkerEnds \/ Complete \/ Join
        \/ \E s \in Levels : SetSeverity(s)
        \/ \E h \in Threads : Admit(h) \/ Put(h) \/ \E e \in DOMAIN Entries : Log(h, e)

\* The worker runs; the process ends when it pleases.
Fairness == WF_loggerVars(WorkerTakes \/ WorkerWrites \/ WorkerEnds) /\ WF_loggerVars(Join)

-----------------------------------------------------------------------------
TypeOK == /\ severity \in Levels /\ worker \in {"unstarted", "idle", "printing", "ended"}
          /\ shutdown \in {"running", "completed", "joined"} /\ intime \in 0..Len(logged)
          /\ refused \subseteq DOMAIN Entries
          /\ logging \in [Threads -> Seq(DOMAIN Entries)] /\ \A h \in Threads : Len(logging[h]) <= 1
          /\ logged \in Seq(DOMAIN Entries) /\ written \in Seq(DOMAIN Entries)
          /\ queue \in Seq(DOMAIN Entries) /\ taken \in Seq(DOMAIN Entries)
          /\ closed \in BOOLEAN

(* Entries are written in the order they were added, and shutdown_logger()     *)
(* returns only after all that were there when it began.                       *)
LogKept == /\ IsPrefix(written, logged)
           /\ shutdown = "joined" => Len(written) >= intime

(* An entry whose log() has returned is written once there is a worker, or the *)
(* process was ending when it was added: log() and shutdown_logger() do not    *)
(* wait for each other. And shutting down ends, whatever is logged meanwhile.  *)
LogWritten ==
  /\ \A e \in DOMAIN Entries :
       e \in Range(logged) /\ shutdown = "running" /\ worker # "unstarted" ~> e \in Range(written)
  /\ shutdown = "completed" ~> shutdown = "joined"

-----------------------------------------------------------------------------
\* What the proofs rest on: entries go through the queue to the worker, who may be behind by the one it prints, and
\* who ends with the queue.
PassedOn == /\ logged = taken \o queue
            /\ IF worker = "printing" THEN taken # <<>> /\ written = Front(taken) ELSE written = taken
EndsLast == /\ closed <=> shutdown # "running"
            /\ worker = "ended" => closed /\ Len(written) >= intime
            /\ shutdown = "joined" => worker = "ended"
IInv == TypeOK /\ PassedOn /\ EndsLast
=============================================================================
