-------------------------------- MODULE Log --------------------------------
(***************************************************************************)
(* The logger of job output (init/log.c).  A process writes chunks 1, 2,   *)
(* ... to a pseudo terminal; the daemon reads them in its main loop and    *)
(* appends them to the log file, keeping in a buffer what it cannot write. *)
(* When the process ends, a log that could not be opened because the disk  *)
(* was not writeable yet is kept on the list log_unflushed_files until the *)
(* daemon is told that the disk has become so.                             *)
(*                                                                         *)
(* The functions of log.c are operators from a log (with its file) to the  *)
(* set of logs it may become: the disk decides how much a write(2) takes.  *)
(***************************************************************************)
EXTENDS Integers, Sequences, Functions

CONSTANTS Logs,      \* the logs of the processes run, one process each
          MaxOut,    \* chunks each process writes
          Disks,     \* the states of the log disk: ok, ro (read-only), full
          Faults     \* what else may go wrong: partial, leak, reexec, rotate

ASSUME LogAssumption == /\ MaxOut \in [Logs -> Nat]
                        /\ Disks \subseteq {"ok", "ro", "full"}
                        /\ Faults \subseteq {"partial", "leak", "reexec", "rotate"}

VARIABLES log,                  \* the Log of each process
          file,                 \* chunks in the log file, rotated files included
          pty,                  \* chunks in the terminal, not read yet
          out,                  \* chunks written by the process
          writers,              \* who holds the terminal: main, child (a leaked descriptor)
          disk,
          log_unflushed_files,
          log_flushed,
          faults,               \* history: full, reexec, other (a short write or a leak)
          fault                 \* TRUE once an nih_assert has failed

vars == <<log, file, pty, out, writers, disk, log_unflushed_files, log_flushed, faults, fault>>

Errnos == {"0", "EROFS", "ENOSPC", "stale"}

\* A log that waits for its process; log_new.
log_new == [place |-> "job", fd |-> "closed", unflushed |-> << >>, recv |-> << >>,
            io |-> TRUE, remote_closed |-> FALSE, open_errno |-> "0"]

----------------------------------------------------------------------------
(* The system calls. *)

\* open(2) of the log file: success, or the error.  A full disk refuses a file
\* that has to be created first.
OpenResults == CASE disk = "ok" -> {"success"}
                 [] disk = "ro" -> {"EROFS"}
                 [] disk = "full" -> {"success", "ENOSPC"}

\* write(2) of n chunks: how many it takes, or the error.
WriteResults(n) ==
  LET Short == IF "partial" \in Faults THEN 1..(n - 1) ELSE {}
      Took(s) == [n : s, err : {"0"}]
      Failed(e) == [n : {0}, err : {e}]
  IN CASE disk = "ok" -> Took({n} \cup Short)
       [] disk = "ro" -> Failed("EROFS")
       [] disk = "full" -> Failed("ENOSPC") \cup Took(Short)

----------------------------------------------------------------------------
(* The functions.  x is a log with its file and the faults met. *)

Opened(x) == x.log.fd = "open"

\* What is written to a file that was removed, nobody sees.
Appended(x, data) == IF x.log.fd = "unlinked" THEN x.file ELSE x.file \o data
Closed(x) == [x EXCEPT !.log.fd = "closed"]

\* Opening when not open yet, or when the open file has been unlinked; errno is
\* remembered whether the open succeeds or not, and after a success is stale: that
\* of fstat(-1), or e, what it was before, when the file had been unlinked.
log_file_open(x, e) ==
  IF Opened(x) THEN {x}
  ELSE {[x EXCEPT !.log.fd = IF r = "success" THEN "open" ELSE "closed",
                  !.log.open_errno = IF r # "success" THEN r
                                     ELSE IF x.log.fd = "unlinked" THEN e ELSE "stale"] :
          r \in OpenResults}

\* Data that is pushed to the unflushed buffer, unless the disk is full.
Keep(x, buf, err) ==
  IF err = "ENOSPC"
  THEN [x EXCEPT !.faults = IF buf = << >> THEN @ ELSE @ \cup {"full"}]
  ELSE [x EXCEPT !.log.unflushed = @ \o buf]

\* The reader's buffer is used up: recv is what buf was taken from.
Consumed(x, buf) == [x EXCEPT !.log.recv = IF buf = << >> THEN @ ELSE << >>]

Partly(k, n) == IF k < n THEN {"other"} ELSE {}

\* Mutant: what was written stays in the buffer.
WriteUnflushedKept(x) ==
  IF x.log.unflushed = << >> THEN {[x |-> x, err |-> "0"]}
  ELSE {[x |-> [x EXCEPT !.file = Appended(x, SubSeq(x.log.unflushed, 1, w.n))], err |-> w.err] :
          w \in WriteResults(Len(x.log.unflushed))}

\* The first write, of what could not be written before; err is write's error.
WriteUnflushed(x) ==
  IF x.log.unflushed = << >> THEN {[x |-> x, err |-> "0"]}
  ELSE {IF w.err = "0"
        THEN [x |-> [x EXCEPT !.file = Appended(x, SubSeq(x.log.unflushed, 1, w.n)),
                              !.log.unflushed = SubSeq(@, w.n + 1, Len(@)),
                              !.faults = @ \cup Partly(w.n, Len(x.log.unflushed))],
              err |-> "0"]
        ELSE [x |-> x, err |-> w.err] : w \in WriteResults(Len(x.log.unflushed))}

\* The second write, of new data, which is the whole of recv.
WriteNew(x, buf) ==
  IF buf = << >> THEN {x}
  ELSE {IF w.err = "0"
        THEN [x EXCEPT !.file = Appended(x, SubSeq(buf, 1, w.n)),
                       !.log.recv = SubSeq(@, w.n + 1, Len(@)),
                       !.faults = @ \cup Partly(w.n, Len(buf))]
        ELSE Closed(Consumed(Keep(x, buf, w.err), buf)) : w \in WriteResults(Len(buf))}

\* Returns -1 exactly when it has closed the file.
log_file_write(x, buf) ==
  UNION {IF w.err # "0" \/ w.x.log.unflushed # << >>
         THEN {Closed(Consumed(Keep(w.x, buf, w.err), buf))}
         ELSE WriteNew(w.x, buf) : w \in WriteUnflushed(x)}

\* Called with all that has been received.
log_io_reader(x, e) ==
  UNION {IF Opened(y) THEN log_file_write(y, y.log.recv)
         ELSE {Consumed(Keep(y, y.log.recv, y.log.open_errno), y.log.recv)} :
           y \in log_file_open(x, e)}

IfReceived(x, e) == IF x.log.recv = << >> THEN {x} ELSE log_io_reader(x, e)

\* Reads until an error: one read for what the terminal holds, one that fails
\* with EIO when nobody holds the other end and with EAGAIN otherwise.
log_read_watch(x, data, closed) ==
  IF ~x.log.io THEN {x}
  ELSE {Closed([y EXCEPT !.log.remote_closed = @ \/ closed]) :
          y \in UNION {IfReceived(z, "stale") :
            z \in IfReceived([x EXCEPT !.log.recv = @ \o data], "0")}}

\* The last attempt to write, when the log is freed.
log_flush(x, data, closed) ==
  LET rest(y) == IF y.log.io /\ ~y.log.remote_closed
                 THEN log_read_watch(y, data, closed) ELSE {y}
  IN IF x.log.unflushed = << >> THEN rest(x)
     ELSE UNION {IF ~Opened(y) THEN {y}
                 ELSE UNION {IF Opened(z) THEN rest(z) ELSE {z} :
                               z \in log_file_write(y, << >>)} :
                   y \in log_file_open(x, "0")}

\* Freeing the log: what it still buffers is gone.
log_destroy(x, data, closed) ==
  {[y EXCEPT !.log = [log_new EXCEPT !.place = "freed", !.io = FALSE]] :
     y \in log_flush(x, data, closed)}

----------------------------------------------------------------------------
(* Actions. *)

X(l) == [log |-> log[l], file |-> file[l], faults |-> faults]
RemoteClosed(l) == writers[l] = {}

Set(l, x) == /\ log' = [log EXCEPT ![l] = x.log]
             /\ file' = [file EXCEPT ![l] = x.file]
             /\ faults' = x.faults

Init == /\ log = [l \in Logs |-> log_new]
        /\ file = [l \in Logs |-> << >>]
        /\ pty = [l \in Logs |-> << >>]
        /\ out = [l \in Logs |-> 0]
        /\ writers = [l \in Logs |-> {"main"}]
        /\ disk \in Disks
        /\ log_unflushed_files = << >>
        /\ log_flushed = FALSE
        /\ faults = {}
        /\ fault = FALSE

\* The process, or a child that inherited its descriptors, writes.
Output(l) ==
  /\ writers[l] # {} /\ out[l] < MaxOut[l] /\ log[l].io
  /\ out' = [out EXCEPT ![l] = @ + 1]
  /\ pty' = [pty EXCEPT ![l] = Append(@, out[l] + 1)]
  /\ UNCHANGED <<log, file, writers, disk, log_unflushed_files, log_flushed, faults, fault>>

\* The main loop finds the terminal readable: reads all, calls the reader, and on
\* EIO the error handler, which frees the NihIo with what it has received.
ReadTerminal(l) ==
  /\ log[l].io
  /\ pty[l] # << >> \/ RemoteClosed(l)
  /\ \E x \in IfReceived([X(l) EXCEPT !.log.recv = @ \o pty[l]], "stale") :
       IF RemoteClosed(l)
       THEN Set(l, [x EXCEPT !.log.io = FALSE, !.log.remote_closed = TRUE, !.log.recv = << >>])
       ELSE Set(l, x)
  /\ pty' = [pty EXCEPT ![l] = << >>]
  /\ UNCHANGED <<out, writers, disk, log_unflushed_files, log_flushed, fault>>

\* The process exits, which closes its end of the terminal, or leaves a child
\* behind that holds it open.
Exit(l) ==
  /\ "main" \in writers[l]
  /\ \/ /\ writers' = [writers EXCEPT ![l] = {}]
        /\ UNCHANGED faults
     \/ /\ "leak" \in Faults
        /\ writers' = [writers EXCEPT ![l] = {"child"}]
        /\ faults' = faults \cup {"other"}
  /\ UNCHANGED <<log, file, pty, out, disk, log_unflushed_files, log_flushed, fault>>

ChildExits(l) ==
  /\ "child" \in writers[l]
  /\ writers' = [writers EXCEPT ![l] = {}]
  /\ UNCHANGED <<log, file, pty, out, disk, log_unflushed_files, log_flushed, faults, fault>>

\* Mutant: the test for a read-only disk is the wrong way round.
ForLaterOther(x) == /\ x.log.unflushed # << >>
                    /\ x.log.open_errno # "EROFS"
                    /\ ~log_flushed

\* log_handle_unflushed: whether the log is put on the list.
ForLater(x) == /\ x.log.unflushed # << >>
               /\ x.log.open_errno = "EROFS"
               /\ ~log_flushed

\* The daemon learns of the exit (job_process_terminated): the log is detached
\* from the job and put in front of the list, or freed.
Terminated(l) ==
  /\ log[l].place = "job" /\ "main" \notin writers[l]
  /\ \E x \in log_read_watch(X(l), pty[l], RemoteClosed(l)) :
       IF ForLater(x)
       THEN /\ Set(l, [x EXCEPT !.log.place = "list"])
            /\ log_unflushed_files' = <<l>> \o log_unflushed_files
       ELSE /\ \E y \in log_destroy(x, << >>, RemoteClosed(l)) : Set(l, y)
            /\ UNCHANGED log_unflushed_files
  /\ pty' = [pty EXCEPT ![l] = << >>]
  /\ UNCHANGED <<out, writers, disk, log_flushed, fault>>

\* The asserts on an entry of the list that has data.
BadEntry(x) == \/ x.log.place # "list"
               \/ x.log.open_errno = "0"
               \/ ~x.log.remote_closed /\ ~x.log.io

\* One entry of the list: freed unflushed data or none, or an error.
ClearOne(l) ==
  IF log[l].unflushed = << >>
  THEN {[ret |-> 0, x |-> y] : y \in log_destroy([X(l) EXCEPT !.log.io = FALSE], << >>, TRUE)}
  ELSE UNION {IF ~Opened(y) THEN {[ret |-> 1, x |-> y]}
              ELSE UNION {IF ~Opened(z) THEN {[ret |-> 1, x |-> z]}
                          ELSE {[ret |-> 0, x |-> d] : d \in log_destroy(z, pty[l], RemoteClosed(l))} :
                            z \in log_file_write(y, << >>)} :
                y \in log_file_open(X(l), "0")}

\* Mutant: entries whose log is freed stay on the list.
ClearedToKept(n, x) ==
  LET seen == {log_unflushed_files[i] : i \in {j \in 1..(n + 1) : j <= Len(log_unflushed_files)}}
  IN /\ log' = [l \in Logs |-> IF l \in seen THEN x[l].x.log ELSE log[l]]
     /\ file' = [l \in Logs |-> IF l \in seen THEN x[l].x.file ELSE file[l]]
     /\ pty' = [l \in Logs |-> IF l \in seen /\ x[l].ret = 0 THEN << >> ELSE pty[l]]
     /\ faults' = UNION ({faults} \cup {x[l].x.faults : l \in seen})
     /\ fault' = (fault \/ \E l \in seen : log[l].unflushed # << >> /\ BadEntry(X(l)))
     /\ log_unflushed_files' = log_unflushed_files
     /\ log_flushed' = (log_flushed \/ n = Len(log_unflushed_files))

\* The state after the first n entries were cleared and, unless all were, the
\* next one failed: x gives the outcome of every entry of the list.
ClearedTo(n, x) ==
  LET seen == {log_unflushed_files[i] : i \in {j \in 1..(n + 1) : j <= Len(log_unflushed_files)}}
  IN /\ log' = [l \in Logs |-> IF l \in seen THEN x[l].x.log ELSE log[l]]
     /\ file' = [l \in Logs |-> IF l \in seen THEN x[l].x.file ELSE file[l]]
     /\ pty' = [l \in Logs |-> IF l \in seen /\ x[l].ret = 0 THEN << >> ELSE pty[l]]
     /\ faults' = UNION ({faults} \cup {x[l].x.faults : l \in seen})
     /\ fault' = (fault \/ \E l \in seen : log[l].unflushed # << >> /\ BadEntry(X(l)))
     /\ log_unflushed_files' = SubSeq(log_unflushed_files, n + 1, Len(log_unflushed_files))
     /\ log_flushed' = (log_flushed \/ n = Len(log_unflushed_files))

\* control_notify_disk_writeable.
log_clear_unflushed ==
  \E x \in [Range(log_unflushed_files) -> UNION {ClearOne(l) : l \in Range(log_unflushed_files)}] :
    /\ \A l \in DOMAIN x : x[l] \in ClearOne(l)
    /\ \E n \in 0..Len(log_unflushed_files) :
         /\ \A i \in 1..n : x[log_unflushed_files[i]].ret = 0
         /\ n < Len(log_unflushed_files) => x[log_unflushed_files[n + 1]].ret = 1
         /\ ClearedTo(n, x)
    /\ UNCHANGED <<out, writers, disk>>

\* The request comes when there is something to do, or for the first time; before
\* the disk is writeable it is a fault of the caller.
NotifyDiskWriteable ==
  /\ log_unflushed_files # << >> \/ ~log_flushed
  /\ log_clear_unflushed

\* The disk is mounted, fills up, is cleaned, ...
DiskChanges ==
  /\ disk' \in Disks \ {disk}
  /\ UNCHANGED <<log, file, pty, out, writers, log_unflushed_files, log_flushed, faults, fault>>

\* logrotate removes the file under an open descriptor.
Rotate(l) ==
  /\ "rotate" \in Faults /\ log[l].fd = "open"
  /\ log' = [log EXCEPT ![l].fd = "unlinked"]
  /\ UNCHANGED <<file, pty, out, writers, disk, log_unflushed_files, log_flushed, faults, fault>>

\* log_serialise: one more attempt to write, then the record, or a placeholder
\* when there is no descriptor left to read from.
log_serialise(x) ==
  LET Written(y) == IF y.log.fd # "closed" THEN log_file_write(y, << >>) ELSE {y}
      tried == IF x.log.unflushed = << >> THEN {x}
               ELSE IF x.log.fd = "closed" THEN UNION {Written(y) : y \in log_file_open(x, "0")}
               ELSE Written(x)
  IN {IF y.log.io THEN y ELSE [y EXCEPT !.log.place = "freed"] : y \in tried}

\* log_deserialise: a new NihIo on the same descriptor, with an empty buffer.
log_deserialise(x) ==
  IF x.log.place = "freed" THEN [x EXCEPT !.log = [log_new EXCEPT !.place = "freed", !.io = FALSE]]
  ELSE [x EXCEPT !.log.recv = << >>]

\* A re-exec carries over the logs of jobs, neither the list nor log_flushed.
Reexec ==
  /\ "reexec" \in Faults \ faults
  /\ \E x \in [Logs -> UNION {log_serialise(X(l)) : l \in Logs}] :
       /\ \A l \in Logs : x[l] \in IF log[l].place = "job" THEN log_serialise(X(l)) ELSE {X(l)}
       /\ log' = [l \in Logs |-> IF log[l].place = "job" THEN log_deserialise(x[l]).log
                                 ELSE [log_new EXCEPT !.place = "freed", !.io = FALSE]]
       /\ file' = [l \in Logs |-> x[l].file]
       /\ faults' = UNION ({{"reexec"}} \cup {x[l].faults : l \in Logs})
  /\ log_unflushed_files' = << >>
  /\ log_flushed' = FALSE
  /\ UNCHANGED <<pty, out, writers, disk, fault>>

Next == \/ \E l \in Logs : \/ Output(l) \/ ReadTerminal(l) \/ Exit(l) \/ ChildExits(l)
                            \/ Terminated(l) \/ Rotate(l)
        \/ NotifyDiskWriteable \/ DiskChanges \/ Reexec

Spec == Init /\ [][Next]_vars

\* The main loop polls every descriptor and reaps every child.  The last request
\* to flush comes when the disk is there: nobody has to ask again.
FairSpec == /\ Spec
            /\ \A l \in Logs : WF_vars(ReadTerminal(l)) /\ WF_vars(Terminated(l))
            /\ WF_vars(NotifyDiskWriteable)

----------------------------------------------------------------------------
(* Properties. *)

Chunks == Nat \ {0}

TypeOK ==
  /\ log \in [Logs -> [place : {"job", "list", "freed"}, fd : {"open", "closed", "unlinked"},
                       unflushed : Seq(Chunks), recv : Seq(Chunks), io : BOOLEAN,
                       remote_closed : BOOLEAN, open_errno : Errnos]]
  /\ file \in [Logs -> Seq(Chunks)] /\ pty \in [Logs -> Seq(Chunks)]
  /\ \A l \in Logs : out[l] \in 0..MaxOut[l]
  /\ writers \in [Logs -> SUBSET {"main", "child"}]
  /\ disk \in Disks /\ log_flushed \in BOOLEAN /\ fault \in BOOLEAN
  /\ log_unflushed_files \in Seq(Logs)
  /\ faults \subseteq {"full", "reexec", "other"}

\* Everything of l that is written or may still be written, in order.
Held(l) == file[l] \o log[l].unflushed \o log[l].recv \o pty[l]

\* Whatever the disk does, a log file never holds a chunk twice and never holds a
\* later chunk before an earlier one: what is buffered comes after what is in the
\* file, and before what is still to be read (log_file_write keeps new data back
\* while older data is unflushed).
InOrder == \A l \in Logs : \A i, j \in 1..Len(Held(l)) : i < j => Held(l)[i] < Held(l)[j]

AllOf(l) == [i \in 1..out[l] |-> i]

\* As long as its terminal is open and no data was discarded for want of space,
\* every chunk of a job is accounted for: short writes, rotated files and failing
\* opens lose nothing (log_io_reader, log_file_write).
Complete == \A l \in Logs :
  log[l].place = "job" /\ log[l].io /\ {"full", "reexec"} \cap faults = {} => Held(l) = AllOf(l)

\* Output of a process that has ended is lost without any other fault only if the
\* disk was not writeable then, and had been declared writeable, or the file had
\* been opened before, so that errno is not that of a read-only disk; and output that was put on the
\* list is lost never (log_handle_unflushed, log_clear_unflushed).
EarlyOutputKept ==
  [][\A l \in Logs : log[l].place # "freed" /\ log'[l].place = "freed" /\ faults' = {}
                        /\ file'[l] # AllOf(l) =>
       /\ log[l].place = "job"
       /\ disk # "ok"
       /\ log_flushed \/ disk # "ro" \/ log[l].open_errno \notin {"0", "EROFS"}]_vars

\* Once the disk stays writeable the list empties: a request that fails on one
\* entry leaves the rest for the next one, and none is skipped for ever
\* (log_clear_unflushed).
ListDrains == <>[](disk = "ok") => <>[](log_unflushed_files = << >>)

\* A log with data in its buffer has no open file: the next attempt opens the
\* file again, so that the errno log_handle_unflushed looks at is that of the
\* attempt that failed last.
BufferedIsClosed == \A l \in Logs : log[l].unflushed # << >> => log[l].fd = "closed"

\* A log that waits on the list when the disk is declared writeable satisfies the
\* assertions of log_clear_unflushed: it has an owner's mark, an errno, and a
\* terminal that is open or known to be closed.
Faultless == ~fault

\* What reaches a log file is in order and complete, and the buffers stay in a
\* state from which the rest can follow (log_file_write, log_clear_unflushed).
LogsSound == TypeOK /\ InOrder /\ Complete /\ BufferedIsClosed /\ Faultless
=============================================================================
