-------------------------------- MODULE Disk --------------------------------
(***************************************************************************)
(* The polled ATA driver of kernel/disk.c against the drive.  The drive is *)
(* external: it works on one sector at a time, busy in between, asks for   *)
(* or offers data (DRQ), may fail at any sector, and ignores a command it  *)
(* is given while it is busy.  A sector is a value.                        *)
(***************************************************************************)
EXTENDS Integers, FiniteSets

CONSTANTS Sectors,       \* sectors of the disk, 0 .. Sectors - 1
          MaxCount,      \* bound: sectors of one request
          Values         \* contents of a sector

ASSUME DiskAssumption ==
  /\ Sectors \in Nat \ {0} /\ MaxCount \in 1 .. Sectors
  /\ Values # {}

Lbas == 0 .. Sectors - 1
Requests == {r \in [cmd : {"READ", "WRITE"}, lba : Lbas, count : 1 .. MaxCount] :
               r.lba + r.count <= Sectors}
Offsets == 0 .. MaxCount - 1

VARIABLES medium,      \* what is on the disk
          status,      \* of the drive: "idle", "busy", "drq" or "err"
          job, pos,    \* the drive's request, and the sector of it it is at
          latch,       \* the data of the sector being transferred
          req, s,      \* the driver's request, and its loop variable
          buf,         \* the caller's buffer, by offset
          pc, ret,     \* the driver: "idle" or "poll", and its last result
          heard,       \* history: whether the drive took the driver's request
          before,      \* history: the disk when the drive took its request
          given        \* history: the caller's buffer at that moment

drive == <<medium, status, job, pos, latch>>
driver == <<req, s, buf, pc, ret>>
history == <<heard, before, given>>
vars == <<drive, driver, history>>

\* Types of the registers of the drive and the locals of the driver.
TypeOK ==
  /\ medium \in [Lbas -> Values] /\ before \in [Lbas -> Values]
  /\ status \in {"idle", "busy", "drq", "err"}
  /\ job \in Requests /\ req \in Requests
  /\ pos \in 0 .. MaxCount /\ s \in 0 .. MaxCount
  /\ latch \in Values /\ buf \in [Offsets -> Values]
  /\ pc \in {"idle", "poll"} /\ ret \in {-1, 0}
  /\ heard \in BOOLEAN /\ given \in [Offsets -> Values]

SomeRequest == CHOOSE r \in Requests : TRUE
SomeValue == CHOOSE v \in Values : TRUE

Init ==
  /\ medium \in [Lbas -> Values] /\ before = medium
  /\ status = "idle" /\ job = SomeRequest /\ pos = 0 /\ latch = SomeValue
  /\ req = SomeRequest /\ s = 0 /\ buf = [i \in Offsets |-> SomeValue]
  /\ pc = "idle" /\ ret = 0
  /\ heard = TRUE /\ given = buf

-----------------------------------------------------------------------------
(* The drive *)

\* The drive has the next sector of a READ, or can take the next of a WRITE.
\* A WRITE commits the sector it was given before that.
Committed == IF job.cmd = "WRITE" /\ pos > 0
             THEN [medium EXCEPT ![job.lba + pos - 1] = latch] ELSE medium
DriveReady ==
  /\ status = "busy"
  /\ medium' = Committed
  /\ status' = IF pos < job.count THEN "drq" ELSE "idle"
  /\ latch' = IF job.cmd = "READ" /\ pos < job.count THEN medium[job.lba + pos]
              ELSE latch
  /\ UNCHANGED <<job, pos, driver, history>>
DriveFails ==
  /\ status = "busy" /\ status' = "err"
  /\ UNCHANGED <<medium, job, pos, latch, driver, history>>

-----------------------------------------------------------------------------
(* The driver *)

\* disk_read_sectors and disk_write_sectors up to the loop: ata_select_lba and
\* the command, without a look at the status.  A drive that still commits the
\* last sector of a write does not hear it.  A request for no sectors returns 0
\* at once.
Issue(r, data) ==
  /\ pc = "idle"
  /\ req' = r /\ s' = 0 /\ pc' = "poll" /\ ret' = ret
  /\ buf' = IF r.cmd = "WRITE" THEN data ELSE buf
  /\ heard' = (status # "busy")
  /\ IF status = "busy" THEN UNCHANGED <<drive, before, given>>
     ELSE /\ job' = r /\ pos' = 0 /\ status' = "busy"
          /\ before' = medium /\ given' = buf'
          /\ UNCHANGED <<medium, latch>>

Return(rc) == pc' = "idle" /\ ret' = rc

\* ata_poll when the drive reports an error.
PollError ==
  /\ pc = "poll" /\ status = "err" /\ Return(-1)
  /\ UNCHANGED <<drive, req, s, buf, history>>

\* Mutant: the loop ends one sector early.
Last_Early == s + 2 >= req.count

\* Mutant: the loop goes on for one sector too many.
Last_Late == s >= req.count

\* Whether this is the last sector of the loop.
Last == s + 1 >= req.count

\* Mutant: every sector goes to the start of the buffer.
Slot_First == 0

\* The sector of the buffer the loop is at.
Slot == s

\* ata_poll when the drive asks for data, and the transfer of a sector.  After
\* the last sector of a READ the drive is done; otherwise it is busy again.
Transfer ==
  /\ pc = "poll" /\ status = "drq"
  /\ IF req.cmd = "READ"
     THEN buf' = [buf EXCEPT ![Slot] = latch] /\ latch' = latch
     ELSE latch' = buf[Slot] /\ buf' = buf
  /\ pos' = pos + 1
  /\ status' = IF job.cmd = "READ" /\ pos + 1 = job.count THEN "idle" ELSE "busy"
  /\ s' = s + 1
  /\ IF Last THEN Return(0) ELSE UNCHANGED <<pc, ret>>
  /\ UNCHANGED <<medium, job, req, history>>

Next == \/ DriveReady \/ DriveFails
        \/ \E r \in Requests, data \in [Offsets -> Values] : Issue(r, data)
        \/ PollError \/ Transfer

Spec == Init /\ [][Next]_vars
\* The drive always answers, and the driver polls it.
FairSpec == /\ Spec /\ WF_vars(DriveReady \/ DriveFails)
            /\ WF_vars(PollError) /\ WF_vars(Transfer)

-----------------------------------------------------------------------------
(* Properties *)

Extent(r) == r.lba .. r.lba + r.count - 1

\* A request returns 0 only with all of its sectors in the buffer, or all but the
\* last of them on the disk: that one follows unless the drive reports an error
\* which nobody asks for any more.
ZeroMeansDone ==
  pc = "idle" /\ ret = 0 /\ s > 0 =>
    \A l \in Extent(req) :
      IF req.cmd = "READ" THEN buf[l - req.lba] = before[l]
      ELSE l + 1 \in Extent(req) \/ status = "idle" => medium[l] = buf[l - req.lba]

\* disk_write_sectors changes nothing outside its sectors, those to what the
\* caller's buffer has for them, and in order: when it is stopped by an error,
\* a prefix of them is new and the rest is old.  The request is the one the drive
\* is at, whatever the driver has asked for since.
WriteIsPrefix ==
  [][\A l \in Lbas : medium'[l] # medium[l] =>
       /\ job.cmd = "WRITE" /\ l \in Extent(job) /\ medium'[l] = given[l - job.lba]
       /\ \A k \in Extent(job) : k < l => medium[k] = given[k - job.lba]
       /\ \A k \in Extent(job) : k > l => medium[k] = before[k]]_vars

\* Every request the drive hears returns, after any mixture of requests and
\* errors: ata_poll's loops have no limit of their own.
Returns == [](pc = "poll" /\ heard => <>(pc = "idle"))

\* Every request returns.  Refuted by one that the drive, at the last sector of
\* a write that has already returned, does not hear.
ReturnsAlways == [](pc = "poll" => <>(pc = "idle"))

\* persistent storage (README): when disk_write_sectors has returned 0 and the
\* drive is done, the sectors are on the disk.
WriteIsDone ==
  pc = "idle" /\ ret = 0 /\ req.cmd = "WRITE" /\ s > 0 /\ status # "busy" =>
    \A l \in Extent(req) : medium[l] = buf[l - req.lba]
=============================================================================
