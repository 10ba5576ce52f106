----------------------------- MODULE DiskProofs -----------------------------
(***************************************************************************)
(* For every disk, every request and every error of the drive: a result of *)
(* 0 means what disk_read_sectors and disk_write_sectors promise           *)
(* (ZeroMeansDone), and a write changes its own sectors, in order          *)
(* (WriteIsPrefix), also when the driver, which does not look, gives the   *)
(* drive a command it is too busy to hear.                                 *)
(*                                                                         *)
(* DiskInv ties the loop variable of the driver to the sector the drive is *)
(* at, and says for each status of the drive how many sectors of a write   *)
(* are on the disk.                                                        *)
(***************************************************************************)
EXTENDS Disk, TLAPS

\* The sectors of a write the drive has committed: the one it was given last is
\* not yet on the disk while it is busy, nor after it has failed.
Written == IF status \in {"busy", "err"} THEN pos - 1 ELSE pos

\* The driver and the drive are at the same sector of the same request, unless
\* the drive did not hear the driver.
InStep == IF heard THEN job = req /\ pos = s ELSE s = 0

\* Where the drive can be while the driver polls it, and after that.
Waiting ==
  /\ pos <= job.count
  /\ pc = "poll" /\ heard => status # "idle" /\ s < req.count
  /\ pc = "idle" \/ ~heard => /\ status # "drq"
                              /\ status = "busy" => pos = job.count
  /\ pc = "idle" /\ ret = 0 /\ s > 0 => s = req.count

\* A write: what it has done, and the sector the drive is to commit.
Writing ==
  job.cmd = "WRITE" =>
    /\ \A l \in Extent(job) :
         medium[l] = IF l - job.lba < Written THEN given[l - job.lba] ELSE before[l]
    /\ status = "busy" /\ pos > 0 => latch = given[pos - 1]
    /\ heard => buf = given

\* A read: the disk is as it was, the buffer has what was read so far.
Reading ==
  job.cmd = "READ" =>
    /\ medium = before
    /\ heard => \A i \in Offsets : i < s => buf[i] = before[job.lba + i]
    /\ status = "drq" => latch = medium[job.lba + pos]

DiskInv == TypeOK /\ InStep /\ Waiting /\ Writing /\ Reading

\* What a request is.
LEMMA RequestFacts ==
  ASSUME NEW r \in Requests
  PROVE  /\ r.cmd \in {"READ", "WRITE"} /\ r.lba \in Nat /\ r.count \in 1 .. MaxCount
         /\ r.lba + r.count <= Sectors
         /\ \A l \in Extent(r) : l \in Lbas /\ l \in Nat /\ l - r.lba \in Offsets
         /\ \A i \in Offsets : i < r.count => r.lba + i \in Lbas
BY DiskAssumption DEF Requests, Lbas, Offsets, Extent

\* Initially there has been no request.
LEMMA InitInv == Init => DiskInv
<1> SUFFICES ASSUME Init PROVE DiskInv
  OBVIOUS
<1>1. SomeRequest \in Requests
  <2>1. [cmd |-> "READ", lba |-> 0, count |-> 1] \in Requests
    BY DiskAssumption DEF Requests, Lbas
  <2> QED
    BY <2>1 DEF SomeRequest
<1>2. SomeValue \in Values
  BY DiskAssumption DEF SomeValue
<1>3. TypeOK
  BY <1>1, <1>2, DiskAssumption DEF Init, TypeOK
<1>4. Writing
  <2>1. \A l \in Extent(job) : ~(l - job.lba < 0)
    BY <1>1, RequestFacts DEF Init, Extent, Offsets
  <2> QED
    BY <2>1 DEF Init, Writing, Written
<1>5. Reading
  BY DEF Init, Reading, Offsets
<1>6. Waiting
  BY <1>1, RequestFacts, DiskAssumption DEF Init, Waiting
<1> QED
  BY <1>3, <1>4, <1>5, <1>6 DEF Init, DiskInv, InStep

\* Every step of the drive and of the driver keeps the invariant.
LEMMA NextInv == DiskInv /\ [Next]_vars => DiskInv'
<1> SUFFICES ASSUME DiskInv, [Next]_vars PROVE DiskInv'
  OBVIOUS
<1>0. /\ job \in Requests /\ req \in Requests /\ pos \in 0 .. MaxCount
      /\ s \in 0 .. MaxCount /\ MaxCount \in Nat /\ pos <= job.count
  BY DiskAssumption DEF DiskInv, TypeOK, Waiting
<1>r. /\ job.cmd \in {"READ", "WRITE"} /\ job.lba \in Nat /\ job.count \in 1 .. MaxCount
      /\ job.lba + job.count <= Sectors
      /\ \A l \in Extent(job) : l \in Lbas /\ l \in Nat /\ l - job.lba \in Offsets
      /\ \A i \in Offsets : i < job.count => job.lba + i \in Lbas
  BY <1>0, RequestFacts
<1>1. CASE DriveReady
  <2>1. /\ status = "busy" /\ medium' = Committed
        /\ status' = IF pos < job.count THEN "drq" ELSE "idle"
        /\ UNCHANGED <<job, pos, req, s, buf, pc, ret, heard, before, given>>
    BY <1>1 DEF DriveReady, driver, history
  <2>2. latch' = IF job.cmd = "READ" /\ pos < job.count THEN medium[job.lba + pos]
                 ELSE latch
    BY <1>1 DEF DriveReady
  <2>3. TypeOK'
    <3>1. latch' \in Values
      BY <2>2, <1>0, <1>r DEF DiskInv, TypeOK, Offsets
    <3>2. medium' \in [Lbas -> Values]
      BY <2>1 DEF DiskInv, TypeOK, Committed
    <3> QED
      BY <2>1, <3>1, <3>2 DEF DiskInv, TypeOK
  <2>4. Waiting'
    BY <2>1, <1>0, <1>r DEF DiskInv, InStep, Waiting
  <2>5. Writing'
    <3>a. SUFFICES ASSUME job.cmd = "WRITE", NEW l \in Extent(job)
                 PROVE  medium'[l] = IF l - job.lba < pos THEN given[l - job.lba]
                                     ELSE before[l]
      BY <2>1, <1>0 DEF DiskInv, Writing, Written, Extent
    <3>1. /\ l - job.lba \in Offsets /\ l \in Lbas /\ l \in Nat
          /\ medium[l] = IF l - job.lba < pos - 1 THEN given[l - job.lba] ELSE before[l]
      BY <1>r, <2>1, <3>a DEF DiskInv, Writing, Written
    <3>2. CASE pos = 0
      BY <1>0, <1>r, <2>1, <3>1, <3>2 DEF Committed, Offsets
    <3>3. CASE pos > 0
      <4>1. latch = given[pos - 1] /\ medium' = [medium EXCEPT ![job.lba + pos - 1] = latch]
        BY <2>1, <3>a, <3>3 DEF DiskInv, Writing, Committed
      <4>2. CASE l = job.lba + pos - 1
        BY <4>1, <4>2, <3>1, <1>0, <1>r DEF DiskInv, TypeOK
      <4>3. CASE l # job.lba + pos - 1
        BY <4>1, <4>3, <3>1, <1>0, <1>r DEF DiskInv, TypeOK, Offsets
      <4> QED
        BY <4>2, <4>3
    <3> QED
      BY <1>0, <3>2, <3>3
  <2>6. Reading'
    <3> SUFFICES ASSUME job.cmd = "READ" PROVE Reading'
      BY <2>1 DEF Reading
    <3>1. medium' = medium
      BY <2>1 DEF Committed
    <3> QED
      BY <2>1, <2>2, <3>1 DEF DiskInv, Reading
  <2> QED
    BY <2>1, <2>3, <2>4, <2>5, <2>6 DEF DiskInv, InStep
<1>2. CASE DriveFails
  <2>1. /\ status = "busy" /\ status' = "err"
        /\ UNCHANGED <<medium, latch, job, pos, req, s, buf, pc, ret, heard, before, given>>
    BY <1>2 DEF DriveFails, driver, history
  <2> QED
    BY <2>1 DEF DiskInv, TypeOK, InStep, Waiting, Writing, Written, Reading, Extent, Offsets
<1>3. CASE \E r \in Requests, data \in [Offsets -> Values] : Issue(r, data)
  <2>1. PICK r \in Requests, data \in [Offsets -> Values] : Issue(r, data)
    BY <1>3
  <2>2. /\ pc = "idle" /\ req' = r /\ s' = 0 /\ pc' = "poll" /\ ret' = ret
        /\ buf' = IF r.cmd = "WRITE" THEN data ELSE buf
    BY <2>1 DEF Issue
  <2>3. buf' \in [Offsets -> Values]
    BY <2>2 DEF DiskInv, TypeOK
  <2>4. CASE status = "busy"
    <3>1. /\ heard' = FALSE
          /\ UNCHANGED <<medium, status, job, pos, latch, before, given>>
      BY <2>1, <2>4 DEF Issue, drive
    <3>b. heard' \in BOOLEAN
      BY <3>1
    <3>i. InStep'
      BY <2>2, <3>1 DEF InStep
    <3>t. TypeOK'
      BY <2>2, <2>3, <3>1, <3>b, <1>0 DEF DiskInv, TypeOK
    <3>2. TypeOK' /\ InStep'
      BY <3>i, <3>t
    <3>3. Waiting'
      BY <2>2, <2>4, <3>1, <1>0 DEF DiskInv, Waiting
    <3>4. Writing' /\ Reading'
      BY <3>1 DEF DiskInv, Writing, Written, Reading, Extent
    <3> QED
      BY <3>2, <3>3, <3>4 DEF DiskInv
  <2>5. CASE status # "busy"
    <3>1. /\ heard' = TRUE /\ job' = r /\ pos' = 0 /\ status' = "busy"
          /\ before' = medium /\ given' = buf' /\ UNCHANGED <<medium, latch>>
      BY <2>1, <2>5 DEF Issue
    <3>2. TypeOK'
      BY <2>2, <2>3, <3>1, <1>0 DEF DiskInv, TypeOK
    <3>3. Waiting' /\ InStep'
      BY <2>2, <3>1, RequestFacts, DiskAssumption DEF Waiting, InStep
    <3>4. Writing'
      <4>1. \A l \in Extent(r) : ~(l - r.lba < -1)
        BY RequestFacts DEF Offsets
      <4> QED
        BY <2>2, <3>1, <4>1 DEF Writing, Written
    <3>5. Reading'
      BY <2>2, <3>1 DEF Reading, Offsets
    <3> QED
      BY <3>2, <3>3, <3>4, <3>5 DEF DiskInv
  <2> QED
    BY <2>4, <2>5
<1>4. CASE PollError
  <2>1. /\ pc' = "idle" /\ ret' = -1 /\ status = "err"
        /\ UNCHANGED <<medium, status, job, pos, latch, req, s, buf, heard, before, given>>
    BY <1>4 DEF PollError, Return, drive, history
  <2> QED
    BY <2>1 DEF DiskInv, TypeOK, InStep, Waiting, Writing, Written, Reading, Extent, Offsets
<1>5. CASE Transfer
  <2>1. /\ pc = "poll" /\ status = "drq" /\ pos' = pos + 1 /\ s' = s + 1
        /\ status' = IF job.cmd = "READ" /\ pos + 1 = job.count THEN "idle" ELSE "busy"
        /\ IF s + 1 >= req.count THEN pc' = "idle" /\ ret' = 0 ELSE UNCHANGED <<pc, ret>>
        /\ UNCHANGED <<medium, job, req, heard, before, given>>
    BY <1>5 DEF Transfer, Last, Return, history
  <2>2. IF req.cmd = "READ" THEN buf' = [buf EXCEPT ![s] = latch] /\ latch' = latch
        ELSE latch' = buf[s] /\ buf' = buf
    BY <1>5 DEF Transfer, Slot
  <2>3. heard /\ s < req.count /\ pos = s /\ job = req /\ s \in Offsets
    <3>1. heard
      BY <2>1 DEF DiskInv, Waiting
    <3> QED
      BY <2>1, <3>1, <1>0, <1>r DEF DiskInv, Waiting, InStep, Offsets
  <2>4. TypeOK'
    <3>1. buf' \in [Offsets -> Values] /\ latch' \in Values
      BY <2>2, <2>3 DEF DiskInv, TypeOK
    <3>2. pos' \in 0 .. MaxCount /\ s' \in 0 .. MaxCount
      BY <2>1, <2>3, <1>0, <1>r
    <3> QED
      BY <2>1, <3>1, <3>2 DEF DiskInv, TypeOK
  <2>5. Waiting' /\ InStep'
    BY <2>1, <2>3, <1>0, <1>r DEF DiskInv, Waiting, InStep
  <2>6. Writing'
    <3>a. SUFFICES ASSUME job.cmd = "WRITE"
                 PROVE  /\ latch' = given[s] /\ buf' = given
                        /\ \A l \in Extent(job) :
                             medium[l] = IF l - job.lba < pos THEN given[l - job.lba]
                                         ELSE before[l]
      BY <2>1, <2>3, <1>0 DEF Writing, Written, Extent
    <3>1. buf' = buf /\ latch' = buf[s] /\ buf = given
      BY <2>2, <2>3, <3>a DEF DiskInv, Writing
    <3> QED
      BY <2>1, <3>a, <3>1 DEF DiskInv, Writing, Written
  <2>7. Reading'
    <3>a. SUFFICES ASSUME job.cmd = "READ"
                 PROVE  /\ medium = before
                        /\ \A i \in Offsets : i < s + 1 => buf'[i] = before[job.lba + i]
      BY <2>1 DEF Reading
    <3>1. medium = before /\ latch = before[job.lba + s]
      BY <2>1, <2>3, <3>a DEF DiskInv, Reading
    <3>2. ASSUME NEW i \in Offsets, i < s + 1 PROVE buf'[i] = before[job.lba + i]
      <4>1. buf' = [buf EXCEPT ![s] = latch] /\ buf \in [Offsets -> Values]
        BY <2>2, <2>3, <3>a DEF DiskInv, TypeOK
      <4>2. CASE i = s
        BY <4>1, <4>2, <3>1
      <4>3. CASE i # s
        <5>1. i < s
          BY <3>2, <4>3, <1>0 DEF Offsets
        <5> QED
          BY <2>3, <3>a, <4>1, <4>3, <5>1 DEF DiskInv, Reading
      <4> QED
        BY <4>2, <4>3
    <3> QED
      BY <3>1, <3>2
  <2> QED
    BY <2>4, <2>5, <2>6, <2>7 DEF DiskInv
<1>6. CASE UNCHANGED vars
  BY <1>6 DEF vars, drive, driver, history, DiskInv, TypeOK, InStep, Waiting, Writing,
              Written, Reading, Extent, Offsets
<1> QED
  BY <1>1, <1>2, <1>3, <1>4, <1>5, <1>6 DEF Next

\* A request returns 0 only with its sectors in the buffer, or on the disk up to
\* the last one, for every size of disk and request, whether or not the drive
\* heard the requests before it.
THEOREM ZeroAlwaysMeansDone == Spec => []ZeroMeansDone
<1>1. DiskInv => ZeroMeansDone
  <2> SUFFICES ASSUME DiskInv, pc = "idle", ret = 0, s > 0, NEW l \in Extent(req)
               PROVE  IF req.cmd = "READ" THEN buf[l - req.lba] = before[l]
                      ELSE (l + 1 \in Extent(req) \/ status = "idle")
                             => medium[l] = buf[l - req.lba]
    BY DEF ZeroMeansDone
  <2>1. heard /\ s = req.count /\ pos = s /\ job = req /\ status # "drq"
    BY DEF DiskInv, Waiting, InStep
  <2>2. /\ req.lba \in Nat /\ req.count \in Nat /\ l \in Nat
        /\ l - req.lba \in Offsets /\ l - req.lba < req.count
        /\ req.cmd \in {"READ", "WRITE"}
    BY RequestFacts, DiskAssumption DEF DiskInv, TypeOK, Extent
  <2>3. CASE req.cmd = "READ"
    <3>1. buf[l - req.lba] = before[req.lba + (l - req.lba)]
      BY <2>1, <2>2, <2>3 DEF DiskInv, Reading
    <3> QED
      BY <2>2, <2>3, <3>1
  <2>4. CASE req.cmd = "WRITE"
    BY <2>1, <2>2, <2>4 DEF DiskInv, Writing, Written, Extent
  <2> QED
    BY <2>2, <2>3, <2>4
<1> QED
  BY <1>1, InitInv, NextInv, PTL DEF Spec

\* disk_write_sectors changes its own sectors only, to what the caller's buffer
\* had for them, and the first ones first, whatever is asked of the drive while
\* it is still at them.
THEOREM WriteAlwaysPrefix == Spec => WriteIsPrefix
<1>1. DiskInv /\ [Next]_vars =>
        [\A l \in Lbas : medium'[l] # medium[l] =>
           /\ job.cmd = "WRITE" /\ l \in Extent(job) /\ medium'[l] = given[l - job.lba]
           /\ \A k \in Extent(job) : k < l => medium[k] = given[k - job.lba]
           /\ \A k \in Extent(job) : k > l => medium[k] = before[k]]_vars
  <2> SUFFICES ASSUME DiskInv, [Next]_vars, NEW l \in Lbas, medium'[l] # medium[l]
               PROVE  /\ job.cmd = "WRITE" /\ l \in Extent(job)
                      /\ medium'[l] = given[l - job.lba]
                      /\ \A k \in Extent(job) : k < l => medium[k] = given[k - job.lba]
                      /\ \A k \in Extent(job) : k > l => medium[k] = before[k]
    OBVIOUS
  <2>1. status = "busy" /\ medium' = Committed
    BY DEF Next, vars, drive, DriveReady, DriveFails, Issue, PollError, Transfer
  <2>2. /\ job \in Requests /\ medium \in [Lbas -> Values]
        /\ pos \in Nat /\ pos <= job.count
    BY DiskAssumption DEF DiskInv, TypeOK, Waiting
  <2>3. /\ job.lba \in Nat /\ job.count \in Nat
        /\ \A k \in Extent(job) : k \in Nat /\ k \in Lbas
    BY <2>2, RequestFacts, DiskAssumption
  <2>4. /\ job.cmd = "WRITE" /\ pos > 0
        /\ medium' = [medium EXCEPT ![job.lba + pos - 1] = latch]
    BY <2>1, <2>2 DEF Committed
  <2>5. l = job.lba + pos - 1
    BY <2>2, <2>4
  <2>6. l \in Extent(job) /\ medium'[l] = given[pos - 1] /\ l - job.lba = pos - 1
    BY <2>1, <2>2, <2>3, <2>4, <2>5 DEF DiskInv, Writing, Extent
  <2>7. ASSUME NEW k \in Extent(job), k < l PROVE medium[k] = given[k - job.lba]
    BY <2>1, <2>2, <2>3, <2>4, <2>5, <2>7 DEF DiskInv, Writing, Written
  <2>8. ASSUME NEW k \in Extent(job), k > l PROVE medium[k] = before[k]
    BY <2>1, <2>2, <2>3, <2>4, <2>5, <2>8 DEF DiskInv, Writing, Written
  <2> QED
    BY <2>4, <2>6, <2>7, <2>8
<1> QED
  BY <1>1, InitInv, NextInv, PTL DEF Spec, WriteIsPrefix
=============================================================================
