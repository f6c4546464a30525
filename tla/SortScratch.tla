------------------------------ MODULE SortScratch ------------------------------
(***************************************************************************)
(* The disk ledger of sorts and the directories it pays for:                *)
(* SortResources, Owner, DiskFile and recover_stale_sort_files in           *)
(* crates/leanrows-core/src/sort/storage.rs, with default_sort_directory    *)
(* and check_sort_space in crates/leanrows-win32/src/worker/sorting.rs.     *)
(*                                                                         *)
(* One ledger serves all tabs of a process. A deletion that another program *)
(* blocks moves its charge from the file to the owner of the directory and  *)
(* from there to a small queue; recovery by another process tells an owner  *)
(* that lives from a dead one by opening its lock file.                     *)
(***************************************************************************)
EXTENDS Integers, FiniteSets, Functions

CONSTANTS
    MaxProcesses,   \* processes that ever sort, a bound
    MaxOwners,      \* directories ever made, a bound: their names are unique
    Files,          \* the scratch files a sort makes in its directory
    DiskLimit,      \* disk_limit, in blocks
    PendingSlots    \* slots of the deferred-deletion queue

ASSUME SortScratchAssumption ==
    /\ {MaxProcesses, MaxOwners, DiskLimit, PendingSlots} \subseteq Nat
    /\ Files \subseteq {"map", "run"}

Processes == 1 .. MaxProcesses
Owners == 1 .. MaxOwners

\* The entries of a directory in the order a deletion visits them: the result
\* maps come before owner.lock, the run files after it.
Entries == Files \cup {"lock"}
Place == [map |-> 1, lock |-> 2, run |-> 3]

VARIABLES
    power,      \* power[p]: "off", "starting" (recovering), "on" or "ended"
    sweeping,   \* sweeping[p]: directories recovery has still to visit
    judged,     \* judged[p]: the directory whose lock it opened, if any
    disk,       \* disk[p]: the ledger's disk counter
    lost,       \* lost[p]: charges that stay until the process ends
    pending,    \* pending[p]: the queue, a charge for each of its owners
    proc,       \* proc[o]: the process that made owner o, or 0
    stage,      \* stage[o]: how far the life of owner o has come
    exists,     \* exists[o]: its directory is there
    size,       \* size[o]: the entries in it, with their sizes in blocks
    charge,     \* charge[o]: reservations of its open files
    retained,   \* retained[o]: retained_bytes
    grip        \* <<o, e>>: an entry another program holds open, or <<>>

sortVars == <<power, sweeping, judged, disk, lost, pending, proc, stage, exists,
              size, charge, retained, grip>>

Sizes == 0 .. DiskLimit
PartialSizes(S) == UNION {[T -> Sizes] : T \in SUBSET S}

SortTypeOK ==
    /\ power \in [Processes -> {"off", "starting", "on", "ended"}]
    /\ sweeping \in [Processes -> SUBSET Owners]
    /\ judged \in [Processes -> SUBSET Owners]
    /\ disk \in [Processes -> Int] /\ lost \in [Processes -> Sizes]
    /\ \A p \in Processes : pending[p] \in PartialSizes(Owners)
    /\ \A p \in Processes : Cardinality(DOMAIN pending[p]) <= PendingSlots
    /\ proc \in [Owners -> 0 .. MaxProcesses]
    /\ stage \in [Owners -> {"unborn", "bare", "live", "unlocked", "gone"}]
    /\ exists \in [Owners -> BOOLEAN]
    /\ \A o \in Owners : size[o] \in PartialSizes(Entries)
    /\ \A o \in Owners : charge[o] \in PartialSizes(Files)
    /\ retained \in [Owners -> Sizes]
    /\ grip \in {<<>>} \cup (Owners \X Entries)

Nothing == <<>>

SortInit ==
    /\ power = [p \in Processes |-> "off"]
    /\ sweeping = [p \in Processes |-> {}]
    /\ judged = [p \in Processes |-> {}]
    /\ disk = [p \in Processes |-> 0] /\ lost = [p \in Processes |-> 0]
    /\ pending = [p \in Processes |-> Nothing]
    /\ proc = [o \in Owners |-> 0]
    /\ stage = [o \in Owners |-> "unborn"]
    /\ exists = [o \in Owners |-> FALSE]
    /\ size = [o \in Owners |-> Nothing]
    /\ charge = [o \in Owners |-> Nothing]
    /\ retained = [o \in Owners |-> 0]
    /\ grip = <<>>

Held(o, e) == grip = <<o, e>>
Total(f) == FoldFunction(+, 0, f)
Without(f, S) == Restrict(f, DOMAIN f \ S)
Added(f, k, n) == [e \in DOMAIN f \cup {k} |-> IF e = k THEN n ELSE f[e]]

\* Open files of a live owner, and what they and the others occupy.
Open(o) == DOMAIN charge[o]
OnDisk(o) == Total(size[o])

-----------------------------------------------------------------------------
(* Deleting a directory.                                                     *)

\* remove_dir_all stops at the first entry it cannot delete, in their order.
Stuck(o) == {e \in DOMAIN size[o] : Held(o, e)}
Deleted(o) ==
    {e \in DOMAIN size[o] : \A s \in Stuck(o) : Place[e] < Place[s]}

-----------------------------------------------------------------------------
(* default_sort_directory: once in a process, before its first sort.         *)

FirstSort(p) ==
    /\ power[p] = "off" /\ \A q \in Processes : q < p => power[q] # "off"
    /\ power' = [power EXCEPT ![p] = "starting"]
    /\ sweeping' = [sweeping EXCEPT ![p] = {o \in Owners : exists[o]}]
    /\ UNCHANGED <<judged, disk, lost, pending, proc, stage, exists, size,
                   charge, retained, grip>>

\* A live owner has its lock file open without sharing.
LockIsOpen(o) == stage[o] = "live" \/ Held(o, "lock")
\* Faulty variant: the lock file is opened for sharing.
OpensAnyLock(o) == "lock" \in DOMAIN size[o]

LockOpens(o) == "lock" \in DOMAIN size[o] /\ ~ LockIsOpen(o)

\* recover_stale_sort_files opens the lock file of a directory and closes it.
Judge(p, o) ==
    /\ power[p] = "starting" /\ o \in sweeping[p] /\ judged[p] = {}
    /\ sweeping' = [sweeping EXCEPT ![p] = @ \ {o}]
    /\ judged' = [judged EXCEPT ![p] = IF LockOpens(o) THEN {o} ELSE {}]
    /\ UNCHANGED <<power, disk, lost, pending, proc, stage, exists, size, charge,
                   retained, grip>>

\* remove_stale_owner: owner.lock stays until the rest has gone.
StaleDeleted(o) ==
    LET files == DOMAIN size[o] \ {"lock"}
        freed == {e \in files : \A s \in files \cap Stuck(o) : Place[e] < Place[s]}
    IN  IF freed = files /\ ~ LockIsOpen(o) THEN DOMAIN size[o] ELSE freed

Sweep(p, o) ==
    /\ o \in judged[p]
    /\ size' = [size EXCEPT ![o] = Without(@, StaleDeleted(o))]
    /\ exists' = [exists EXCEPT ![o] = @ /\ DOMAIN size'[o] # {}]
    /\ judged' = [judged EXCEPT ![p] = {}]
    /\ UNCHANGED <<power, sweeping, disk, lost, pending, proc, stage, charge,
                   retained, grip>>

Recovered(p) ==
    /\ power[p] = "starting" /\ sweeping[p] = {} /\ judged[p] = {}
    /\ power' = [power EXCEPT ![p] = "on"]
    /\ UNCHANGED <<sweeping, judged, disk, lost, pending, proc, stage, exists,
                   size, charge, retained, grip>>

-----------------------------------------------------------------------------
(* The life of an owner: SortSession::new to the drop of its last file.      *)

\* What is left after remove_dir_all of each directory in S.
Remaining(S) ==
    [o \in Owners |-> IF o \in S THEN Without(size[o], Deleted(o)) ELSE size[o]]
Standing(S) ==
    [o \in Owners |-> exists[o] /\ (o \in S => Stuck(o) # {})]

\* retry_cleanup: entries whose directory is gone now, or was already.
Cleaned(p) == {o \in DOMAIN pending[p] : Stuck(o) = {}}

\* SortSession::new: the queue is retried, then Owner::create.
MakeDirectory(p, o) ==
    /\ power[p] = "on"
    /\ stage[o] = "unborn" /\ \A n \in Owners : n < o => stage[n] # "unborn"
    /\ proc' = [proc EXCEPT ![o] = p]
    /\ size' = Remaining(DOMAIN pending[p])
    /\ exists' = [Standing(DOMAIN pending[p]) EXCEPT ![o] = TRUE]
    /\ disk' = [disk EXCEPT ![p] = @ - Total(Restrict(pending[p], Cleaned(p)))]
    /\ pending' = [pending EXCEPT ![p] = Without(@, Cleaned(p))]
    /\ stage' = [stage EXCEPT ![o] = "bare"]
    /\ UNCHANGED <<power, sweeping, judged, lost, charge, retained, grip>>

\* The lock file is made; if it cannot be, the directory stays as it is.
MakeLock(o) ==
    /\ stage[o] = "bare"
    /\ \/ /\ stage' = [stage EXCEPT ![o] = "live"]
          /\ size' = [size EXCEPT ![o] = [e \in {"lock"} |-> 0]]
       \/ stage' = [stage EXCEPT ![o] = "gone"] /\ UNCHANGED size
    /\ UNCHANGED <<power, sweeping, judged, disk, lost, pending, proc, exists,
                   charge, retained, grip>>

\* DiskFile::create
MakeFile(o, f) ==
    /\ stage[o] = "live" /\ f \notin DOMAIN size[o] \cup Open(o)
    /\ size' = [size EXCEPT ![o] = Added(@, f, 0)]
    /\ charge' = [charge EXCEPT ![o] = Added(@, f, 0)]
    /\ UNCHANGED <<power, sweeping, judged, disk, lost, pending, proc, stage,
                   exists, retained, grip>>

\* Faulty variants, each a slip that one of the properties below rejects.
ForgetsCharge(o, f) == retained[o]

\* SortResources::reserve through Reservation::grow
FitsLedger(p) == disk[p] + 1 <= DiskLimit

\* DiskFile::append, allocate: a block is charged, then buffered.
Grow(o, f) ==
    /\ stage[o] = "live" /\ f \in Open(o) /\ FitsLedger(proc[o])
    /\ disk' = [disk EXCEPT ![proc[o]] = @ + 1]
    /\ charge' = [charge EXCEPT ![o][f] = @ + 1]
    /\ UNCHANGED <<power, sweeping, judged, lost, pending, proc, stage, exists,
                   size, retained, grip>>

\* The buffer is written out: the file grows to what was charged.
WriteOut(o, f) ==
    /\ f \in Open(o) /\ size[o][f] < charge[o][f]
    /\ size' = [size EXCEPT ![o][f] = charge[o][f]]
    /\ UNCHANGED <<power, sweeping, judged, disk, lost, pending, proc, stage,
                   exists, charge, retained, grip>>

\* Drop for DiskFile: the charge of a file that stays moves to the owner.
KeptCharge(o, f) == retained[o] + charge[o][f]

DropFile(o, f) ==
    /\ f \in Open(o)
    /\ IF f \in DOMAIN size[o] /\ ~ Held(o, f)
       THEN /\ size' = [size EXCEPT ![o] = Without(@, {f})]
            /\ disk' = [disk EXCEPT ![proc[o]] = @ - charge[o][f]]
            /\ UNCHANGED retained
       ELSE /\ size' = [size EXCEPT ![o] = [e \in DOMAIN @ |->
                            IF e = f THEN charge[o][f] ELSE @[e]]]
            /\ retained' = [retained EXCEPT ![o] = KeptCharge(o, f)]
            /\ UNCHANGED disk
    /\ charge' = [charge EXCEPT ![o] = Without(@, {f})]
    /\ UNCHANGED <<power, sweeping, judged, lost, pending, proc, stage, exists, grip>>

\* Drop for Owner: the lock is released, then the directory removed.
Unlock(o) ==
    /\ stage[o] = "live" /\ Open(o) = {}
    /\ stage' = [stage EXCEPT ![o] = "unlocked"]
    /\ UNCHANGED <<power, sweeping, judged, disk, lost, pending, proc, exists,
                   size, charge, retained, grip>>

\* defer_cleanup: with no free slot, or no memory for one, the charge stays.
Defer(p, o) ==
    \/ /\ Cardinality(DOMAIN pending[p]) < PendingSlots
       /\ pending' = [pending EXCEPT ![p] = Added(@, o, retained[o])]
       /\ UNCHANGED lost
    \/ /\ lost' = [lost EXCEPT ![p] = @ + retained[o]]
       /\ UNCHANGED pending

DropOwner(o) ==
    LET p == proc[o] IN
    /\ stage[o] = "unlocked"
    /\ stage' = [stage EXCEPT ![o] = "gone"]
    /\ size' = Remaining({o}) /\ exists' = Standing({o})
    /\ IF exists[o] /\ Stuck(o) = {}
       THEN disk' = [disk EXCEPT ![p] = @ - retained[o]] /\ UNCHANGED <<lost, pending>>
       ELSE /\ IF retained[o] # 0 THEN Defer(p, o) ELSE UNCHANGED <<lost, pending>>
            /\ UNCHANGED disk
    /\ retained' = [retained EXCEPT ![o] = 0]
    /\ UNCHANGED <<power, sweeping, judged, proc, charge, grip>>

\* The process exits or crashes; Windows closes its handles.
EndProcess(p) ==
    LET own == {o \in Owners : proc[o] = p} IN
    /\ power[p] \in {"starting", "on"}
    /\ power' = [power EXCEPT ![p] = "ended"]
    /\ sweeping' = [sweeping EXCEPT ![p] = {}]
    /\ judged' = [judged EXCEPT ![p] = {}]
    /\ disk' = [disk EXCEPT ![p] = 0] /\ lost' = [lost EXCEPT ![p] = 0]
    /\ pending' = [pending EXCEPT ![p] = Nothing]
    /\ stage' = [o \in Owners |-> IF o \in own THEN "gone" ELSE stage[o]]
    /\ charge' = [o \in Owners |-> IF o \in own THEN Nothing ELSE charge[o]]
    /\ retained' = [o \in Owners |-> IF o \in own THEN 0 ELSE retained[o]]
    /\ UNCHANGED <<proc, exists, size, grip>>

\* Another program opens an entry without sharing, for a while.
Grip ==
    /\ grip = <<>>
    /\ \E o \in Owners : \E e \in DOMAIN size[o] :
          ~ (e = "lock" /\ stage[o] = "live") /\ grip' = <<o, e>>
    /\ UNCHANGED <<power, sweeping, judged, disk, lost, pending, proc, stage,
                   exists, size, charge, retained>>

LetGo ==
    /\ grip # <<>>
    /\ grip' = <<>>
    /\ UNCHANGED <<power, sweeping, judged, disk, lost, pending, proc, stage,
                   exists, size, charge, retained>>

SortSteps(p) ==
    \/ FirstSort(p) \/ Recovered(p) \/ EndProcess(p)
    \/ \E o \in Owners : Judge(p, o) \/ Sweep(p, o) \/ MakeDirectory(p, o)

OwnerSteps(o) ==
    \/ MakeLock(o) \/ Unlock(o) \/ DropOwner(o)
    \/ \E f \in Files : MakeFile(o, f) \/ Grow(o, f) \/ WriteOut(o, f) \/ DropFile(o, f)

SortNext ==
    \/ \E p \in Processes : SortSteps(p)
    \/ \E o \in Owners : OwnerSteps(o)
    \/ Grip \/ LetGo

ScratchSpec == SortInit /\ [][SortNext]_sortVars

-----------------------------------------------------------------------------
Owned(p) == {o \in Owners : proc[o] = p}

\* What an owner still pays for: its open files, and what stayed of the others.
Bill(o) == Total(charge[o]) + retained[o]

LedgerCoversDisk(p) ==
    Total([o \in Owned(p) |-> OnDisk(o)]) <= disk[p] /\ disk[p] <= DiskLimit

LedgerIsExact(p) ==
    disk[p] = Total([o \in Owned(p) |-> Bill(o)]) + Total(pending[p]) + lost[p]

\* The ledger never counts less than the process has on the disk, whatever
\* deletions were blocked, deferred or retried, and never passes its limit; and
\* every charge is held exactly once, by an open file, an owner, the queue or
\* the part that stays until exit: nothing is refunded twice or forgotten.
LedgerIsSound ==
    \A p \in Processes : power[p] = "on" => LedgerCoversDisk(p) /\ LedgerIsExact(p)

\* Recovery by another process never deletes a file of an owner that lives.
LiveFilesStay ==
    \A o \in Owners : stage[o] = "live" =>
        exists[o] /\ Open(o) \cup {"lock"} \subseteq DOMAIN size[o]

=============================================================================
