# A TLA+ model of nmfs

nmfs is a file system over Ceph RADOS with FUSE clients and one manager.  The
clients share the metadata: each directory has at most one *leader*, a client
that holds a lease for it, keeps the directory in its memory, serves the other
clients by RPC and writes the directory back through a journal.  This directory
holds a model of it in TLA+, the TLC configurations that check the model on
small instances, and proofs for TLAPS.

## The system

| Part | State | Operations | Talks to |
|---|---|---|---|
| Lease service, `src/manager/lease` | directory to (due date, leader), in memory only | `acquire`: lookup, then `cas` or insertion | lease clients, by gRPC, one handler thread per call |
| Lease client, `src/client/lease` | directory to (due date, is it mine) | `acquire`, `is_valid`, `is_mine` | called by the directory table |
| Session service, `src/manager/session`, `src/client/client` | the next client identifier, in memory and in an object | `mount`, `umount` | gRPC; the metadata pool |
| Directory table, `src/client/in_memory` | the dentry tables this client knows, local or remote | lease, look up, add and delete a table | lease client, metadata pool |
| Local operations, `src/client/fs_ops/local_ops.cpp` | none of their own | create, unlink, mkdir, rmdir, rename, chmod, write, ... | dentry tables, journal |
| Remote operations and RPC, `src/client/rpc`, `remote_ops.cpp` | the requests | the same, served by the leader; `ENOTLEADER` makes the caller look for the leader again | other clients |
| FUSE operations, `fuse_ops.cpp` | none | choose local or remote, retry | all of the above |
| Journal, `src/client/journal` | the open transaction of each directory, eight queues, the journal objects | `mkself` ... `chreg`; the commit thread; the checkpoint threads; shutdown | metadata pool |
| Object striping, `src/lib/rados_io` | none | read, write, truncate over fixed-size objects | RADOS |

What is hard here: the two unsynchronised halves of the lease table's `acquire`;
leases that run out while information about them is under way; manager
restarts; operations that record a change in a transaction which the commit
thread takes at any moment; checkpoints of one directory that must stay in
order over several threads; shutdown; file data that clients write in pieces,
outside the leader's locks; directories whose leader changes while operations
on them are under way, of which some span two directories and two clients;
handles that outlive the lease, or the name, they were opened under.  `PROJECT.json` lists these hazards at
their source lines with the properties that cover them.

## The modules

| Module | Models | Kind |
|---|---|---|
| `Leadership` | what the lease service promises | abstract specification |
| `Lease` | lease table, lease client and the RPC between them | component pair |
| `LeaseRestart` | `Lease`, and a manager that dies and is started again | extension |
| `LeaseProofs` | proofs about `Lease` and `LeaseRestart` | TLAPS |
| `Session` | session service and client constructor | component pair |
| `SessionProofs` | proofs about `Session` | TLAPS |
| `Journal` | local operations, journal, commit and checkpoint threads, metadata pool | component |
| `JournalProofs` | types, write-ahead and shutdown of `Journal` | TLAPS |
| `CheckpointProofs` | the order of `Journal`'s transactions, and the names they carry to the pool | TLAPS |
| `InodeProofs` | the checks inside a transaction of `Journal`, and the inodes it carries to the pool | TLAPS |
| `FileData` | the contents of a file: striping, local and remote write, truncate, unlink and read | component |
| `FileDataProofs` | proofs about `FileData` | TLAPS |
| `Directory` | directory tables, leases that run out, the operations on names, local and by RPC, and their retries | composition |
| `DirectoryProofs` | types and agreement of `Directory`, and what becomes of its entries and files | TLAPS |
| `OpenFiles` | file handles and attributes: the operations on one file, local and by RPC | composition |
| `OpenFilesProofs` | proofs about `OpenFiles` | TLAPS |
| `MCLease`, `MCLeaseRestart`, `MCSession`, `MCJournal`, `MCFileData`, `MCDirectory`, `MCOpenFiles` | constants and symmetry for TLC | instances |

The modules also hold definitions marked as slips (`CasAnybody`,
`CommitUnwritten`, ...).  No action uses them.  Each is a plausible mistake in
one definition, put in its place to see that a property notices.

### Lease

`entry` is the manager's map, `tab` the clients' maps, `call` the RPCs under
way and `cur` the one each client waits for.  Time is a counter, `now`, the
manager's clock; client c reads `now + Skew[c]`.

An `acquire` is the steps `Acquire` (client), `Lookup` (shared lock), then `Cas`
(the entry's lock) or `Insert` (unique lock), then `Receive` (client).  Between
`Lookup` and what follows it the table is unlocked, as in `lease_table::acquire`,
so three calls race freely.  A failed RPC (`RpcFail`) leaves its request, handler
or answer alive; `Drop` loses what nobody waits for; `Remount` restarts a client
with an empty table.  A client has one call at a time because every caller of
`lease_client::acquire` holds `directory_table_mutex`.

The assumption on clocks, `SkewAssumption`: no client's clock is *behind* the
manager's.  Due dates are absolute and are compared with each machine's own
`system_clock`; with a client behind, two clients lead at once for as long as
the clocks differ, and nothing in the code prevents it.

### Session

A handler holds `session_impl::m` from `Pick` to `Store`; the RPC may fail and
the manager may die between any two steps.  `id` is the answer as the client
got it, `used` a history of the identifiers clients were mounted under.

### Journal

One leader.  The memory is `mem` (dentry tables), `inode` (attributes and times
as counters of changes) and `alive`; an operation changes it in one step, under
its locks, and leaves the journal calls it makes in `todo`.  Each call is
`GetEntry` (find or insert the open transaction), then `Record` or, when the
commit thread has sealed that transaction meanwhile, `Retry`.  The
transactions of a directory are a sequence `txs[d]` and pointers are indices
into it; `open` is `journal_table::map`.

`lock` stands for the mutexes of `local_ops.cpp` and for the kernel's locks on
the directory and the target, under which FUSE calls the local operations.  The
operations served by RPC are not under the kernel's locks; they are not in this
module.

`Rename` is `local_rename_same_parent`, `RenameAway` the two halves of a rename
between directories, `local_rename_not_same_parent_src` and `_dst`.  It journals
the removal with one directory and the entry and the inode with another, whose
transactions may go to another checkpoint thread.  A transaction of the first
that still has the file's inode (`Carries`) may then write it over the newer one;
`moved` is a history of the files this can happen to.

The commit thread: `ReplaceMap`, then `Commit` and `Issue` for every transaction
taken, in any order; `Leave` when it sees `stopped`.  A checkpoint thread:
`Dispatch`, then `SyncRemoved`, or `SyncLoad` and `SyncSave`, then `Clear`.  An
exception that nothing catches sets `failed`, after which the process does
nothing more.

A record in a journal object keeps the number of the transaction and two
things from the front of it: whether its size is intact and its valid bit.
The bytes of the rest are left out, and so is `journal::check`, which would read
them and which nothing calls.  The contents of files are in `FileData`.
Left out are symbolic links (like a regular file for the journal, but
`local_symlink` does not touch the parent's times) and `mvdir` and `mvreg`, which
nothing calls.

### FileData

One file: its objects `obj`, the `size` in the leader's inode, and the operation
each process is in (`op`, `job`).  Every call to RADOS is a step: the stats that
look for the end of the data (`Stat`), the filling of a hole (`ZeroFill`), the
buffer object by object (`Put`), the cut (`Cut`), the stat and the removal of
each object behind it (`ReapStat`, `ReapDrop`), an unlink's removals (`Wipe`), a
read's objects (`ReadObj`).  Bytes are tagged with their writer and their place
in its buffer, and `file` is a history of what the finished operations make of
a plain file.

A thread of the leader (`Local`) runs `local_write` and the like: it takes the
inode's mutex, works, sets the size, unlocks (`Finish`).  Any other process is a
client that sends an RPC; the handler (`rpc_write`, `rpc_truncate`) sets the size
in one step, and the client then works on the objects with no lock at all.
`rpc_unlink` works on the leader, under the mutex of the directory only.  On
the leader `mutex` also stands for the kernel's lock on the file, which keeps
an unlink from a write of the same machine.  A `local_unlink` therefore has it in
the model, though not in the code, and does not keep a handler from setting the
size (`Unlocked`).

`Open` is an open with `O_TRUNC`, on the leader or served by it.  Both set the size
to 0, journal it, and touch no object: the data stays, and size and data disagree
until a truncation.  `uncut` is a history of that, `retaken` of an open that did so
while the file was being changed, so that the next append is placed among those
under way.

`Crash` is another client that dies, or whose RPC fails (the exception for
`ENEEDRECOV` ends it).  `LeaderCrash` ends the leader with its threads and
handlers; the next leader's inode has whatever size was checkpointed last.
The leader otherwise stays the same: `ENOTLEADER` is in `Directory` and
`OpenFiles`.  No operation begins on a file whose name is gone.
`torn` is a history: a truncation or a removal has been under way together with
another change, or has died.  The code orders nothing then (a remote truncation
sets the size first and cuts later), and `SizeIsLength`, `NoHoles` and
`AppendsDisjoint` make no promise.

### Directory

Several clients and a tree of two levels: the root, directories in it, files in
any of them.  The lease service is `Leadership` in one variable, `leader`; the
journal of a client is, per directory, what it has recorded and not yet
checkpointed (`pend`); `pool` is the objects.  `table[c][d]` is c's valid dentry
table of d: none, `LOCAL` with the entries, or `REMOTE` with the leader's address.
An expired table is dropped by `Lapse`, with the lease; in the code it is erased
by the next `get_dentry_table`.  Whoever has been handed it before, and waits for
its `dentry_table_mutex`, goes on with it: `op[c].old` has the tables the client
at work has dropped since it could have fetched them for c's operation (`Onwards`),
and `late_op` does the change on one of them.

An operation is begun by the kernel (`create`, `symlink`, `unlink`, `readdir`,
`mkdir`, `rmdir`, `rename`), which has looked the names up before.  Then:

* `path_traversal` looks the parent up, once per path, taking leases and loading
  tables on its way; `rmdir_find` does the same for the target of an `rmdir`;
* `local_op`, or `remote_op` at the address found, does a change: the handler's
  table work and journal calls, one step for each time it locks
  `dentry_table_mutex`.  Most handlers lock it once.  A rename locks it to look its
  file up (`rpc_rename_lookup`), and again to take the old name away, phase `take`,
  when another file, or none, may have the name; both times it uses the table it
  fetched at first (`HoldsOld`).  The handlers are operators on the entries
  (`rpc_create`, ...); the local operations do the same to a table;
* `late_op` is the same for a table dropped since it was fetched;
* `find_remote_dentry_table_again` answers `ENOTLEADER`, `need_recov` a dead server;
  a rename between directories and an `rmdir` go on to their second half
  (`After`), a `mkdir` to the lease of the new directory
  (`lease_dentry_table_mkdir`).

Besides, leases run out, journals are checkpointed, another thread looks a path
up (`getattr`), requests and replies are lost, processes die and mount again.  A
lease request that comes second at the insertion of a directory's first lease is
refused with the requestor's own address (`acquire_behind`; `fresh` is the
directories without an entry at the manager).  Whoever asks that table asks
itself (`Hangs`), with the table's mutex held that its own server needs: the
operation is `stuck` for good.
Exceptions are followed to where they are caught: `inode::no_entry` is `ENOENT`,
a `runtime_error` ends the process (rename returns `ENOSYS`), one inside a handler
is a failed request.  A handler that runs with a `REMOTE` table is `Misuse`.

`truth` is a history of what the changes done so far make of each directory, and
`spoilt` the directories hit by one of the failures and races the properties
except: loaded while changes were still in somebody's journal, a process dead
with such changes, two operations making one name, an entry removed by a client
that does not lead, an operation that worked on a table dropped meanwhile, a new
directory led by somebody else before its maker, a
making or removal that stopped halfway.  `crossed` is the files that a rename
moved when they were no longer under the name it had looked up.  Each excuse
is one line of `Settle`, `Change`, `Misuse`, `Overtaken` or
`lease_dentry_table_mkdir`.

What this abstracts: a lookup is one step per path, its leases and RPCs included.
A mutex held across an RPC is modelled only where the RPC comes back to its own
client; other threads that wait for the mutex of one that is stuck go on in the
model, or wait at their next step.  A handler whose caller has given up and
moved on runs before that or not at all.  A handler that has a dropped table
leaves it to nobody: two late operations on one dropped table each see it as it was
when it was dropped.  `acquire_behind` may answer later than the manager does, as long as
the lease it lost to runs.

### OpenFiles

One directory.  A handle (`ref[c]["fh"]`) opened by the leader is a pointer to the
inode in its table; when the lease is lost (`Lapse`) it keeps the inode as it was
then.  A handle opened by another client is a remote inode: file name and
leader's address, shared with the operation that retries on it.  Operations by
path or by handle run as `local_op` on a pointer or as `remote_op` at the address,
where the leader finds whatever is now under the name.  A client that does not
lead works on an empty remote inode and journals it for a directory whose number
it never set; the checkpoint of that may end it (`CheckpointStray`).  Names change
in one step each (`unlink`, `rename`, `create`), attributes are small values.  An
operation fetches its table and changes the inode in one step: the request that
waits for a mutex while the lease runs out, and the rename that unlocks between
lookup and removal, are in `Directory` only.

## The runs

| Run | Instance | Result |
|---|---|---|
| `lease` | 2 clients, one a tick ahead; 1 directory; 3 calls; period 2; time to 4 | `TypeOK`, `LeaseExclusive`, `ValidAgrees`, `DueBounded`, `RunningLeaseStays`, `ImplementsLeadership` hold |
| `lease_restart` | 2 calls, time to 5, 1 restart | `ExclusiveAfterGrace` holds |
| `session` | 3 clients, 5 identifiers, 2 restarts | `TypeOK`, `FreshId` hold |
| `journal` | 2 queues, 2 workers, 3 operations; 2 directories with 1 file and 1 name, or 1 directory with 2 of each; 4 operations when a file goes to the other directory | `NamesKept`, `InodesKept`, `NoLogicError`, `WriteAhead`, `DrainedAtExit` hold |
| `journal_live` | 2 directories, 1 file, 1 name, 1 worker, 2 operations | `TypeOK`, `EventuallyCheckpointed`, `ShutdownEnds` hold |
| `journal_mkself_race` | the same, 2 workers | `DentryObjectFound` fails |
| `file_local` | 2 threads of the leader, all operations, objects of 2 bytes, 5 bytes, buffers to 2, 3 operations | `TypeOK`, `StripedIsFlat`, `SizeIsLength`, `ReadsFile`, `FillsHolesOnly`, `OperationsEnd` hold |
| `file_remote` | 1 thread of the leader, 2 clients, everything but read, 4 bytes, buffers to 2, 3 operations, 1 crash | `SizeIsLength`, `NoHoles`, `AppendsDisjoint` hold |
| `file_race` | 2 clients, append | `FillsHolesOnly` fails |
| `dir` | 3 clients, root and 2 directories, 2 files, 2 names, 2 changes and a failure or lookup | `Agreement`, `Loads`, `NoDoubleLink`, `FileKept` hold |
| `dir_live` | 2 clients, root and 1 directory, 1 file, 2 names, 2 changes or failures and lookups instead | `TypeOK`, `OperationsEnd` hold |
| `open_files` | 3 clients, 2 files, 2 names, attributes 0 and 1, 5 units of work | `TypeOK`, `AttributesKept`, `NameHolds` hold |

### What the failing runs show

* `journal_mkself_race`: `mkdir` has called `get_entry` for the new directory and
  not yet `tx->mkself`.  The commit thread takes the empty transaction; its
  checkpoint looks for a dentry object that has never been written and throws
  in a thread where nothing catches it.  In `NamesKept` and the other properties
  the dead process is excused (`Running`).
* `file_race`: the leader places two appends one behind the other.  The second
  client looks for the end of the data and finds it in front of both; the first
  client writes; the second fills the "hole" and zeros the first one's bytes.
  Both calls return success.

Seen while modelling, without a failing run of their own:

* Two handlers miss a directory in the lookup of the lease table.  The second one
  to insert finds the first's entry and answers -1 with the requestor's own
  address, although `lease_table.hpp` says that it "is changed to the address of
  the current leader".  The client then has a remote table that names itself.  An
  operation that asks it holds the table's mutex while its own server waits for
  it, with no deadline: it never returns (the exception of `OperationsEnd`).
* The rename handlers, and their local counterparts, unlock between looking the
  file up and taking the old name away, ignore that the name may be gone, and
  enter the file under the new one.  Two renames of a file to different names both
  succeed and leave it under both (`crossed`, the exception of `NoDoubleLink`); a
  file that took the old name in between loses it (an exception of `FileKept`).
* An operation that has its table works on it after the lease has run out.  When
  the next leader has loaded the directory by then, its table and the pool differ
  (`spoilt`, in `Change`).
* An open with `O_TRUNC` sets the size to 0 and cuts no data.  What a later write
  leaves of the old data is part of the file again, in front of it and, for a
  read, which does not look at the size, behind it.
* When a file goes to another directory while a transaction of the one it leaves
  still has its inode to checkpoint, that may come last and put the older inode
  back (`moved`, the exception of `InodesKept`).
* Between the entry of a new directory and its maker's `acquire` another client
  may look it up and get the lease; the maker then dies of "New directory should
  have local dentry table" (`directory_table.cpp:124`).
* When the objects of a removed directory go before its entry's removal is
  checkpointed, and the parent's leader changes or dies, the parent can never be
  loaded again; nor can it after a remote `mkdir` whose caller died before its
  first checkpoint (`Loads` says when not).
* A caller that becomes the leader while it retries takes the empty address of
  its own table, finds nobody there and ends.
* `rpc_readdir` never sends its `ENOTLEADER`: the listing is empty.  Lookups on the
  way to a file are not retried at all: a leader change ends the process.
* Within a period of a restart of the manager two clients may hold unexpired
  leases for a directory (`ExclusiveAfterGrace` says how long); a comment in
  `lease_client.hpp` tells callers to trust their own.
* When the client identifiers run out everybody gets -1, with status OK.
* `transaction::checkpoint` clears the first byte of the record, the low byte of its
  size, and not the valid bit.
* A client that dies between `truncate_obj` and the last removal of
  `rados_io::truncate` leaves an object behind a gap.  The next write in front of
  it takes the start of the gap for the end of the file, and what had been cut
  off comes back.

### Bounds

* `Period` = 2 and `MaxTime` = 4: a lease is granted, runs out, and its successor
  runs out; a call can be delayed across either.  Three calls: one is abandoned
  in the manager while its client's next and the other client's race.
* `Limit` = 6 leaves identifiers for every mount of two crashes.
* `MaxOps`: with three operations a directory is made, filled and emptied, or made
  and removed while the root changes, and a name is created, replaced and
  removed, in every distribution over transactions.
* `MaxRetries` = 1: the commit thread overtakes one call at most once, so a call's
  retry succeeds.  Cycles are five seconds apart (`JOURNALING_PERIOD_MS`), a call
  takes microseconds.  Without the bound, each retry leaves another empty
  transaction and there are infinitely many states.
* In `journal` the constraint `OneKind` leaves out the states in which there are
  both a second directory and a second name or file, except that one file may go
  from one directory to the other under two names, when one operation ends before
  the next, the commit thread overtakes no call, and no directory has more than
  two transactions.  A fourth operation is only for such a file: it is made,
  moved, changed where it is now, and moved again or changed again.  With a
  second directory the commit thread overtakes no call of the third operation,
  and no directory gets a fourth transaction after it.
* `Directory`: `MaxWork` = 5 allows two changes (2 each) and one lookup, lost
  message or crash (1 each), or one change and three of these; leases run out
  and journals are checkpointed without limit.  Two changes meet in every way
  (two renames, `mkdir` and a `create` in it, `rmdir` against `create`) while the
  leaders of both directories change.  The third client is needed for a request
  to a client that knows another leader.  There are three starts: a directory with
  a file, an empty one, and one with two files.  In `dir` (`LessWork`) the second has
  two units of work less and no `mkdir`; from the third two renames meet, on the
  names of the two files, which is what it takes for one to be overtaken between
  its two locks by a file that has its old name; from the first a rename meets
  another operation or two failures, not both at once, and never a rename.  A
  `symlink`, which enters a name as `create` does, and a `readdir` meet a failure and
  no second operation.  `dir_live` has one directory and one file, and `MaxWork` = 4;
  the types are checked there, by proof for every instance.
* `OpenFiles`: changes of attributes cost 2, all else 1.  Five units are a lookup
  that makes a leader, an open, the next leader, and a change through the old
  handle.  The fifth unit is not used where the owner or the times have changed
  (`Representative`): `chown` and `utimens` differ from `chmod` in the field only.
* `FileData`: objects of 2 bytes and a file of 5 give three objects, the last one
  partial, every alignment of offset and end, holes over a whole object and
  buffers over a boundary.  Three operations: the first makes the
  data, the other two race, or a third reads what two made.  In `file_remote`,
  where three processes and crashes multiply, 4 bytes still put a hole over a
  whole object and into the next; it stops where `torn` is set (`Whole`), after
  which its properties promise nothing.

Symmetry is used for RPC slots, clients, threads, workers, names and files,
never in a run with liveness properties.  The journal runs do not check for deadlock:
after a shutdown, or after an exception, there is nothing left to do.  Nor do the
file, directory and open-file runs: when the operations are used up everybody
is idle.

### Fairness

`journal_live` assumes weak fairness of each thread: a worker in a journal call,
the commit thread and each checkpoint thread continue when they can.  They are
plain `std::thread`s whose waits are the timed sleep of the commit thread and the
condition variable of a queue, which is modelled by the guard of `Dispatch`.  No
operation and no shutdown is assumed to happen.  `EventuallyCheckpointed` makes
an exception for what is journaled when the shutdown begins: the commit thread
leaves its loop without another cycle, and that is lost.

`file_local` assumes, for `OperationsEnd`, weak fairness of each process within an operation: a FUSE
thread between two calls to RADOS, each of which returns.  No operation is
assumed to begin.  A process waits for the mutex only before its operation
begins, so `OperationsEnd` is about the loops.

`dir_live` assumes weak fairness of a client within an operation, that a lease
runs out (it has a due date and is never renewed before it), and strong
fairness of a request at a server that can serve it.  The last is what keeps a
caller from asking for the leader for ever: a lease is two hundred thousand
seconds long, so that not every request comes just after one has run out.
`OperationsEnd` has one exception, an operation that is `stuck` asking its own
client as the leader: nothing in the code ends it.

## The proofs

All for any sets of clients, directories, names and workers, any period and
any bounds.

* `LeaseProofs`.  The inductive invariant `IInv` adds to `TypeOK` that an absent
  entry has no due date, that a client waits only for calls of its own, and
  that a lease which has not expired *by the manager's clock* agrees with the
  manager's table, in a client's table (`TableAgrees`) and in an answer on its way
  (`AnswerAgrees`).  The last one is what the race needs: whatever an abandoned
  call was told stays true until it expires, because a running entry never
  changes.  From it: `ValidAgrees`, `LeaseExclusive`, `RunningLeaseStays`, and the
  refinement of `Leadership`; `DueBounded` with a small invariant of its own.
  The clock assumption is used once, to get from a client's clock to the
  manager's.
  `ExclusiveAfterGrace` of `LeaseRestart`, for any number of restarts: `IInv` does not survive one: clients still have leases the new manager knows
  nothing of.  All of these end by `bootTime + Period` (`DueBounded`), so the same
  agreement is stated of the leases with a later due date only
  (`RecentTableAgrees`, `RecentAnswerAgrees`), and a period after the start there
  are no others.
* `SessionProofs`.  `TypeOK` and `FreshId`.  Every identifier in an answer or in
  the history is below the stored counter, which is never above the one in
  memory; those in answers are pairwise different and not in the history.
* `JournalProofs`.  `TypeOK`, `WriteAhead` and `DrainedAtExit` from one inductive
  invariant, `IInv`.  `Pointers` gives the ranges of the indices that stand for
  pointers.  `WrittenFirst`: whatever the commit thread is about to issue, is in
  a queue or at a checkpoint thread is sealed and in the journal object, with
  its number in the record its offset names; types need it too, because a
  checkpoint thread follows that offset.  `StopIsLast`: an end marker has nothing
  behind it, and a thread that took one has an empty queue.  `NoneForgotten`: a
  committed transaction is checkpointed, about to be issued, in the queue its
  directory hashes to, or at that queue's thread.  Steps that move no
  transaction are covered by one lemma, `QuietStep`.
* `CheckpointProofs`.  `NamesKept`, from three invariants.
  `Order`: done, at work, queued, taken or open, a directory's transactions are
  further on the older they are, each waits in its own directory's queue, and
  only what the commit thread has still to seal is not sealed.  So a checkpoint
  thread works on the oldest that is left (`OldestFirst`).
  `Logged`: a call that records a change of a directory is made with its mutex
  (`Locked`), so nobody puts a name into a newer transaction than the one a caller
  has got (`NothingNewer`), though the commit thread may take that one at any
  moment; and for each name there is a chain (`NameLogged`): what the newest
  transaction that mentions it says is what the next call about it found, each
  call finds what the one before leaves, and the last leaves what is in memory.
  `Pooled`: the applied transactions, which are those done and the one whose
  checkpoint has reached its clearing, say what the dentry object says (`InPool`).
  A checkpoint thread between its read and its write has read that object
  (`Loaded`), and before a directory's first transaction is applied it has none
  (`Births`, `Making`), which is why the missing object of a new directory does not
  count.  A log is a function from numbers to words; `LogTop`, `LogWrite`,
  `LogSplit` and `PathTail` are about any log and any chain of calls.
  All three hold while the process runs: after an uncaught exception nothing does.
* `InodeProofs`.  `NoLogicError` and `InodesKept`, from `Order`, `Logged` and `Pooled`
  and three more invariants.
  `FilesLogged`: two workers never have a call about the same file of a directory
  (`FileLocked`), a file is named in at most one directory, once, and unless it has
  `moved` no other directory has its inode to write, in a transaction or by a call
  under way (`OneHome`, `Bound`), and for each file there is the
  chain that `Logged` has for each name: whether the newest transaction that has
  the file has it as deleted is what the next call about it expects, and the last
  call leaves what the table says.  A call that would throw contradicts the chain:
  the transaction it has got is the newest that mentions the name or the file
  (`FirstFinds`, `HeldSays`).
  `SelvesLogged`: with no call about a directory left, the newest copy of its inode
  is the one in memory; while calls are left that only stamp times on a copy that
  may be there already, that copy has the attributes of the one in memory
  (`SameAttr`).  A change of attributes is made with the directory's mutex, so it
  waits for those calls, and goes with a whole copy.
  `InodesPooled`: the inode objects have what the applied transactions say.  A
  directory's own inode is applied with the first half of a `sync`, those of its
  files with the second (`AppliedSelf`, `Applied`).  Of a file that has come from
  another directory the old one's transactions may still be checkpointed, but by
  `OneHome` none of them has its inode to write; that is exactly what fails for
  the files in `moved`, of which `InodesKept` says nothing.
* `FileDataProofs`.  Any operations, any object size.
  `AppendsDisjoint`: the leader's own operation holds the mutex from beginning
  to end (`LocalHolds`), and while the leader lives a remote append lies below
  the size and a local one begins at it (`Placed`); so the size, where the next
  append goes, is never inside one under way.  A truncation or removal may take
  the size back, but one that has met nobody is alone (`CutsAlone`); an open with
  `O_TRUNC` takes it back at any moment, and `retaken` is set unless no writer was
  under way.
  `TypeOK` and `NoHoles`: `Placing` says where in its loop each operation is and
  between which bounds; it is what keeps the object numbers in range.  `NoHoles`
  is not inductive: a writer that has just been told that an object is full goes
  on to the next one, whatever happened to the first since.  So a writer has no
  hole behind it (`Reached`), and a truncation or removal that takes objects away
  one by one, from the front or the back, leaves the two sides of its gap whole
  (`Packed`).  Both are stated while nothing is `torn`, the flag of the failures
  `NoHoles` excepts.
  `SizeIsLength`, for clients and threads of the leader together: `Sized` says how
  far size and data may be apart.  No object ends behind the size, but for what a
  thread of the leader has claimed and not finished (`Covered`); the data reaches
  the size, but for what a client has claimed, whose size the leader has set ahead
  (`Filled`, `Known`); a truncation, which is alone, is described at each of its
  places (`Shrinks`).  All this is stated of the states without the named failures;
  a truncation that begins alone ends the disagreement an open with `O_TRUNC` left.
  `StripedIsFlat`, `ReadsFile` and `FillsHolesOnly` for any number of threads of the
  leader and none but them (`Proc = Local`, as the run `file_local` has it, since
  of clients that write without its mutex they are not claimed, and the last is
  false: `file_race`).  `Flat`: the objects show (`Shows`) the file when nobody
  changes it, and with the part that is done of the operation that does
  (`FlatAt`).  To show a string is to have no hole up to its length, nothing
  behind it, and each object's bytes at their offsets, so that a write to one
  object is the overlay of the string (`WriteShows`), two parts of a buffer are one
  overlay (`OverlayParts`), and what is shown is what `Contents` puts together
  (`ShowsContents`): no induction over the objects is needed.  `Reads`: a read that
  nobody has changed the file beside has got the piece up to where it is.
  `FillsHolesOnly` also takes a leader that does not die (`MaxCrashes = 0`, as in the
  run): if it dies in the middle of a removal, objects are left behind a gap, the
  next write's search ends at the gap, and the zeros go over what is behind it
  (TLC finds this with one thread and one crash).
* `DirectoryProofs`.  The ground is that only the holder of the unexpired lease has
  a valid table with entries (`OneTable`, in `IInv`).  It is a lemma about the tables
  the directory table still hands out, not a result: those handed out before the
  lease ran out are in `old`, and whoever works on one spoils the directory.
  A table becomes local in two places:
  when its holder leads the directory after the fetch (`FetchedLed`), and when the
  maker of a directory has its lease (`MkdirLed`).  Every step ends in `Settle`, so
  `SettleLed` carries the rest: deaths take tables away, and a change (`ChangeLed`)
  gives its table back to the client that had one, or takes it.
  For `TypeOK`, which needs to know which operands each phase of an operation
  has (`Sound`), and for everything after it, the steps are first brought to a few
  forms: a lookup (`Looks`), a change at the leader (`Does`), a handler without the
  lease (`Jots`), a maker's lease (`Leads`), a checkpoint (`Saves`); a new
  invariant is proved once per form.
  `Agreement` is inductive with two additions (`Agrees`): while there is a table
  nobody but its holder has journaled anything for the directory, and a
  journaled removal is of an empty directory.
  `Loads`: not only the root's entries but an entry anywhere, in a
  table, a journal or carried by a rename, has its objects (`LoadInv`).
  `NoDoubleLink`: a file that is not in `crossed` has one name or one operation
  carries it (`OnePlace`), and every file that is linked, found or to be made has
  been given out (`AllUsed`), so that a new file is another.  A rename between its
  two locks has found its file and carries nothing: the change that takes the old
  name away finds the file there, or puts it into `crossed`.
  `FileKept`, an action property, from both and from `Agreement`: a change keeps
  every name but its own (`DoneStays`), and what a rename has taken from one
  directory it carries to the other (`MovingStays`).
* `OpenFilesProofs`.  `TypeOK`, `AttributesKept` and `NameHolds` from one invariant.
  `Leads`: only the leader's handles point into a table.  `AttrsAgree`: of a file
  that is not spoilt table, journals and pool have the attributes the operations
  gave it, and while there is a table only its owner has them journaled;
  without that a checkpoint of a former leader could overwrite a newer value.
  `NamesAgree` says the same of names, and that a remote inode's name still means
  the file it was opened as.

The proofs use the named assumptions on the constants: that the marker values
(`None`, `Null`, `Nil`, `Keep`, `Here`, `Stop`) are none of the values they stand
beside, that an inode number is a directory's or a file's and not both,
that a directory tree at the start links nothing twice and has two levels, that
bounds are numbers and an object has room for a byte, and that no client's clock
is behind the manager's.

The attempts at these proofs corrected the model of `Directory` in three places,
all beyond the bounds of its runs.  `Agreement` was false for a directory whose
maker takes its lease late, when others have changed it, given it up and not yet
checkpointed (`Journaled`, in `lease_dentry_table_mkdir` and `Overtaken`, a journaled
removal included).  `FileKept` was false: an `rmdir` removes its entry *by name*
after a second lookup, so it takes a file that came under that name meanwhile
(`fuse_ops.cpp:419`).  `Loads` is now stated of the entries in the pool as well as of
the operations' result, which is what a client that loads the root sees.

Only model-checked: the liveness properties (`EventuallyCheckpointed`, `ShutdownEnds`,
`OperationsEnd`), which are out of the prover's reach.  Every
invariant and action property of a passing run is stated by a theorem; those of
`file_local` under its own assumption that the leader works alone.

## Not modelled, and the plan

* *The byte layout of the journal*: `serialize` and `deserialize`, and
  `journal::check` after a crash, which nothing calls.
* *The first mount*: the creation of the root by several first clients.
* `opendir`, `releasedir` and `readlink`, which change nothing that is shared, and
  permission checks, which only refuse.
* Renames of directories, and trees of more than two levels: the code treats
  every level alike; a moved directory would need its `p_ino` in the model.
* Writes through a handle whose file is unlinked.

Left out for good: logging, benchmarks, build files, argument parsing, path
strings, permission bits.
