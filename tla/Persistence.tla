----------------------------- MODULE Persistence -----------------------------
(***************************************************************************)
(* How cached entries reach the snapshot file and come back: the debounced *)
(* save after an insert, the writers it leaves running on the blocking     *)
(* pool, DELETE /admin/cache, the flush of a graceful shutdown, a crash of *)
(* the process at any point, and the restart that loads the file.          *)
(*                                                                         *)
(* Request handlers and blocking writers are threads: every lock, file     *)
(* system call and hand-over of theirs is a step of its own.  All writers  *)
(* share one temporary file.  The file system is the names main and tmp    *)
(* over inodes: opening to write truncates an existing inode in place, and *)
(* a rename moves a name, so a writer may go on writing into a file that   *)
(* has been renamed in the meantime.                                       *)
(*                                                                         *)
(* An entry of either cache is the number and the time of its insert.  The *)
(* semantic index is left out: it is saved with the exact entries, by the  *)
(* same calls.                                                             *)
(***************************************************************************)
EXTENDS Integers, FiniteSets

CONSTANTS
    Handlers,       \* requests served at the same time
    Jobs,           \* snapshots being written at the same time
    Debounce,       \* ticks in the second between two debounced saves
    Events,         \* which of "slow", "fail", "delete", "clear", "stop", "crash" happen
    MaxInserts,     \* bound: inserts explored
    MaxNow,         \* bound: ticks explored
    MaxOutages,     \* bound: shutdowns and crashes explored
    MaxSaves        \* bound: snapshots explored, where clears add to them

ASSUME EventsAssumption == Events \subseteq {"slow", "fail", "delete", "clear", "stop", "crash"}
ASSUME DebounceAssumption == Debounce \in Nat \ {0}
ASSUME JobsAssumption == IsFiniteSet(Jobs)     \* the blocking pool is bounded
ASSUME BoundsAssumption == MaxInserts \in Nat /\ MaxNow \in Nat /\ MaxOutages \in Nat

VARIABLES
    mode,       \* life of the process
    mem,        \* the entries in memory
    pc,         \* handler -> what it is about to do
    last,       \* last_persist
    job,        \* writer -> what it is about to do, with its data and its file
    main,       \* inode of the snapshot file, 0 if there is none
    tmp,        \* inode of the temporary file, 0 if there is none
    content,    \* inode -> what a reader would load
    now,
    inserts,    \* history: number of inserts
    saves,      \* history: number of snapshots collected
    outages,    \* history: number of shutdowns and crashes
    deleted     \* history: what was deleted, and the number of snapshots before that

vars == <<mode, mem, pc, last, job, main, tmp, content, now, inserts, saves, outages,
          deleted>>

files == <<main, tmp, content>>
process == <<mode, mem, pc, last>>
counts == <<now, inserts, saves, outages>>

-------------------------------------------------------------------------------
Entries == [n : 1..MaxInserts, at : 0..MaxNow]

\* A snapshot is numbered in the order of collection.  Number 0 stands for a
\* file that does not load: cut off, or not there at all.
Snapshots == [seq : Nat, set : SUBSET Entries]

Unreadable == [seq |-> 0, set |-> {}]

\* Enough for every writer to hold a file of its own besides the two names.
Inodes == 1..(Cardinality(Jobs) + 2)

Idle == [stage |-> "none", data |-> Unreadable, ino |-> 0, origin |-> "none"]

Origins == {"none", "save", "clear", "shutdown"}

TypeOK ==
    /\ mode \in {"running", "signalled", "flushing", "draining", "exited", "crashed"}
    /\ mem \subseteq Entries
    /\ pc \in [Handlers -> {"idle", "active", "inserted", "passed"}]
    /\ last \in Int
    /\ job \in [Jobs -> [stage : {"none", "queued", "opened", "written"},
                         data : Snapshots, ino : {0} \cup Inodes, origin : Origins]]
    /\ main \in {0} \cup Inodes
    /\ tmp \in {0} \cup Inodes
    /\ main # 0 => main # tmp
    /\ \A w \in Jobs : job[w].stage \in {"opened", "written"} => job[w].ino # 0
    /\ content \in [Inodes -> Snapshots]
    /\ now \in 0..MaxNow
    /\ inserts \in 0..MaxInserts
    /\ saves \in Nat
    /\ outages \in 0..MaxOutages
    /\ deleted \subseteq [entry : Entries, seq : 0..saves]

Up == mode \in {"running", "signalled", "flushing", "draining"}

\* The server accepts requests until the shutdown future has resolved, which
\* is after the flush.
Accepting == mode \in {"running", "signalled", "flushing"}

Stored == IF main = 0 THEN Unreadable ELSE content[main]

FreeJobs == {w \in Jobs : job[w].stage = "none"}

\* A snapshot of `set` handed to a writer.
Hand(w, set, origin) ==
    /\ job' = [job EXCEPT ![w] = [stage |-> "queued", ino |-> 0, origin |-> origin,
                                  data |-> [seq |-> saves + 1, set |-> set]]]
    /\ saves' = saves + 1

-------------------------------------------------------------------------------
(* Requests.                                                               *)

Accept(h) ==
    /\ Accepting
    /\ pc[h] = "idle"
    /\ pc' = [pc EXCEPT ![h] = "active"]
    /\ UNCHANGED <<mode, mem, last, job, files, counts, deleted>>

\* A request that caches nothing: a hit, an error, an ineligible payload.
Answer(h) ==
    /\ Up
    /\ pc[h] = "active"
    /\ pc' = [pc EXCEPT ![h] = "idle"]
    /\ UNCHANGED <<mode, mem, last, job, files, counts, deleted>>

\* The insert of a response, which may displace another entry.
Insert(h) ==
    /\ Up
    /\ pc[h] = "active"
    /\ inserts < MaxInserts
    /\ pc' = [pc EXCEPT ![h] = "inserted"]
    /\ inserts' = inserts + 1
    /\ \E lost \in {{}} \cup {{e} : e \in mem} :
          mem' = (mem \ lost) \cup {[n |-> inserts + 1, at |-> now]}
    /\ UNCHANGED <<mode, last, job, files, now, saves, outages, deleted>>

\* Mutation of CheckDebounce: <= instead of <.
CheckDebounceOffByOne(h) ==
    /\ Up
    /\ pc[h] = "inserted"
    /\ \/ /\ now - last <= Debounce
          /\ pc' = [pc EXCEPT ![h] = "idle"]
          /\ UNCHANGED last
       \/ /\ now - last > Debounce
          /\ pc' = [pc EXCEPT ![h] = "passed"]
          /\ last' = now
    /\ UNCHANGED <<mode, mem, job, files, counts, deleted>>

\* Mutation of CheckDebounce: every insert is saved.
CheckDebounceNone(h) ==
    /\ Up
    /\ pc[h] = "inserted"
    /\ pc' = [pc EXCEPT ![h] = "passed"]
    /\ last' = now
    /\ UNCHANGED <<mode, mem, job, files, counts, deleted>>

\* persist_after_insert up to drop(last): the check and the update of
\* last_persist are made under its mutex.
CheckDebounce(h) ==
    /\ Up
    /\ pc[h] = "inserted"
    /\ \/ /\ now - last < Debounce
          /\ pc' = [pc EXCEPT ![h] = "idle"]
          /\ UNCHANGED last
       \/ /\ now - last >= Debounce
          /\ pc' = [pc EXCEPT ![h] = "passed"]
          /\ last' = now
    /\ UNCHANGED <<mode, mem, job, files, counts, deleted>>

\* The rest of persist_after_insert: collect, and spawn the writer.
Collect(h) ==
    /\ Up
    /\ pc[h] = "passed"
    /\ \E w \in FreeJobs : Hand(w, mem, "save")
    /\ pc' = [pc EXCEPT ![h] = "idle"]
    /\ UNCHANGED <<mode, mem, last, files, now, inserts, outages, deleted>>

\* DELETE of one entry of either cache, or of a bucket.  Nothing is saved.
Delete(e) ==
    /\ "delete" \in Events
    /\ Accepting
    /\ mem' = mem \ {e}
    /\ deleted' = deleted \cup {[entry |-> e, seq |-> saves]}
    /\ UNCHANGED <<mode, pc, last, job, files, counts>>

\* DELETE /admin/cache: clear, then write an empty snapshot from the handler.
ClearCache ==
    /\ "clear" \in Events
    /\ Accepting
    /\ saves < MaxSaves
    /\ \A w \in Jobs : job[w].origin # "clear"
    /\ mem' = {}
    /\ \E w \in FreeJobs : Hand(w, {}, "clear")
    /\ UNCHANGED <<mode, pc, last, files, now, inserts, outages, deleted>>

-------------------------------------------------------------------------------
(* Writers: write_snapshot_to_disk, as the file system sees it.            *)

\* std::fs::write opens with truncation: an inode of its own only if there is
\* no temporary file yet.
FreshInode ==
    CHOOSE i \in Inodes : i \notin {main, tmp} /\ \A w \in Jobs : job[w].ino # i

\* Mutation of OpenTmp: the snapshot file itself is opened to write.
OpenInPlace(w) ==
    LET i == IF main # 0 THEN main ELSE FreshInode
    IN  /\ job[w].stage = "queued"
        /\ main' = i
        /\ content' = [content EXCEPT ![i] = Unreadable]
        /\ job' = [job EXCEPT ![w] = [@ EXCEPT !.stage = "opened", !.ino = i]]
        /\ UNCHANGED <<process, tmp, counts, deleted>>

OpenTmp(w) ==
    LET i == IF tmp # 0 THEN tmp ELSE FreshInode
    IN  /\ job[w].stage = "queued"
        /\ tmp' = i
        /\ content' = [content EXCEPT ![i] = Unreadable]
        /\ job' = [job EXCEPT ![w] = [@ EXCEPT !.stage = "opened", !.ino = i]]
        /\ UNCHANGED <<process, main, counts, deleted>>

WriteTmp(w) ==
    /\ job[w].stage = "opened"
    /\ content' = [content EXCEPT ![job[w].ino] = job[w].data]
    /\ job' = [job EXCEPT ![w].stage = "written"]
    /\ UNCHANGED <<process, main, tmp, counts, deleted>>

\* Mutation of Finish: only a successful flush resolves the shutdown future.
FinishIfStored(w) ==
    /\ job' = [job EXCEPT ![w] = Idle]
    /\ mode' = IF job[w].origin = "shutdown" /\ job[w].stage = "written"
               THEN "draining" ELSE mode
    /\ UNCHANGED <<mem, pc, last, counts, deleted>>

\* The end of a job.  The flush of a shutdown lets the server go on to drain.
Finish(w) ==
    /\ job' = [job EXCEPT ![w] = Idle]
    /\ mode' = IF job[w].origin = "shutdown" THEN "draining" ELSE mode
    /\ UNCHANGED <<mem, pc, last, counts, deleted>>

\* The open, the write or the rename fails (a directory that is missing or may not be
\* written to, no descriptor or inode left, a full disk), and nobody is told.  Nothing
\* more is done, and the files stay as they are: there may be no temporary file, one
\* that is cut off, or a whole one that is not renamed.
FailSave(w) ==
    /\ "fail" \in Events
    /\ job[w].stage \in {"queued", "opened", "written"}
    /\ Finish(w)
    /\ UNCHANGED files

\* Mutations of RenameTmp: a failed rename is tried again and again, or the
\* temporary file is linked under the second name instead of moved.
RenameRetry(w) ==
    /\ job[w].stage = "written"
    /\ tmp # 0
    /\ main' = tmp
    /\ tmp' = 0
    /\ Finish(w)
    /\ UNCHANGED content

RenameLink(w) ==
    /\ job[w].stage = "written"
    /\ main' = IF tmp # 0 THEN tmp ELSE main
    /\ Finish(w)
    /\ UNCHANGED <<tmp, content>>

\* The rename.  It fails, unnoticed, when another writer took the name away.
RenameTmp(w) ==
    /\ job[w].stage = "written"
    /\ IF tmp # 0
       THEN main' = tmp /\ tmp' = 0
       ELSE UNCHANGED <<main, tmp>>
    /\ Finish(w)
    /\ UNCHANGED content

-------------------------------------------------------------------------------
(* Life of the process.                                                    *)

Sigint ==
    /\ "stop" \in Events
    /\ mode = "running"
    /\ outages < MaxOutages
    /\ mode' = "signalled"
    /\ outages' = outages + 1
    /\ UNCHANGED <<mem, pc, last, job, files, now, inserts, saves, deleted>>

\* flush_persistence: no debounce.
ShutdownFlush ==
    /\ mode = "signalled"
    /\ mode' = "flushing"
    /\ \E w \in FreeJobs : Hand(w, mem, "shutdown")
    /\ UNCHANGED <<mem, pc, last, files, now, inserts, outages, deleted>>

\* Every connection is done.  The runtime is dropped: it waits for writers that
\* have started and forgets those that have not.
Exit ==
    /\ mode = "draining"
    /\ \A h \in Handlers : pc[h] = "idle"
    /\ \A w \in Jobs : job[w].stage \in {"none", "queued"} /\ job[w].origin # "clear"
    /\ mode' = "exited"
    /\ job' = [w \in Jobs |-> Idle]
    /\ UNCHANGED <<mem, pc, last, files, counts, deleted>>

\* The process is killed.  The file system keeps what the calls so far did.
Crash ==
    /\ "crash" \in Events
    /\ Up
    /\ outages < MaxOutages
    /\ mode' = "crashed"
    /\ outages' = outages + 1
    /\ mem' = {}
    /\ pc' = [h \in Handlers |-> "idle"]
    /\ job' = [w \in Jobs |-> Idle]
    /\ UNCHANGED <<last, files, now, inserts, saves, deleted>>

\* A new process: last_persist starts ten seconds in the past.
Restart ==
    /\ mode \in {"exited", "crashed"}
    /\ mode' = "running"
    /\ mem' = Stored.set
    /\ last' = now - 10 * Debounce
    /\ deleted' = {d \in deleted : d.entry \notin Stored.set}
    /\ UNCHANGED <<pc, job, files, counts>>

\* A save is under way: a handler is past the debounce, or a writer is busy.
Saving ==
    \/ \E h \in Handlers : pc[h] = "passed"
    \/ \E w \in Jobs : job[w].stage # "none"

\* Unless the disk is slow, a save is over before the next may start.
Tick ==
    /\ now < MaxNow
    /\ "slow" \in Events \/ ~Saving \/ now + 1 - last < Debounce
    /\ now' = now + 1
    /\ UNCHANGED <<process, job, files, inserts, saves, outages, deleted>>

-------------------------------------------------------------------------------
Init ==
    /\ mode = "running"
    /\ mem = {}
    /\ pc = [h \in Handlers |-> "idle"]
    /\ last = -10 * Debounce
    /\ job = [w \in Jobs |-> Idle]
    /\ main = 0
    /\ tmp = 0
    /\ content = [i \in Inodes |-> Unreadable]
    /\ now = 0
    /\ inserts = 0
    /\ saves = 0
    /\ outages = 0
    /\ deleted = {}

HandlerStep(h) == Insert(h) \/ Answer(h) \/ CheckDebounce(h) \/ Collect(h)

WriterStep(w) == OpenTmp(w) \/ WriteTmp(w) \/ RenameTmp(w) \/ FailSave(w)

Next ==
    \/ \E h \in Handlers : Accept(h) \/ HandlerStep(h)
    \/ \E w \in Jobs : WriterStep(w)
    \/ \E e \in mem : Delete(e)
    \/ ClearCache
    \/ Sigint
    \/ ShutdownFlush
    \/ Exit
    \/ Crash
    \/ Restart
    \/ Tick

Spec == Init /\ [][Next]_vars

\* Threads that can run do, and the upstream answers every request.  Nothing has to
\* fail: that a writer goes on does not rest on FailSave.
Fairness ==
    /\ \A h \in Handlers : WF_vars(HandlerStep(h))
    /\ \A w \in Jobs : WF_vars(OpenTmp(w) \/ WriteTmp(w) \/ RenameTmp(w))
    /\ WF_vars(ShutdownFlush)
    /\ WF_vars(Exit)

FairSpec == Spec /\ Fairness

-------------------------------------------------------------------------------
(* Properties.                                                             *)

\* The snapshot file only ever moves forward, from one collected snapshot to a
\* later one, and once it loads it always loads: whatever the moment of a crash,
\* a restart finds the last snapshot whose rename was done.
SavesAdvance == [][Stored'.seq >= Stored.seq]_vars

\* No save is under way, and no handler is about to look whether one is due.
Quiet == mode = "running" /\ ~Saving /\ \A h \in Handlers : pc[h] # "inserted"

\* What the file lacks of the memory is newer than all it has, whatever saves failed or
\* were cut short.  When nothing is being saved it was inserted less than a second after
\* the start of the last save; and not before it either, if it is this save that is
\* stored: the next one that succeeds makes up for those that failed.
LagBound ==
    \A e \in mem \ Stored.set :
        /\ \A f \in Stored.set : f.n < e.n
        /\ Quiet => e.at - last < Debounce
        /\ Quiet /\ Stored.seq = saves => last <= e.at

\* A deleted entry comes back, if at all, with the first restart: once a snapshot
\* collected after the delete is in the file, no older one takes its place, whatever
\* crashes and restarts follow.
DeletionSticks ==
    [][\A d \in deleted : Stored.seq > d.seq => d.entry \notin Stored'.set]_vars

\* After an interrupt the process exits, unless it is killed.
ShutdownEnds == mode = "signalled" ~> mode \in {"exited", "crashed"}

\* A save that was collected is over some time: the file is renamed, or the
\* write failed, or the process ended.
SavesEnd == \A w \in Jobs : job[w].stage # "none" ~> job[w].stage = "none"

\* cache.rs:378, "Save the full cache state to disk atomically": a snapshot
\* file that loads is replaced by one that loads.
SaveIsAtomic == [][Stored.seq # 0 => Stored'.seq # 0]_vars

\* Design of the admin API, "DELETE /admin/cache followed by restart -> empty
\* cache": once the clear is done and while the memory stays empty, the file
\* gains no entries.
ClearSticks ==
    [][(/\ Up
        /\ mem = {} /\ mem' = {}
        /\ \A w \in Jobs : job[w].origin # "clear") =>
          Stored'.set \subseteq Stored.set]_vars

===============================================================================
