-------------------------- MODULE PersistenceProofs --------------------------
(***************************************************************************)
(* Theorems about Persistence, for any number of handlers and writers.     *)
(*                                                                         *)
(* That the state is well-formed holds whatever happens.  How the snapshot *)
(* file moves is proved for a disk that is not slow, crashes, failed       *)
(* writes and admin deletes: then the debounce keeps saves apart, so that  *)
(* the shared temporary file has one writer at a time.                     *)
(***************************************************************************)
EXTENDS Persistence, FiniteSetTheorems, TLAPS

-------------------------------------------------------------------------------
(* The state is well-formed.                                               *)

\* There is an inode for a new temporary file: besides the snapshot file, every
\* writer holds at most one.
LEMMA FreshExists ==
    ASSUME tmp = 0
    PROVE  FreshInode \in Inodes /\ FreshInode # main /\ \A w \in Jobs : job[w].ino # FreshInode
<1> DEFINE n == Cardinality(Jobs)
           held == {job[w].ino : w \in Jobs}
           used == {main} \cup held
<1>1. IsFiniteSet(held) /\ Cardinality(held) <= n
  <2> DEFINE f == [w \in Jobs |-> job[w].ino]
  <2>1. f \in Surjection(Jobs, held)
    BY DEF Surjection
  <2>2. QED
    BY <2>1, FS_Surjection, JobsAssumption
<1>2. n \in Nat
  BY FS_CardinalityType, JobsAssumption
<1>3. IsFiniteSet(used) /\ Cardinality(used) <= n + 1
  <2>1. IsFiniteSet(used) /\ Cardinality(used) \in {Cardinality(held), Cardinality(held) + 1}
    BY <1>1, FS_AddElement
  <2>2. Cardinality(held) \in Nat
    BY <1>1, FS_CardinalityType
  <2>3. QED
    BY <1>1, <1>2, <2>1, <2>2
<1>4. IsFiniteSet(Inodes) /\ Cardinality(Inodes) = n + 2
  <2>1. 1 \in Int /\ n + 2 \in Int /\ n + 2 >= 1
    BY <1>2
  <2>2. IsFiniteSet(1..(n + 2)) /\ Cardinality(1..(n + 2)) = n + 2
    BY <2>1, <1>2, FS_Interval
  <2>3. QED
    BY <2>2 DEF Inodes
<1>5. ~(Inodes \subseteq used)
  <2> SUFFICES ASSUME Inodes \subseteq used PROVE FALSE
    OBVIOUS
  <2>1. Cardinality(Inodes) <= Cardinality(used)
    BY <1>3, FS_Subset
  <2>2. Cardinality(used) \in Nat
    BY <1>3, FS_CardinalityType
  <2> HIDE DEF used, n
  <2>3. QED
    BY <2>1, <2>2, <1>2, <1>3, <1>4
<1>6. PICK i \in Inodes : i \notin used
  BY <1>5
<1>7. i # 0
  BY <1>2, <1>6 DEF Inodes
<1>8. i \notin {main, tmp} /\ \A w \in Jobs : job[w].ino # i
  BY <1>6, <1>7
<1>9. QED
  BY <1>8 DEF FreshInode

\* A snapshot of a set of entries is handed to a writer.
LEMMA HandType ==
    ASSUME TypeOK, NEW w \in Jobs, NEW set \in SUBSET Entries,
           NEW origin \in Origins, Hand(w, set, origin)
    PROVE  /\ job' \in [Jobs -> [stage : {"none", "queued", "opened", "written"},
                                 data : Snapshots, ino : {0} \cup Inodes, origin : Origins]]
           /\ \A v \in Jobs : job'[v].stage \in {"opened", "written"} => job'[v].ino # 0
           /\ saves' = saves + 1
<1>1. [seq |-> saves + 1, set |-> set] \in Snapshots
  BY DEF TypeOK, Snapshots
<1>2. QED
  BY <1>1 DEF Hand, TypeOK

\* The state keeps its shape.
LEMMA NextType == TypeOK /\ [Next]_vars => TypeOK'
<1> SUFFICES ASSUME TypeOK, [Next]_vars
             PROVE  TypeOK'
  OBVIOUS
<1> USE BoundsAssumption
<1>1. Unreadable \in Snapshots
  BY DEF Unreadable, Snapshots
<1>2. Idle \in [stage : {"none", "queued", "opened", "written"},
               data : Snapshots, ino : {0} \cup Inodes, origin : Origins]
      /\ Idle.stage = "none"
  BY <1>1 DEF Idle, Origins
<1>3. Stored \in Snapshots
  BY <1>1 DEF Stored, TypeOK
<1>4. ASSUME NEW h \in Handlers, Accept(h) \/ Answer(h) \/ CheckDebounce(h)
      PROVE  TypeOK'
  BY <1>4 DEF Accept, Answer, CheckDebounce, TypeOK, counts, files
<1>5. ASSUME NEW h \in Handlers, Insert(h)
      PROVE  TypeOK'
  <2>1. inserts' = inserts + 1 /\ inserts' \in 0..MaxInserts
    BY <1>5 DEF Insert, TypeOK
  <2>2. [n |-> inserts + 1, at |-> now] \in Entries
    BY <2>1 DEF Entries, TypeOK
  <2>3. mem' \subseteq Entries
    BY <1>5, <2>2 DEF Insert, TypeOK
  <2>4. QED
    BY <1>5, <2>1, <2>3 DEF Insert, TypeOK, files
<1>6. ASSUME NEW h \in Handlers, Collect(h)
      PROVE  TypeOK'
  <2>1. PICK w \in FreeJobs : Hand(w, mem, "save")
    BY <1>6 DEF Collect
  <2>2. w \in Jobs /\ mem \in SUBSET Entries /\ "save" \in Origins
    BY DEF TypeOK, FreeJobs, Origins
  <2>3. /\ job' \in [Jobs -> [stage : {"none", "queued", "opened", "written"},
                               data : Snapshots, ino : {0} \cup Inodes, origin : Origins]]
        /\ \A v \in Jobs : job'[v].stage \in {"opened", "written"} => job'[v].ino # 0
        /\ saves' = saves + 1
    BY <2>1, <2>2, HandType
  <2>4. QED
    BY <1>6, <2>3 DEF Collect, TypeOK, files
<1>7. ASSUME NEW w \in Jobs, WriterStep(w)
      PROVE  TypeOK'
  <2>1. CASE OpenTmp(w)
    <3> DEFINE i == IF tmp # 0 THEN tmp ELSE FreshInode
    <3>1. i \in Inodes /\ i # main /\ i # 0
      <4>1. CASE tmp # 0
        BY <4>1 DEF TypeOK
      <4>2. CASE tmp = 0
        <5>1. 0 \notin Inodes
          BY DEF Inodes
        <5>2. QED
          BY <4>2, <5>1, FreshExists
      <4>3. QED
        BY <4>1, <4>2
    <3>2. /\ tmp' = i
          /\ content' = [content EXCEPT ![i] = Unreadable]
          /\ job' = [job EXCEPT ![w] = [@ EXCEPT !.stage = "opened", !.ino = i]]
          /\ UNCHANGED <<process, main, counts, deleted>>
      BY <2>1 DEF OpenTmp
    <3> HIDE DEF i
    <3>3. QED
      BY <1>1, <3>1, <3>2 DEF TypeOK, process, counts
  <2>2. CASE WriteTmp(w)
    <3>1. job[w].ino \in Inodes /\ job[w].data \in Snapshots
      BY <2>2 DEF WriteTmp, TypeOK
    <3>2. QED
      BY <2>2, <3>1 DEF WriteTmp, TypeOK, process, counts
  <2>3. CASE FailSave(w) \/ RenameTmp(w)
    <3>1. Finish(w) /\ content' = content
      BY <2>3 DEF FailSave, RenameTmp, files
    <3>2. (main' = main /\ tmp' = tmp) \/ (main' = tmp /\ tmp' = 0 /\ tmp # 0)
      BY <2>3 DEF FailSave, RenameTmp, files
    <3>3. QED
      BY <1>2, <3>1, <3>2 DEF Finish, TypeOK, counts
  <2>4. QED
    BY <1>7, <2>1, <2>2, <2>3 DEF WriterStep
<1>8. ASSUME NEW e \in mem, Delete(e)
      PROVE  TypeOK'
  BY <1>8 DEF Delete, TypeOK, files, counts
<1>9. CASE ClearCache
  <2>1. PICK w \in FreeJobs : Hand(w, {}, "clear")
    BY <1>9 DEF ClearCache
  <2>2. w \in Jobs /\ {} \in SUBSET Entries /\ "clear" \in Origins
    BY DEF FreeJobs, Origins
  <2>3. QED
    BY <1>9, <2>1, <2>2, HandType DEF ClearCache, TypeOK, files
<1>10. CASE ShutdownFlush
  <2>1. PICK w \in FreeJobs : Hand(w, mem, "shutdown")
    BY <1>10 DEF ShutdownFlush
  <2>2. w \in Jobs /\ mem \in SUBSET Entries /\ "shutdown" \in Origins
    BY DEF TypeOK, FreeJobs, Origins
  <2>3. /\ job' \in [Jobs -> [stage : {"none", "queued", "opened", "written"},
                               data : Snapshots, ino : {0} \cup Inodes, origin : Origins]]
        /\ \A v \in Jobs : job'[v].stage \in {"opened", "written"} => job'[v].ino # 0
        /\ saves' = saves + 1
    BY <2>1, <2>2, HandType
  <2>4. QED
    BY <1>10, <2>3 DEF ShutdownFlush, TypeOK, files
<1>11. CASE Sigint
  BY <1>11 DEF Sigint, TypeOK, files
<1>12. CASE Exit \/ Crash
  BY <1>2, <1>12 DEF Exit, Crash, TypeOK, files, counts
<1>13. CASE Restart
  <2>1. mem' \subseteq Entries
    BY <1>3, <1>13 DEF Restart, Snapshots
  <2>2. last' \in Int
    BY <1>13, DebounceAssumption DEF Restart, TypeOK
  <2>3. QED
    BY <1>13, <2>1, <2>2 DEF Restart, TypeOK, files, counts
<1>14. CASE Tick
  BY <1>14 DEF Tick, TypeOK, process, files
<1>15. CASE UNCHANGED vars
  BY <1>15 DEF vars, TypeOK
<1>16. QED
  BY <1>4, <1>5, <1>6, <1>7, <1>8, <1>9, <1>10, <1>11, <1>12, <1>13, <1>14, <1>15
     DEF Next, HandlerStep

\* Through every interleaving of requests, saves, crashes and restarts the state is
\* what the module says it is; above all, the snapshot file and the temporary file
\* are never the same, and a writer that writes has a file.
THEOREM TypeCorrect == Spec => []TypeOK
<1>1. Init => TypeOK
  BY BoundsAssumption, DebounceAssumption
     DEF Init, TypeOK, Idle, Unreadable, Snapshots, Origins, Inodes, Entries
<1>2. QED
  BY <1>1, NextType, PTL DEF Spec

-------------------------------------------------------------------------------
(* The inductive invariant behind the movements of the file.               *)

\* Nothing but these goes wrong.
Steady == Events \subseteq {"crash", "delete", "fail"}

Busy(w) == job[w].stage # "none"

\* The debounce keeps saves apart: one is under way for less than the second in which
\* no other may start, so there is never more than one.
ApartInv ==
    /\ last <= now
    /\ Saving => now - last < Debounce
    /\ \A h, g \in Handlers : pc[h] = "passed" /\ pc[g] = "passed" => h = g
    /\ \A v, w \in Jobs : Busy(v) /\ Busy(w) => v = w
    /\ \A h \in Handlers, w \in Jobs : ~(pc[h] = "passed" /\ Busy(w))
    /\ \A w \in Jobs : job[w].origin # "shutdown"
    /\ mode \in {"running", "crashed"}
    /\ mode = "crashed" => mem = {} /\ ~Saving

\* So the file of the writer is the one that has the name, what it has written is what
\* it collected, and that is later than what is stored.
FileInv ==
    /\ Stored.seq <= saves
    /\ \A w \in Jobs : Busy(w) => job[w].data.seq = saves /\ Stored.seq < saves
    /\ \A w \in Jobs : job[w].stage \in {"opened", "written"} =>
          tmp # 0 /\ job[w].ino = tmp
    /\ \A w \in Jobs : job[w].stage = "written" => content[tmp] = job[w].data

\* No two saves at once.
LEMMA NextApart ==
    ASSUME Steady, TypeOK, ApartInv, [Next]_vars
    PROVE  ApartInv'
<1> USE DebounceAssumption
<1>1. ASSUME NEW h \in Handlers, Accept(h) \/ Answer(h) \/ Insert(h)
      PROVE  ApartInv'
  <2>1. /\ UNCHANGED <<mode, last, job, now>>
        /\ \A g \in Handlers : pc'[g] = "passed" <=> pc[g] = "passed"
        /\ mode = "running"
    BY <1>1 DEF Accept, Answer, Insert, counts, TypeOK, ApartInv, Up, Accepting
  <2>2. Saving' <=> Saving
    BY <2>1 DEF Saving
  <2>3. QED
    BY <2>1, <2>2 DEF ApartInv, Busy
<1>2. ASSUME NEW h \in Handlers, CheckDebounce(h)
      PROVE  ApartInv'
  <2>1. UNCHANGED <<mode, mem, job, now>> /\ mode = "running"
    BY <1>2 DEF CheckDebounce, counts, ApartInv, Up
  <2>2. CASE now - last < Debounce
    <3>1. last' = last /\ \A g \in Handlers : pc'[g] = "passed" <=> pc[g] = "passed"
      BY <1>2, <2>2 DEF CheckDebounce, TypeOK
    <3>2. Saving' <=> Saving
      BY <2>1, <3>1 DEF Saving
    <3>3. QED
      BY <2>1, <3>1, <3>2 DEF ApartInv, Busy
  <2>3. CASE now - last >= Debounce
    <3>1. last' = now /\ \A g \in Handlers : pc'[g] = "passed" <=> (g = h \/ pc[g] = "passed")
      BY <1>2, <2>3 DEF CheckDebounce, TypeOK
    <3>2. ~Saving
      BY <2>3 DEF ApartInv, TypeOK
    <3>3. /\ \A g \in Handlers : pc'[g] = "passed" <=> g = h
          /\ \A w \in Jobs : ~Busy(w)'
      BY <2>1, <3>1, <3>2 DEF Saving, Busy
    <3>4. now' - last' < Debounce /\ last' <= now'
      BY <2>1, <3>1 DEF TypeOK
    <3>5. QED
      BY <2>1, <3>3, <3>4 DEF ApartInv
  <2>4. QED
    BY <2>2, <2>3 DEF TypeOK
<1>3. ASSUME NEW h \in Handlers, Collect(h)
      PROVE  ApartInv'
  <2>1. PICK w \in FreeJobs : Hand(w, mem, "save")
    BY <1>3 DEF Collect
  <2>2. /\ w \in Jobs
        /\ \A v \in Jobs : Busy(v)' <=> (v = w \/ Busy(v))
        /\ \A v \in Jobs : job'[v].origin # "shutdown"
    BY <2>1 DEF Hand, FreeJobs, TypeOK, Busy, ApartInv
  <2>3. /\ pc[h] = "passed" /\ \A g \in Handlers : pc'[g] = "passed" <=> (pc[g] = "passed" /\ g # h)
        /\ UNCHANGED <<mode, mem, last, now>> /\ mode = "running"
    BY <1>3 DEF Collect, TypeOK, Up, ApartInv
  <2>4. Saving
    BY <2>3 DEF Saving
  <2>5. /\ \A g \in Handlers : pc'[g] # "passed"
        /\ \A v \in Jobs : Busy(v)' <=> v = w
    BY <2>2, <2>3 DEF ApartInv
  <2>6. QED
    BY <2>2, <2>3, <2>4, <2>5 DEF ApartInv
<1>4. ASSUME NEW w \in Jobs, WriterStep(w)
      PROVE  ApartInv'
  <2>1. /\ Busy(w) /\ Saving
        /\ \A v \in Jobs : Busy(v)' => Busy(v)
        /\ \A v \in Jobs : job'[v].origin # "shutdown"
        /\ UNCHANGED <<mem, pc, last, now>>
    <3>1. CASE OpenTmp(w) \/ WriteTmp(w)
      <4>1. /\ job[w].stage \in {"queued", "opened"}
            /\ \A v \in Jobs : v # w => job'[v] = job[v]
            /\ job'[w].origin = job[w].origin
        <5>1. CASE OpenTmp(w)
          <6>1. PICK i : job' = [job EXCEPT ![w] = [@ EXCEPT !.stage = "opened", !.ino = i]]
            BY <5>1 DEF OpenTmp
          <6>2. job[w].stage = "queued"
            BY <5>1 DEF OpenTmp
          <6>3. QED
            BY <6>1, <6>2 DEF TypeOK
        <5>2. CASE WriteTmp(w)
          BY <5>2 DEF WriteTmp, TypeOK
        <5>3. QED
          BY <3>1, <5>1, <5>2
      <4>2. UNCHANGED <<mem, pc, last, now>>
        BY <3>1 DEF OpenTmp, WriteTmp, process, counts
      <4>3. QED
        BY <4>1, <4>2 DEF Busy, Saving, ApartInv
    <3>2. CASE FailSave(w) \/ RenameTmp(w)
      BY <3>2 DEF FailSave, RenameTmp, Finish, Idle, counts, Busy, Saving, TypeOK, ApartInv
    <3>3. QED
      BY <1>4, <3>1, <3>2 DEF WriterStep
  <2>2. mode' = mode /\ mode = "running"
    <3>1. mode = "running"
      BY <2>1 DEF ApartInv
    <3>2. mode' = mode
      BY <1>4 DEF WriterStep, OpenTmp, WriteTmp, FailSave, RenameTmp, Finish, process, ApartInv
    <3>3. QED
      BY <3>1, <3>2
  <2>3. QED
    BY <2>1, <2>2 DEF ApartInv
<1>5. ASSUME NEW e \in mem, Delete(e)
      PROVE  ApartInv'
  <2>1. UNCHANGED <<mode, pc, last, job, now>> /\ mode = "running"
    BY <1>5 DEF Delete, counts, Accepting, ApartInv
  <2>2. Saving' <=> Saving
    BY <2>1 DEF Saving
  <2>3. QED
    BY <2>1, <2>2 DEF ApartInv, Busy
<1>6. CASE ClearCache \/ Sigint \/ ShutdownFlush \/ Exit
  BY <1>6 DEF Steady, ClearCache, Sigint, ShutdownFlush, Exit, ApartInv
<1>7. CASE Crash
  <2>1. /\ mode' = "crashed" /\ mem' = {} /\ UNCHANGED <<last, now>>
        /\ \A h \in Handlers : pc'[h] # "passed"
        /\ \A w \in Jobs : ~Busy(w)' /\ job'[w].origin # "shutdown"
    BY <1>7 DEF Crash, Idle, Busy
  <2>2. ~Saving'
    BY <2>1 DEF Saving, Busy
  <2>3. QED
    BY <2>1, <2>2 DEF ApartInv
<1>8. CASE Restart
  <2>1. mode = "crashed" /\ mode' = "running" /\ UNCHANGED <<pc, job, now>>
    BY <1>8 DEF Restart, ApartInv, counts
  <2>2. ~Saving /\ ~Saving'
    BY <2>1 DEF ApartInv, Saving
  <2>3. last' <= now'
    BY <1>8, <2>1 DEF Restart, TypeOK
  <2>4. \A w \in Jobs : Busy(w)' <=> Busy(w)
    BY <2>1 DEF Busy
  <2>5. QED
    BY <2>1, <2>2, <2>3, <2>4 DEF ApartInv
<1>9. CASE Tick
  <2>1. UNCHANGED <<mode, mem, pc, last, job>> /\ now' = now + 1
    BY <1>9 DEF Tick, process
  <2>2. Saving' <=> Saving
    BY <2>1 DEF Saving
  <2>3. Saving => now' - last' < Debounce
    <3>1. "slow" \notin Events
      BY DEF Steady
    <3>2. Saving => now + 1 - last < Debounce
      BY <1>9, <3>1 DEF Tick
    <3>3. now' = now + 1 /\ last' = last
      BY <2>1
    <3>4. now \in Int /\ last \in Int
      BY DEF TypeOK
    <3>5. QED
      BY <3>2, <3>3, <3>4
  <2>4. last' <= now'
    BY <2>1 DEF ApartInv, TypeOK
  <2>5. QED
    BY <2>1, <2>2, <2>3, <2>4 DEF ApartInv, Busy
<1>10. CASE UNCHANGED vars
  <2>1. Saving' <=> Saving
    BY <1>10 DEF vars, Saving
  <2>2. QED
    BY <1>10, <2>1 DEF vars, ApartInv, Busy
<1>11. QED
  BY <1>1, <1>2, <1>3, <1>4, <1>5, <1>6, <1>7, <1>8, <1>9, <1>10 DEF Next, HandlerStep

\* What a writer does, and to what.
LEMMA Writing ==
    ASSUME TypeOK, ApartInv, FileInv, NEW w \in Jobs, WriterStep(w)
    PROVE  /\ UNCHANGED <<mem, pc, last, counts, deleted>>
           /\ Busy(w)
           /\ \A v \in Jobs : v # w => job'[v] = job[v] /\ ~Busy(v)
           /\ \/ /\ job'[w].stage \in {"opened", "written"}
                 /\ job'[w].data = job[w].data
                 /\ tmp' # 0 /\ job'[w].ino = tmp'
                 /\ job'[w].stage = "written" => content'[tmp'] = job[w].data
                 /\ Stored' = Stored
              \/ job'[w] = Idle /\ Stored' \in {Stored, job[w].data}
<1>1. Busy(w) /\ \A v \in Jobs : v # w => ~Busy(v)
  <2>1. Busy(w)
    BY DEF WriterStep, OpenTmp, WriteTmp, FailSave, RenameTmp, Busy
  <2>2. QED
    BY <2>1 DEF ApartInv
<1>2. CASE OpenTmp(w)
  <2> DEFINE i == IF tmp # 0 THEN tmp ELSE FreshInode
  <2>1. i \in Inodes /\ i # main /\ i # 0
    <3>1. CASE tmp # 0
      BY <3>1 DEF TypeOK
    <3>2. CASE tmp = 0
      <4>1. 0 \notin Inodes
        BY DEF Inodes
      <4>2. QED
        BY <3>2, <4>1, FreshExists
    <3>3. QED
      BY <3>1, <3>2
  <2>2. /\ tmp' = i
        /\ content' = [content EXCEPT ![i] = Unreadable]
        /\ job' = [job EXCEPT ![w] = [@ EXCEPT !.stage = "opened", !.ino = i]]
        /\ main' = main
        /\ UNCHANGED <<mem, pc, last, counts, deleted>>
    BY <1>2 DEF OpenTmp, process
  <2> HIDE DEF i
  <2>3. /\ job'[w].stage = "opened" /\ job'[w].data = job[w].data /\ job'[w].ino = i
        /\ \A v \in Jobs : v # w => job'[v] = job[v]
    BY <2>2 DEF TypeOK
  <2>4. Stored' = Stored
    BY <2>1, <2>2 DEF Stored, TypeOK
  <2>5. QED
    BY <1>1, <2>1, <2>2, <2>3, <2>4
<1>3. CASE WriteTmp(w)
  <2>1. /\ job[w].stage = "opened"
        /\ content' = [content EXCEPT ![job[w].ino] = job[w].data]
        /\ job' = [job EXCEPT ![w].stage = "written"]
        /\ UNCHANGED <<main, tmp, mem, pc, last, counts, deleted>>
    BY <1>3 DEF WriteTmp, process
  <2>2. tmp # 0 /\ job[w].ino = tmp /\ tmp \in Inodes /\ main # tmp
    BY <2>1 DEF FileInv, TypeOK
  <2>3. /\ job'[w].stage = "written" /\ job'[w].data = job[w].data
        /\ job'[w].ino = job[w].ino
        /\ \A v \in Jobs : v # w => job'[v] = job[v]
    BY <2>1 DEF TypeOK
  <2>4. content'[tmp] = job[w].data
    BY <2>1, <2>2 DEF TypeOK
  <2>5. Stored' = Stored
    BY <2>1, <2>2 DEF Stored, TypeOK
  <2>6. QED
    BY <1>1, <2>1, <2>2, <2>3, <2>4, <2>5
<1>4. CASE FailSave(w) \/ RenameTmp(w)
  <2>1. /\ job'[w] = Idle
        /\ \A v \in Jobs : v # w => job'[v] = job[v]
        /\ UNCHANGED <<content, mem, pc, last, counts, deleted>>
    BY <1>4 DEF FailSave, RenameTmp, Finish, files, TypeOK
  <2>2. CASE FailSave(w)
    <3>1. main' = main
      BY <2>2 DEF FailSave, files
    <3>2. Stored' = Stored
      BY <2>1, <3>1 DEF Stored
    <3>3. QED
      BY <1>1, <2>1, <3>1, <3>2
  <2>3. CASE RenameTmp(w)
    <3>1. job[w].stage = "written"
      BY <2>3 DEF RenameTmp
    <3>2. tmp # 0 /\ content[tmp] = job[w].data
      BY <3>1 DEF FileInv
    <3>3. main' = tmp /\ tmp' = 0
      BY <2>3, <3>2 DEF RenameTmp
    <3>4. Stored' = job[w].data
      BY <2>1, <3>2, <3>3 DEF Stored
    <3>5. QED
      BY <1>1, <2>1, <3>4
  <2>4. QED
    BY <1>4, <2>2, <2>3
<1>5. QED
  BY <1>2, <1>3, <1>4 DEF WriterStep

\* A snapshot is collected by the one request that is past the debounce.
LEMMA Collecting ==
    ASSUME TypeOK, ApartInv, NEW h \in Handlers, Collect(h)
    PROVE  /\ UNCHANGED <<mem, last, files, now, inserts, deleted, Stored>>
           /\ saves' = saves + 1
           /\ \E w \in Jobs :
                 /\ job'[w].stage = "queued"
                 /\ job'[w].data = [seq |-> saves + 1, set |-> mem]
                 /\ \A v \in Jobs : v # w => ~Busy(v)'
<1>1. PICK w \in FreeJobs : Hand(w, mem, "save")
  BY DEF Collect
<1>2. /\ w \in Jobs
      /\ job'[w].stage = "queued"
      /\ job'[w].data = [seq |-> saves + 1, set |-> mem]
      /\ \A v \in Jobs : v # w => job'[v] = job[v]
  BY <1>1 DEF Hand, FreeJobs, TypeOK
<1>3. \A v \in Jobs : v # w => ~Busy(v)'
  BY <1>2 DEF Collect, ApartInv, Busy
<1>4. UNCHANGED <<mem, last, files, now, inserts, deleted>> /\ saves' = saves + 1
  BY <1>1 DEF Collect, Hand
<1>5. Stored' = Stored
  BY <1>4 DEF files, Stored
<1>6. QED
  BY <1>2, <1>3, <1>4, <1>5

\* The file moves forward, and by nothing but the writer whose turn it is.
LEMMA NextFile ==
    ASSUME Steady, TypeOK, ApartInv, FileInv, [Next]_vars
    PROVE  FileInv'
<1>1. ASSUME UNCHANGED <<files, saves, job>>
      PROVE  FileInv'
  BY <1>1 DEF files, FileInv, Stored, Busy
<1>2. ASSUME NEW h \in Handlers, Collect(h)
      PROVE  FileInv'
  <2>1. PICK w \in Jobs :
            /\ job'[w].stage = "queued"
            /\ job'[w].data = [seq |-> saves + 1, set |-> mem]
            /\ \A v \in Jobs : v # w => ~Busy(v)'
    BY <1>2, Collecting
  <2>2. saves' = saves + 1 /\ Stored' = Stored /\ saves \in Nat
    BY <1>2, Collecting DEF TypeOK
  <2>3. job'[w].data.seq = saves'
    BY <2>1, <2>2
  <2>4. Stored.seq <= saves /\ Stored.seq \in Nat
    BY DEF FileInv, Stored, TypeOK, Snapshots, Unreadable
  <2>5. Stored'.seq < saves'
    BY <2>2, <2>4
  <2>6. \A v \in Jobs : Busy(v)' => v = w
    BY <2>1
  <2>7. \A v \in Jobs : job'[v].stage \notin {"opened", "written"}
    BY <2>1, <2>6 DEF Busy
  <2>8. QED
    BY <2>2, <2>3, <2>4, <2>5, <2>6, <2>7 DEF FileInv
<1>3. ASSUME NEW w \in Jobs, WriterStep(w)
      PROVE  FileInv'
  <2>1. saves' = saves /\ Busy(w) /\ \A v \in Jobs : v # w => job'[v] = job[v] /\ ~Busy(v)
    BY <1>3, Writing DEF counts
  <2>2. \A v \in Jobs : Busy(v)' => v = w
    BY <2>1 DEF Busy
  <2>3. job[w].data.seq = saves /\ Stored.seq < saves /\ Stored.seq <= saves /\ saves \in Nat
    BY <2>1 DEF FileInv, TypeOK
  <2>4. CASE /\ job'[w].stage \in {"opened", "written"}
             /\ job'[w].data = job[w].data
             /\ tmp' # 0 /\ job'[w].ino = tmp'
             /\ job'[w].stage = "written" => content'[tmp'] = job[w].data
             /\ Stored' = Stored
    BY <2>1, <2>2, <2>3, <2>4 DEF FileInv, Busy
  <2>5. CASE job'[w] = Idle /\ Stored' \in {Stored, job[w].data}
    <3>1. \A v \in Jobs : ~Busy(v)'
      BY <2>2, <2>5 DEF Busy, Idle
    <3>2. Stored'.seq <= saves'
      BY <2>1, <2>3, <2>5
    <3>3. \A v \in Jobs : job'[v].stage = "none"
      BY <3>1 DEF Busy
    <3>4. QED
      BY <3>1, <3>2, <3>3 DEF FileInv
  <2>6. QED
    BY <1>3, <2>4, <2>5, Writing
<1>4. CASE Crash
  <2>1. UNCHANGED <<files, saves>> /\ \A w \in Jobs : job'[w].stage = "none"
    BY <1>4 DEF Crash, Idle
  <2>2. Stored' = Stored
    BY <2>1 DEF files, Stored
  <2>3. QED
    BY <2>1, <2>2 DEF FileInv, Busy
<1>5. CASE ClearCache \/ Sigint \/ ShutdownFlush \/ Exit
  BY <1>5 DEF Steady, ClearCache, Sigint, ShutdownFlush, Exit, ApartInv
<1>6. ASSUME NEW h \in Handlers, Accept(h) \/ Answer(h) \/ Insert(h) \/ CheckDebounce(h)
      PROVE  UNCHANGED <<files, saves, job>>
  BY <1>6 DEF Accept, Answer, Insert, CheckDebounce, counts
<1>7. ASSUME (\E e \in mem : Delete(e)) \/ Restart \/ Tick \/ UNCHANGED vars
      PROVE  UNCHANGED <<files, saves, job>>
  BY <1>7 DEF Delete, Restart, Tick, vars, files, counts
<1>8. QED
  BY <1>1, <1>2, <1>3, <1>4, <1>5, <1>6, <1>7 DEF Next, HandlerStep

-------------------------------------------------------------------------------
(* The snapshot file only moves forward.                                   *)

\* What a step may do to the stored snapshot.
LEMMA StoredMoves ==
    ASSUME Steady, TypeOK, ApartInv, FileInv, [Next]_vars
    PROVE  \/ Stored' = Stored
           \/ \E w \in Jobs : Busy(w) /\ WriterStep(w) /\ Stored' = job[w].data
<1>1. ASSUME NEW h \in Handlers, Accept(h) \/ HandlerStep(h)
      PROVE  Stored' = Stored
  BY <1>1 DEF HandlerStep, Accept, Answer, Insert, CheckDebounce, Collect, files, Stored
<1>2. ASSUME NEW w \in Jobs, WriterStep(w)
      PROVE  Busy(w) /\ Stored' \in {Stored, job[w].data}
  BY <1>2, Writing
<1>3. CASE ClearCache \/ Sigint \/ ShutdownFlush \/ Exit
  BY <1>3 DEF Steady, ClearCache, Sigint, ShutdownFlush, Exit, ApartInv
<1>4. ASSUME (\E e \in mem : Delete(e)) \/ Crash \/ Restart \/ Tick \/ UNCHANGED vars
      PROVE  Stored' = Stored
  BY <1>4 DEF Delete, Crash, Restart, Tick, vars, files, Stored
<1>5. QED
  BY <1>1, <1>2, <1>3, <1>4 DEF Next

LEMMA InitApart == Init => TypeOK /\ ApartInv /\ FileInv
<1> SUFFICES ASSUME Init PROVE TypeOK /\ ApartInv /\ FileInv
  OBVIOUS
<1>1. TypeOK
  BY BoundsAssumption, DebounceAssumption
     DEF Init, TypeOK, Idle, Unreadable, Snapshots, Origins, Inodes, Entries
<1>2. ApartInv
  BY DebounceAssumption DEF Init, ApartInv, Saving, Busy, Idle
<1>3. FileInv
  BY DEF Init, FileInv, Stored, Unreadable, Busy, Idle
<1>4. QED
  BY <1>1, <1>2, <1>3

\* The snapshot file only moves forward, whatever the moments of crashes and restarts,
\* although write_snapshot_to_disk has no lock and one temporary file for all.
THEOREM FileAdvances ==
    ASSUME Steady
    PROVE  Spec => SavesAdvance
<1>1. TypeOK /\ ApartInv /\ FileInv /\ [Next]_vars => TypeOK' /\ ApartInv' /\ FileInv'
  BY NextType, NextApart, NextFile
<1>2. ASSUME TypeOK, ApartInv, FileInv, [Next]_vars
      PROVE  Stored'.seq >= Stored.seq
  <2>1. Stored.seq \in Nat /\ saves \in Nat
    BY <1>2 DEF Stored, TypeOK, Snapshots, Unreadable
  <2>2. \A w \in Jobs : Busy(w) => job[w].data.seq = saves /\ Stored.seq < saves
    BY <1>2 DEF FileInv
  <2>3. QED
    BY <1>2, <2>1, <2>2, StoredMoves
<1>3. TypeOK /\ ApartInv /\ FileInv /\ [Next]_vars => [Stored'.seq >= Stored.seq]_vars
  BY <1>2
<1>4. QED
  BY InitApart, <1>1, <1>3, PTL DEF Spec, SavesAdvance

-------------------------------------------------------------------------------
(* What was deleted stays away.                                            *)

\* Entries are never inserted twice, and what was deleted is in no snapshot that was
\* collected later, be it in a writer or in the file.
DeletedInv ==
    /\ \A e \in mem \cup Stored.set : e.n <= inserts
    /\ \A w \in Jobs : Busy(w) => \A e \in job[w].data.set : e.n <= inserts
    /\ \A d \in deleted :
          /\ d.entry.n <= inserts
          /\ d.entry \notin mem
          /\ Stored.seq > d.seq => d.entry \notin Stored.set
          /\ \A w \in Jobs : Busy(w) /\ job[w].data.seq > d.seq => d.entry \notin job[w].data.set

LEMMA NextDeleted ==
    ASSUME Steady, TypeOK, ApartInv, FileInv, DeletedInv, [Next]_vars
    PROVE  DeletedInv'
<1>1. ASSUME NEW h \in Handlers, Accept(h) \/ Answer(h) \/ CheckDebounce(h)
      PROVE  DeletedInv'
  <2>1. UNCHANGED <<mem, job, files, inserts, deleted>>
    BY <1>1 DEF Accept, Answer, CheckDebounce, counts
  <2>2. QED
    BY <2>1 DEF DeletedInv, Stored, files, Busy
<1>2. ASSUME NEW h \in Handlers, Insert(h)
      PROVE  DeletedInv'
  <2>1. /\ UNCHANGED <<job, files, deleted>> /\ inserts' = inserts + 1 /\ inserts \in Nat
        /\ mem' \subseteq mem \cup {[n |-> inserts + 1, at |-> now]}
    BY <1>2 DEF Insert, TypeOK
  <2>2. Stored' = Stored /\ \A w \in Jobs : Busy(w)' <=> Busy(w)
    BY <2>1 DEF files, Stored, Busy
  <2>3. \A k \in Int : k <= inserts => k <= inserts'
    BY <2>1
  <2>4. /\ \A e \in mem \cup Stored.set : e.n \in Int
        /\ \A w \in Jobs : \A e \in job[w].data.set : e.n \in Int
        /\ \A d \in deleted : d.entry.n \in Int
    BY DEF TypeOK, Entries, Stored, Snapshots, Unreadable
  <2>5. \A d \in deleted : d.entry # [n |-> inserts + 1, at |-> now]
    BY <2>1, <2>4 DEF DeletedInv
  <2>6. \A e \in mem' \cup Stored'.set : e.n <= inserts'
    BY <2>1, <2>2, <2>3, <2>4 DEF DeletedInv
  <2>7. \A w \in Jobs : Busy(w)' => \A e \in job'[w].data.set : e.n <= inserts'
    BY <2>1, <2>2, <2>3, <2>4 DEF DeletedInv
  <2>8. \A d \in deleted' :
            /\ d.entry.n <= inserts'
            /\ d.entry \notin mem'
            /\ Stored'.seq > d.seq => d.entry \notin Stored'.set
            /\ \A w \in Jobs : Busy(w)' /\ job'[w].data.seq > d.seq => d.entry \notin job'[w].data.set
    BY <2>1, <2>2, <2>3, <2>4, <2>5 DEF DeletedInv
  <2>9. QED
    BY <2>6, <2>7, <2>8 DEF DeletedInv
<1>3. ASSUME NEW h \in Handlers, Collect(h)
      PROVE  DeletedInv'
  <2>1. PICK w \in Jobs :
            /\ job'[w].stage = "queued"
            /\ job'[w].data = [seq |-> saves + 1, set |-> mem]
            /\ \A v \in Jobs : v # w => ~Busy(v)'
    BY <1>3, Collecting
  <2>2. UNCHANGED <<mem, inserts, deleted, Stored>>
    BY <1>3, Collecting
  <2>3. QED
    BY <2>1, <2>2 DEF DeletedInv
<1>4. ASSUME NEW w \in Jobs, WriterStep(w)
      PROVE  DeletedInv'
  <2>1. /\ UNCHANGED <<mem, inserts, deleted>>
        /\ Busy(w)
        /\ \A v \in Jobs : v # w => job'[v] = job[v] /\ ~Busy(v)
        /\ job'[w].data = job[w].data \/ job'[w] = Idle
        /\ Stored' = Stored \/ Stored' = job[w].data
    BY <1>4, Writing DEF counts
  <2>2. \A v \in Jobs : Busy(v)' => Busy(v) /\ job'[v].data = job[v].data
    BY <2>1 DEF Busy, Idle
  <2>3. QED
    BY <2>1, <2>2 DEF DeletedInv
<1>5. ASSUME NEW e \in mem, Delete(e)
      PROVE  DeletedInv'
  <2>1. /\ UNCHANGED <<job, files, inserts>>
        /\ mem' = mem \ {e}
        /\ deleted' = deleted \cup {[entry |-> e, seq |-> saves]}
    BY <1>5 DEF Delete, counts
  <2>2. Stored' = Stored /\ \A w \in Jobs : Busy(w)' <=> Busy(w)
    BY <2>1 DEF files, Stored, Busy
  <2>3. /\ Stored.seq <= saves /\ Stored.seq \in Nat /\ saves \in Nat
        /\ \A w \in Jobs : Busy(w) => job[w].data.seq = saves
    BY DEF FileInv, TypeOK, Stored, Unreadable, Snapshots
  <2>4. ~(Stored.seq > saves) /\ \A w \in Jobs : Busy(w) => ~(job[w].data.seq > saves)
    BY <2>3
  <2>5. QED
    BY <2>1, <2>2, <2>4 DEF DeletedInv
<1>6. CASE Crash
  <2>1. UNCHANGED <<files, inserts, deleted>> /\ mem' = {} /\ \A w \in Jobs : job'[w].stage = "none"
    BY <1>6 DEF Crash, Idle
  <2>2. Stored' = Stored /\ \A w \in Jobs : ~Busy(w)'
    BY <2>1 DEF files, Stored, Busy
  <2>3. QED
    BY <2>1, <2>2 DEF DeletedInv
<1>7. CASE Restart
  <2>1. /\ UNCHANGED <<files, inserts, job>> /\ mem' = Stored.set
        /\ deleted' = {d \in deleted : d.entry \notin Stored.set}
    BY <1>7 DEF Restart, counts
  <2>2. Stored' = Stored /\ \A w \in Jobs : Busy(w)' <=> Busy(w)
    BY <2>1 DEF files, Stored, Busy
  <2>3. QED
    BY <2>1, <2>2 DEF DeletedInv
<1>8. CASE Tick \/ UNCHANGED vars
  <2>1. UNCHANGED <<mem, job, files, inserts, deleted>>
    BY <1>8 DEF Tick, vars, process, files
  <2>2. QED
    BY <2>1 DEF DeletedInv, Stored, files, Busy
<1>9. CASE ClearCache \/ Sigint \/ ShutdownFlush \/ Exit
  BY <1>9 DEF Steady, ClearCache, Sigint, ShutdownFlush, Exit, ApartInv
<1>10. QED
  BY <1>1, <1>2, <1>3, <1>4, <1>5, <1>6, <1>7, <1>8, <1>9 DEF Next, HandlerStep

\* Deletes are not saved, so a crash may bring back what was deleted; but once a later
\* snapshot is in the file, no older one takes its place and the entry stays away.
THEOREM DeletionHolds ==
    ASSUME Steady
    PROVE  Spec => DeletionSticks
<1>1. Init => DeletedInv
  BY DEF Init, DeletedInv, Stored, Unreadable, Busy, Idle
<1>2. TypeOK /\ ApartInv /\ FileInv /\ DeletedInv /\ [Next]_vars
        => TypeOK' /\ ApartInv' /\ FileInv' /\ DeletedInv'
  BY NextType, NextApart, NextFile, NextDeleted
<1>3. ASSUME TypeOK, ApartInv, FileInv, DeletedInv, [Next]_vars
      PROVE  \A d \in deleted : Stored.seq > d.seq => d.entry \notin Stored'.set
  <2> SUFFICES ASSUME NEW d \in deleted, Stored.seq > d.seq
               PROVE  d.entry \notin Stored'.set
    OBVIOUS
  <2>1. Stored.seq \in Nat /\ saves \in Nat /\ d.seq \in Int
    BY <1>3 DEF Stored, TypeOK, Snapshots, Unreadable
  <2>2. \A w \in Jobs : Busy(w) => job[w].data.seq = saves /\ Stored.seq < saves
    BY <1>3 DEF FileInv
  <2>3. \A w \in Jobs : Busy(w) => job[w].data.seq > d.seq
    BY <2>1, <2>2
  <2>4. QED
    BY <1>3, <2>3, StoredMoves DEF DeletedInv
<1>4. TypeOK /\ ApartInv /\ FileInv /\ DeletedInv /\ [Next]_vars =>
        [\A d \in deleted : Stored.seq > d.seq => d.entry \notin Stored'.set]_vars
  BY <1>3
<1>5. QED
  BY InitApart, <1>1, <1>2, <1>4, PTL DEF Spec, DeletionSticks

-------------------------------------------------------------------------------
(* How far the file is behind the memory.                                  *)

\* What a snapshot that is being written lacks is newer than what it has, and was
\* inserted since its save began.  What the file lacks is newer than what it has, and
\* was inserted since the last save began, if that is the one that is stored.  Unless a
\* save is under way, it was inserted within the debounce, or its handler has yet to
\* look at the time.
LagInv ==
    /\ \A e \in mem : e.at <= now
    /\ \A w \in Jobs : Busy(w) => \A e \in mem \ job[w].data.set : last <= e.at
    /\ \A w \in Jobs : Busy(w) =>
          \A e \in mem \ job[w].data.set, f \in job[w].data.set : f.n < e.n
    /\ \A e \in mem \ Stored.set, f \in Stored.set : f.n < e.n
    /\ ~Saving /\ Stored.seq = saves => \A e \in mem \ Stored.set : last <= e.at
    /\ ~Saving =>
          \A e \in mem \ Stored.set :
             e.at - last < Debounce \/ \E h \in Handlers : pc[h] = "inserted"
    /\ \A e \in Stored.set : e.at <= now
    /\ \A w \in Jobs : Busy(w) => \A e \in job[w].data.set : e.at <= now

LEMMA NextLag ==
    ASSUME Steady, TypeOK, ApartInv, FileInv, DeletedInv, LagInv, [Next]_vars
    PROVE  LagInv'
<1>0. /\ now \in Int /\ last \in Int /\ last <= now /\ Debounce \in Int
      /\ \A e \in mem : e.at \in Int
      /\ \A e \in Stored.set : e.at \in Int
      /\ \A w \in Jobs : \A e \in job[w].data.set : e.at \in Int
  BY DebounceAssumption DEF TypeOK, ApartInv, Entries, Stored, Snapshots, Unreadable
<1>1. ASSUME NEW h \in Handlers, Accept(h) \/ Answer(h)
      PROVE  LagInv'
  <2>1. /\ UNCHANGED <<mem, last, job, files, now, saves>>
        /\ \A g \in Handlers : /\ pc'[g] = "passed" <=> pc[g] = "passed"
                               /\ pc'[g] = "inserted" <=> pc[g] = "inserted"
    BY <1>1 DEF Accept, Answer, counts, TypeOK
  <2>2. Stored' = Stored /\ (Saving' <=> Saving) /\ \A w \in Jobs : Busy(w)' <=> Busy(w)
    BY <2>1 DEF files, Stored, Busy, Saving
  <2>3. QED
    BY <2>1, <2>2 DEF LagInv
<1>2. ASSUME NEW h \in Handlers, Insert(h)
      PROVE  LagInv'
  <2>1. /\ UNCHANGED <<last, job, files, now, saves>>
        /\ pc'[h] = "inserted"
        /\ \A g \in Handlers : pc'[g] = "passed" <=> pc[g] = "passed"
        /\ \A e \in mem' : e \in mem \/ (e.at = now /\ e.n = inserts + 1)
        /\ inserts \in Int
    BY <1>2 DEF Insert, TypeOK
  <2>2. Stored' = Stored /\ (Saving' <=> Saving) /\ \A w \in Jobs : Busy(w)' <=> Busy(w)
    BY <2>1 DEF files, Stored, Busy, Saving
  <2>3. /\ \A f \in Stored.set : f.n \in Int /\ f.n <= inserts
        /\ \A w \in Jobs : Busy(w) => \A f \in job[w].data.set : f.n \in Int /\ f.n <= inserts
    BY DEF DeletedInv, TypeOK, Entries, Stored, Snapshots, Unreadable
  <2>4. \A e \in mem' : e.at <= now'
    BY <1>0, <2>1 DEF LagInv
  <2>5. \A w \in Jobs : Busy(w)' => \A e \in mem' \ job'[w].data.set : last' <= e.at
    BY <1>0, <2>1, <2>2 DEF LagInv
  <2>6. ~Saving' /\ Stored'.seq = saves' => \A e \in mem' \ Stored'.set : last' <= e.at
    BY <1>0, <2>1, <2>2 DEF LagInv
  <2>7. \A k \in Int : k <= inserts => k < inserts + 1
    BY <2>1
  <2>8. \A e \in mem' \ Stored'.set, f \in Stored'.set : f.n < e.n
    BY <2>1, <2>2, <2>3, <2>7 DEF LagInv
  <2>9. \A w \in Jobs : Busy(w)' =>
           \A e \in mem' \ job'[w].data.set, f \in job'[w].data.set : f.n < e.n
    BY <2>1, <2>2, <2>3, <2>7 DEF LagInv
  <2>10. QED
    BY <2>1, <2>2, <2>4, <2>5, <2>6, <2>8, <2>9 DEF LagInv
<1>3. ASSUME NEW h \in Handlers, CheckDebounce(h)
      PROVE  LagInv'
  <2>1. UNCHANGED <<mem, job, files, now, saves>>
    BY <1>3 DEF CheckDebounce, counts
  <2>2. Stored' = Stored /\ \A w \in Jobs : Busy(w)' <=> Busy(w)
    BY <2>1 DEF files, Stored, Busy
  <2>3. CASE now - last < Debounce
    <3>1. last' = last /\ \A g \in Handlers : pc'[g] = "passed" <=> pc[g] = "passed"
      BY <1>0, <1>3, <2>3 DEF CheckDebounce, TypeOK
    <3>2. Saving' <=> Saving
      BY <2>1, <3>1 DEF Saving
    <3>3. \A e \in mem : e.at - last < Debounce
      BY <1>0, <2>3 DEF LagInv
    <3>4. QED
      BY <2>1, <2>2, <3>1, <3>2, <3>3 DEF LagInv
  <2>4. CASE now - last >= Debounce
    <3>1. pc'[h] = "passed" /\ last' = now
      BY <1>0, <1>3, <2>4 DEF CheckDebounce, TypeOK
    <3>2. Saving'
      BY <3>1 DEF Saving
    <3>3. ~Saving
      BY <1>0, <2>4 DEF ApartInv
    <3>4. \A w \in Jobs : ~Busy(w)'
      BY <2>2, <3>3 DEF Saving, Busy
    <3>5. QED
      BY <2>1, <2>2, <3>2, <3>4 DEF LagInv
  <2>5. QED
    BY <1>0, <2>3, <2>4
<1>4. ASSUME NEW h \in Handlers, Collect(h)
      PROVE  LagInv'
  <2>1. PICK w \in Jobs :
            /\ job'[w].stage = "queued"
            /\ job'[w].data = [seq |-> saves + 1, set |-> mem]
            /\ \A v \in Jobs : v # w => ~Busy(v)'
    BY <1>4, Collecting
  <2>2. UNCHANGED <<mem, now, Stored>>
    BY <1>4, Collecting
  <2>3. Saving'
    BY <2>1 DEF Saving
  <2>4. QED
    BY <2>1, <2>2, <2>3 DEF LagInv
<1>5. ASSUME NEW w \in Jobs, WriterStep(w)
      PROVE  LagInv'
  <2>1. /\ UNCHANGED <<mem, pc, last, now, saves>>
        /\ Busy(w)
        /\ \A v \in Jobs : v # w => job'[v] = job[v] /\ ~Busy(v)
        /\ \/ job'[w].data = job[w].data /\ job'[w].stage \in {"opened", "written"} /\ Stored' = Stored
           \/ job'[w] = Idle /\ Stored' = Stored
           \/ job'[w] = Idle /\ Stored' = job[w].data
    BY <1>5, Writing DEF counts
  <2>2. \A v \in Jobs : Busy(v)' => Busy(v) /\ job'[v].data = job[v].data
    BY <2>1 DEF Busy, Idle
  <2>3. CASE job'[w].stage \in {"opened", "written"} /\ Stored' = Stored
    <3>1. Saving'
      BY <2>3 DEF Saving
    <3>2. QED
      BY <2>1, <2>2, <2>3, <3>1 DEF LagInv
  <2>4. CASE job'[w] = Idle /\ Stored' = Stored
    <3>1. now - last < Debounce
      BY <2>1 DEF ApartInv, Saving, Busy
    <3>2. \A e \in mem : e.at - last < Debounce
      BY <1>0, <3>1 DEF LagInv
    <3>3. Stored'.seq # saves'
      BY <2>1, <2>4 DEF FileInv, TypeOK
    <3>4. QED
      BY <2>1, <2>2, <2>4, <3>2, <3>3 DEF LagInv
  <2>5. CASE Stored' = job[w].data
    <3>1. now - last < Debounce
      BY <2>1 DEF ApartInv, Saving, Busy
    <3>2. \A e \in mem \ job[w].data.set : last <= e.at /\ e.at - last < Debounce
      BY <1>0, <2>1, <3>1 DEF LagInv
    <3>3. QED
      BY <2>1, <2>2, <2>5, <3>2 DEF LagInv
  <2>6. QED
    BY <2>1, <2>3, <2>4, <2>5
<1>6. ASSUME NEW e \in mem, Delete(e)
      PROVE  LagInv'
  <2>1. UNCHANGED <<job, files, pc, last, now, saves>> /\ mem' = mem \ {e}
    BY <1>6 DEF Delete, counts
  <2>2. Stored' = Stored /\ (Saving' <=> Saving) /\ \A w \in Jobs : Busy(w)' <=> Busy(w)
    BY <2>1 DEF files, Stored, Busy, Saving
  <2>3. QED
    BY <2>1, <2>2 DEF LagInv
<1>7. CASE Crash
  <2>1. UNCHANGED <<files, now>> /\ mem' = {} /\ \A w \in Jobs : job'[w].stage = "none"
    BY <1>7 DEF Crash, Idle
  <2>2. Stored' = Stored /\ \A w \in Jobs : ~Busy(w)'
    BY <2>1 DEF files, Stored, Busy
  <2>3. QED
    BY <2>1, <2>2 DEF LagInv
<1>8. CASE Restart
  <2>1. UNCHANGED <<files, now, job>> /\ mem' = Stored.set /\ mode = "crashed"
    BY <1>8 DEF Restart, counts, ApartInv
  <2>2. Stored' = Stored /\ \A w \in Jobs : ~Busy(w)'
    BY <2>1 DEF files, Stored, Busy, Saving, ApartInv
  <2>3. QED
    BY <2>1, <2>2 DEF LagInv
<1>9. CASE Tick
  <2>1. UNCHANGED <<mem, pc, last, job, files, saves>> /\ now' = now + 1
    BY <1>9 DEF Tick, process
  <2>2. Stored' = Stored /\ (Saving' <=> Saving) /\ \A w \in Jobs : Busy(w)' <=> Busy(w)
    BY <2>1 DEF files, Stored, Busy, Saving
  <2>3. \A k \in Int : k <= now => k <= now'
    BY <1>0, <2>1
  <2>4. /\ \A e \in mem : e.at <= now'
        /\ \A e \in Stored.set : e.at <= now'
        /\ \A w \in Jobs : Busy(w) => \A e \in job[w].data.set : e.at <= now'
    BY <1>0, <2>3 DEF LagInv
  <2>5. QED
    BY <2>1, <2>2, <2>4 DEF LagInv
<1>10. CASE UNCHANGED vars
  BY <1>10 DEF vars, LagInv, Stored, Saving, Busy
<1>11. CASE ClearCache \/ Sigint \/ ShutdownFlush \/ Exit
  BY <1>11 DEF Steady, ClearCache, Sigint, ShutdownFlush, Exit, ApartInv
<1>12. QED
  BY <1>1, <1>2, <1>3, <1>4, <1>5, <1>6, <1>7, <1>8, <1>9, <1>10, <1>11 DEF Next, HandlerStep

\* What a crash loses is newer than what it leaves, although saves fail at any of their
\* three calls; and when nothing is being saved it was inserted within one debounce of
\* the start of the last save, and none of it before, if that save is stored.
THEOREM LagBounded ==
    ASSUME Steady
    PROVE  Spec => []LagBound
<1>1. Init => LagInv
  BY DEF Init, LagInv, Stored, Unreadable, Busy, Idle
<1>2. Init => DeletedInv
  BY DEF Init, DeletedInv, Stored, Unreadable, Busy, Idle
<1>3. TypeOK /\ ApartInv /\ FileInv /\ DeletedInv /\ LagInv /\ [Next]_vars
        => TypeOK' /\ ApartInv' /\ FileInv' /\ DeletedInv' /\ LagInv'
  BY NextType, NextApart, NextFile, NextDeleted, NextLag
<1>4. LagInv => LagBound
  BY DEF LagInv, LagBound, Quiet
<1>5. QED
  BY InitApart, <1>1, <1>2, <1>3, <1>4, PTL DEF Spec

===============================================================================
