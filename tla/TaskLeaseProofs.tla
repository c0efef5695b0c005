--------------------------- MODULE TaskLeaseProofs ---------------------------
(***************************************************************************)
(* A lease lapses under the thread that executes, and two processes        *)
(* execute one task, only after a renewal chain has died or was late by    *)
(* TTL - RenewInterval; and a chain outlives its thread only when          *)
(* stop_renewal found its callback under way.  For every number of         *)
(* processes, tasks and leases, every TTL and every shorter interval.      *)
(***************************************************************************)
EXTENDS TaskLease, Integers, TLAPS

\* The unique indexes: a lease id and a task have one row at most.
UniqueRows ==
  \A r, s \in rows : r.id = s.id \/ r.task = s.task => r = s

\* A thread has a lease exactly when it is not idle, no two threads have the
\* same one, and the row of a thread's lease is one of its task.
OwnLeases ==
  /\ \A p \in Process, t \in Task : thread[p][t].pc = "idle" <=> thread[p][t].id = NoLease
  /\ \A p, q \in Process, t, u \in Task :
       thread[p][t].id = thread[q][u].id /\ thread[p][t].id # NoLease => p = q /\ t = u
  /\ \A p \in Process, t \in Task : \A r \in rows : r.id = thread[p][t].id => r.task = t

\* The chain of a thread's lease runs in the thread's process, and is unarmed
\* exactly until start_renewal.
OwnChains ==
  \A p \in Process, t \in Task :
    LET c == chain[thread[p][t].id]
    IN thread[p][t].pc # "idle" =>
         /\ c.st # "none" => c.owner = p
         /\ thread[p][t].pc = "acquired" <=> c.st = "unarmed"

\* A chain that belongs to no executing thread was left running.
LooseEnds ==
  \A id \in LeaseId : chain[id].st # "none" =>
    \/ chain[id].loose
    \/ \E p \in Process, t \in Task : thread[p][t].id = id /\ Executes(p, t)

\* What is left of a lease and the delays since its expires_at was computed
\* make up at least what its chain can count on.
Due(c) == IF c.st = "armed" THEN TTL - RenewInterval + c.left
          ELSE IF c.st = "fired" THEN TTL - RenewInterval ELSE TTL
Backed(id) == \E r \in rows : r.id = id /\ r.left + chain[id].late >= Due(chain[id])
Covered(p, t) ==
  /\ Executes(p, t) /\ chain[thread[p][t].id].st # "none" /\ ~ Overdue(thread[p][t].id)
Renewable == \A p \in Process, t \in Task : Covered(p, t) => Backed(thread[p][t].id)

LeaseInv == TypeOK /\ UniqueRows /\ OwnLeases /\ OwnChains /\ LooseEnds /\ Renewable

\* At most one process at a time executes a task with a lease it may count on:
\* its renewal chain is alive and was not late by TTL - RenewInterval.
OneCoveredExecution ==
  \A p, q \in Process, t \in Task : Covered(p, t) /\ Covered(q, t) => p = q

\* A renewal chain without a thread is one that stop_renewal could not stop.
LooseChainsOnly ==
  \A id \in LeaseId : chain[id].st # "none" /\ Orphan(id) => chain[id].loose

------------------------------------------------------------------------------
LEMMA ChainTypes ==
  /\ Quiet \in Chain /\ Quiet.st = "none" /\ Quiet.left = 0 /\ Quiet.late = 0
  /\ \A c \in Chain : /\ Armed(c) \in Chain /\ Armed(c).st = "armed"
                      /\ Armed(c).left = RenewInterval /\ Armed(c).late = c.late
                      /\ Armed(c).owner = c.owner /\ Armed(c).loose = c.loose
  /\ \A p \in Process, w \in 0..TTL :
       LET c == Unarmed(p, w)
       IN c \in Chain /\ c.st = "unarmed" /\ c.late = w /\ c.owner = p
  /\ \A c \in Chain : LET k == Cancelled(c)
                      IN /\ k \in Chain /\ k.owner \in {c.owner, "none"}
                         /\ k.st # "none" => k.owner = c.owner
                         /\ k.st # "none" => k.loose \/ c.st = "unarmed"
  <1> USE LeaseAssumption
  <1>1. Quiet \in Chain /\ Quiet.st = "none" /\ Quiet.left = 0 /\ Quiet.late = 0 /\ Quiet.owner = "none"
    BY DEF Quiet, Chain
  <1>2. ASSUME NEW c \in Chain
        PROVE  /\ Armed(c) \in Chain /\ Armed(c).st = "armed"
               /\ Armed(c).left = RenewInterval /\ Armed(c).late = c.late
               /\ Armed(c).owner = c.owner /\ Armed(c).loose = c.loose
    <2>1. RenewInterval \in 0..TTL
      OBVIOUS
    <2> QED  BY <2>1 DEF Armed, Chain
  <1>3. ASSUME NEW p \in Process, NEW w \in 0..TTL
        PROVE  LET c == Unarmed(p, w)
               IN c \in Chain /\ c.st = "unarmed" /\ c.late = w /\ c.owner = p
    BY <1>1 DEF Unarmed, Chain
  <1>4. ASSUME NEW c \in Chain
        PROVE  LET k == Cancelled(c)
               IN /\ k \in Chain /\ k.owner \in {c.owner, "none"}
                  /\ k.st # "none" => k.owner = c.owner
                  /\ k.st # "none" => k.loose \/ c.st = "unarmed"
    <2>1. CASE c.st = "armed"
      BY <1>1, <2>1 DEF Cancelled
    <2>2. CASE c.st \in {"fired", "renewed"}
      <3> DEFINE k == [c EXCEPT !.loose = TRUE]
      <3>1. k \in Chain /\ k.owner = c.owner /\ k.loose
        BY DEF Chain
      <3>2. Cancelled(c) = k
        BY <2>2 DEF Cancelled
      <3> HIDE DEF k
      <3> QED  BY <3>1, <3>2
    <2>3. CASE c.st \in {"none", "unarmed"}
      BY <2>3 DEF Cancelled
    <2> QED  BY <2>1, <2>2, <2>3 DEF Chain
  <1> QED  BY <1>1, <1>2, <1>3, <1>4

LEMMA LeaseInit == Init => LeaseInv
  <1> SUFFICES ASSUME Init PROVE LeaseInv
    OBVIOUS
  <1> USE LeaseAssumption
  <1>1. TypeOK
    BY ChainTypes DEF Init, TypeOK, Resting, NoLease
  <1>2. UniqueRows /\ OwnLeases
    BY DEF Init, UniqueRows, OwnLeases, Resting, NoLease
  <1>3. OwnChains /\ LooseEnds /\ Renewable
    BY ChainTypes DEF Init, OwnChains, LooseEnds, Renewable, Covered, Executes, Resting, NoLease
  <1> QED  BY <1>1, <1>2, <1>3 DEF LeaseInv

------------------------------------------------------------------------------
\* The steps of a thread: which leases are executed under shrinks to the ones
\* that were before, except for the one that is acquired.
LEMMA LeaseStep == LeaseInv /\ [Next]_vars => LeaseInv'
  <1> SUFFICES ASSUME LeaseInv, [Next]_vars PROVE LeaseInv'
    OBVIOUS
  <1> USE LeaseAssumption
  <1>0. TypeOK /\ UniqueRows /\ OwnLeases /\ OwnChains /\ LooseEnds /\ Renewable
    BY DEF LeaseInv
  <1>a. \A id \in LeaseId : chain[id] \in Chain
    BY <1>0 DEF TypeOK
  <1>b. \A p \in Process, t \in Task :
          /\ thread[p][t].id \in LeaseId \cup {NoLease}
          /\ thread[p][t].pc # "idle" => thread[p][t].id \in LeaseId
    BY <1>0 DEF TypeOK, OwnLeases
  <1>1. ASSUME NEW p \in Process, NEW t \in Task, Acquire(p, t) PROVE LeaseInv'
    <2>0. PICK id \in LeaseId, wait \in 0..TTL :
            /\ Unused(id)
            /\ rows' = {r \in rows : r.task # t} \cup {Inserted(id, t, wait)}
            /\ chain' = [chain EXCEPT ![id] = Unarmed(p, wait)]
            /\ thread' = [thread EXCEPT ![p][t] = [pc |-> "acquired", id |-> id]]
      BY <1>1 DEF Acquire
    <2>1. /\ thread[p][t].pc = "idle" /\ renewFailed' = renewFailed
          /\ \A r \in rows : r.task = t => r.left = 0
      BY <1>1 DEF Acquire
    <2> DEFINE new == Inserted(id, t, wait)
               c == Unarmed(p, wait)
    <2>2. /\ new \in [id : LeaseId, task : Task, left : 0..TTL]
          /\ new.id = id /\ new.task = t /\ new.left = TTL - wait
      BY DEF Inserted
    <2>3. c \in Chain /\ c.st = "unarmed" /\ c.late = wait /\ c.owner = p
      BY ChainTypes
    <2> HIDE DEF new, c
    <2>4. /\ rows' = {r \in rows : r.task # t} \cup {new} /\ chain' = [chain EXCEPT ![id] = c]
      BY <2>0 DEF new, c
    <2>5. /\ chain'[id] = c /\ \A i \in LeaseId : i # id => chain'[i] = chain[i]
          /\ thread'[p][t] = [pc |-> "acquired", id |-> id]
          /\ \A q \in Process, u \in Task : ~ (q = p /\ u = t) => thread'[q][u] = thread[q][u]
      BY <1>0, <2>0, <2>4 DEF TypeOK
    <2>6. /\ \A r \in rows : r.id # id /\ chain[id].st = "none"
          /\ \A q \in Process, u \in Task : thread[q][u].id # id
      BY <2>0 DEF Unused
    <2>7. TypeOK'
      BY <1>0, <2>0, <2>1, <2>2, <2>3, <2>4 DEF TypeOK
    <2>8. UniqueRows'
      BY <1>0, <2>2, <2>4, <2>6 DEF UniqueRows
    <2>9. OwnLeases'
      BY <1>0, <1>b, <2>2, <2>4, <2>5, <2>6 DEF OwnLeases, NoLease
    <2>10. OwnChains'
      BY <1>0, <1>b, <2>3, <2>5, <2>6 DEF OwnChains
    <2>11. LooseEnds'
      <3> SUFFICES ASSUME NEW i \in LeaseId, chain'[i].st # "none", ~ chain'[i].loose
                   PROVE  \E q \in Process, u \in Task : thread'[q][u].id = i /\ Executes(q, u)'
        BY DEF LooseEnds
      <3>1. CASE i = id
        BY <2>5, <3>1 DEF Executes
      <3>2. CASE i # id
        <4>1. PICK q \in Process, u \in Task : thread[q][u].id = i /\ Executes(q, u)
          BY <1>0, <2>5, <3>2 DEF LooseEnds
        <4>2. ~ (q = p /\ u = t)
          BY <2>1, <4>1 DEF Executes
        <4> QED  BY <2>5, <4>1, <4>2 DEF Executes
      <3> QED  BY <3>1, <3>2
    <2>12. Renewable'
      <3> SUFFICES ASSUME NEW q \in Process, NEW u \in Task, Covered(q, u)'
                   PROVE  Backed(thread[q][u].id)'
        BY DEF Renewable
      <3>1. CASE q = p /\ u = t
        <4>1. thread'[q][u].id = id /\ new \in rows' /\ new.left + c.late = TTL
          BY <2>2, <2>3, <2>4, <2>5, <3>1
        <4>2. Due(c) = TTL
          BY <2>3 DEF Due
        <4> QED  BY <2>2, <2>5, <4>1, <4>2 DEF Backed, Due
      <3>2. CASE ~ (q = p /\ u = t)
        <4>0. PICK i \in LeaseId : i = thread[q][u].id
          BY <1>b, <2>5, <3>2 DEF Covered, Executes
        <4>1. thread'[q][u] = thread[q][u] /\ i # id
          BY <2>5, <2>6, <3>2, <4>0
        <4>2. chain'[i] = chain[i] /\ Covered(q, u)
          BY <2>5, <4>0, <4>1 DEF Covered, Executes, Overdue
        <4>3. PICK r \in rows : r.id = i /\ r.left + chain[i].late >= Due(chain[i])
          BY <1>0, <4>0, <4>2 DEF Renewable, Backed
        <4>4. chain[i].late < TTL - RenewInterval /\ chain[i] \in Chain /\ r.left \in 0..TTL
          BY <1>0, <1>a, <4>0, <4>2 DEF Covered, Overdue, TypeOK, Chain
        <4>5. Due(chain[i]) >= TTL - RenewInterval
          BY <4>4 DEF Due, Chain
        <4>6. chain[i].late \in 0..TTL /\ Due(chain[i]) \in Int
          BY <4>4 DEF Chain, Due
        <4>7. r.left > 0
          BY <4>3, <4>4, <4>5, <4>6
        <4>8. r \in rows'
          BY <2>1, <2>4, <4>7
        <4>9. Backed(i)'
          BY <4>2, <4>3, <4>8 DEF Backed, Due
        <4> QED  BY <4>0, <4>1, <4>9
      <3> QED  BY <3>1, <3>2
    <2> QED  BY <2>7, <2>8, <2>9, <2>10, <2>11, <2>12 DEF LeaseInv
  \* A step of one thread that has a lease, and of the lease's chain: the other
  \* threads and their leases stay as they are.
  <1>2. ASSUME NEW p \in Process, NEW t \in Task, NEW id \in LeaseId, id = thread[p][t].id,
               thread[p][t].pc # "idle",
               NEW k \in [pc : {"idle", "acquired", "running", "releasing", "finally", "last"},
                          id : LeaseId \cup {NoLease}],
               k = Resting \/ (k.id = id /\ k.pc \notin {"idle", "acquired"}),
               NEW c \in Chain, c.st # "none" => c.owner = p, c.st # "unarmed",
               thread' = [thread EXCEPT ![p][t] = k], chain' = [chain EXCEPT ![id] = c],
               rows' = rows \/ (rows' = {r \in rows : r.id # id} /\ k.pc # "running"),
               renewFailed' \in [Process -> BOOLEAN],
               c.st # "none" => c.loose \/ k.pc = "running",
               k.pc = "running" /\ c.st # "none" /\ ~ (c.late >= TTL - RenewInterval) =>
                 \E r \in rows : r.id = id /\ r.left + c.late >= Due(c)
        PROVE  LeaseInv'
    <2>1. /\ thread'[p][t] = k /\ chain'[id] = c
          /\ \A i \in LeaseId : i # id => chain'[i] = chain[i]
          /\ \A q \in Process, u \in Task : ~ (q = p /\ u = t) => thread'[q][u] = thread[q][u]
      BY <1>0, <1>2 DEF TypeOK
    <2>2. \A q \in Process, u \in Task : ~ (q = p /\ u = t) => thread[q][u].id # id
      BY <1>0, <1>2 DEF OwnLeases, NoLease
    <2>3. rows' \subseteq rows /\ \A r \in rows : r.id # id => r \in rows'
      BY <1>2
    <2>4. TypeOK'
      BY <1>0, <1>2, <2>3 DEF TypeOK
    <2>5. UniqueRows'
      BY <1>0, <2>3 DEF UniqueRows
    <2>6. OwnLeases'
      <3>1. id # NoLease /\ (k.pc = "idle" <=> k.id = NoLease) /\ k.id \in {id, NoLease}
        BY <1>2 DEF Resting, NoLease
      <3>2. \A q \in Process, u \in Task : thread'[q][u].pc = "idle" <=> thread'[q][u].id = NoLease
        BY <1>0, <2>1, <3>1 DEF OwnLeases
      <3>3. \A q, r \in Process, u, v \in Task :
              thread'[q][u].id = thread'[r][v].id /\ thread'[q][u].id # NoLease => q = r /\ u = v
        BY <1>0, <2>1, <2>2, <3>1 DEF OwnLeases
      <3>4. \A q \in Process, u \in Task : \A r \in rows' : r.id = thread'[q][u].id => r.task = u
        <4>1. \A r \in rows : r.id \in LeaseId /\ r.id # NoLease
          BY <1>0 DEF TypeOK, NoLease
        <4>2. \A r \in rows : r.id = id => r.task = t
          BY <1>0, <1>2 DEF OwnLeases
        <4>3. \A r \in rows' : r.id = thread'[p][t].id => r.task = t
          BY <2>1, <2>3, <3>1, <4>1, <4>2
        <4>4. \A q \in Process, u \in Task : ~ (q = p /\ u = t) =>
                \A r \in rows' : r.id = thread'[q][u].id => r.task = u
          BY <1>0, <2>1, <2>3 DEF OwnLeases
        <4> QED  BY <4>3, <4>4
      <3> QED  BY <3>2, <3>3, <3>4 DEF OwnLeases
    <2>7. OwnChains'
      <3> SUFFICES ASSUME NEW q \in Process, NEW u \in Task, thread'[q][u].pc # "idle"
                   PROVE  /\ chain'[thread'[q][u].id].st # "none" => chain'[thread'[q][u].id].owner = q
                          /\ thread'[q][u].pc = "acquired" <=> chain'[thread'[q][u].id].st = "unarmed"
        BY DEF OwnChains
      <3>1. CASE q = p /\ u = t
        <4>1. k.id = id /\ k.pc # "acquired"
          BY <1>2, <2>1, <3>1 DEF Resting
        <4> QED  BY <1>2, <2>1, <3>1, <4>1
      <3>2. CASE ~ (q = p /\ u = t)
        BY <1>0, <1>b, <2>1, <2>2, <3>2 DEF OwnChains
      <3> QED  BY <3>1, <3>2
    <2>8. LooseEnds'
      <3> SUFFICES ASSUME NEW i \in LeaseId, chain'[i].st # "none", ~ chain'[i].loose
                   PROVE  \E q \in Process, u \in Task : thread'[q][u].id = i /\ Executes(q, u)'
        BY DEF LooseEnds
      <3>1. CASE i = id
        <4>1. k.pc = "running" /\ k.id = id
          BY <1>2, <2>1, <3>1 DEF Resting
        <4> QED  BY <2>1, <3>1, <4>1 DEF Executes
      <3>2. CASE i # id
        <4>1. PICK q \in Process, u \in Task : thread[q][u].id = i /\ Executes(q, u)
          BY <1>0, <2>1, <3>2 DEF LooseEnds
        <4>2. ~ (q = p /\ u = t)
          BY <1>2, <3>2, <4>1
        <4> QED  BY <2>1, <4>1, <4>2 DEF Executes
      <3> QED  BY <3>1, <3>2
    <2>9. Renewable'
      <3> SUFFICES ASSUME NEW q \in Process, NEW u \in Task, Covered(q, u)'
                   PROVE  Backed(thread[q][u].id)'
        BY DEF Renewable
      <3>1. CASE q = p /\ u = t
        <4>1. k.pc = "running" /\ k.id = id /\ rows' = rows
          BY <1>2, <2>1, <3>1 DEF Covered, Executes, Resting
        <4>2. c.st # "none" /\ ~ (c.late >= TTL - RenewInterval)
          BY <2>1, <3>1, <4>1 DEF Covered, Overdue
        <4>3. PICK r \in rows : r.id = id /\ r.left + c.late >= Due(c)
          BY <1>2, <4>1, <4>2
        <4>4. Backed(id)'
          BY <2>1, <4>1, <4>3 DEF Backed, Due
        <4> QED  BY <2>1, <3>1, <4>1, <4>4
      <3>2. CASE ~ (q = p /\ u = t)
        <4>0. PICK i \in LeaseId : i = thread[q][u].id
          BY <1>b, <2>1, <3>2 DEF Covered, Executes
        <4>1. thread'[q][u] = thread[q][u] /\ i # id
          BY <2>1, <2>2, <3>2, <4>0
        <4>2. chain'[i] = chain[i] /\ Covered(q, u)
          BY <2>1, <4>0, <4>1 DEF Covered, Executes, Overdue
        <4>3. PICK r \in rows : r.id = i /\ r.left + chain[i].late >= Due(chain[i])
          BY <1>0, <4>0, <4>2 DEF Renewable, Backed
        <4>4. r \in rows'
          BY <2>3, <4>1, <4>3
        <4>5. Backed(i)'
          BY <4>2, <4>3, <4>4 DEF Backed, Due
        <4> QED  BY <4>0, <4>1, <4>5
      <3> QED  BY <3>1, <3>2
    <2> QED  BY <2>4, <2>5, <2>6, <2>7, <2>8, <2>9 DEF LeaseInv
  <1>3. ASSUME NEW p \in Process, NEW t \in Task, StartRenewal(p, t) PROVE LeaseInv'
    <2>1. PICK id \in LeaseId : id = thread[p][t].id
      BY <1>b, <1>3 DEF StartRenewal
    <2> DEFINE c == Armed(chain[id])
               k == [thread[p][t] EXCEPT !.pc = "running"]
    <2>2. /\ chain[id] \in Chain /\ chain[id].st = "unarmed" /\ chain[id].owner = p
          /\ thread[p][t].pc = "acquired"
      BY <1>0, <1>a, <1>3, <2>1 DEF OwnChains, StartRenewal
    <2>3. /\ c \in Chain /\ c.st = "armed" /\ c.left = RenewInterval /\ c.late = chain[id].late
          /\ c.owner = p
      BY <2>2, ChainTypes
    <2>4. /\ k \in [pc : {"idle", "acquired", "running", "releasing", "finally", "last"},
                    id : LeaseId \cup {NoLease}]
          /\ k.pc = "running" /\ k.id = id
      BY <1>0, <2>1 DEF TypeOK
    <2>5. /\ thread' = [thread EXCEPT ![p][t] = k] /\ chain' = [chain EXCEPT ![id] = c]
          /\ rows' = rows /\ renewFailed' \in [Process -> BOOLEAN]
      BY <1>0, <1>3, <2>1 DEF StartRenewal, TypeOK
    <2>6. ASSUME ~ (c.late >= TTL - RenewInterval)
          PROVE  \E r \in rows : r.id = id /\ r.left + c.late >= Due(c)
      <3>1. Covered(p, t)
        BY <2>1, <2>2, <2>3, <2>6 DEF Covered, Executes, Overdue
      <3>2. PICK r \in rows : r.id = id /\ r.left + chain[id].late >= Due(chain[id])
        BY <1>0, <2>1, <3>1 DEF Renewable, Backed
      <3>3. Due(chain[id]) = TTL /\ Due(c) = TTL
        BY <2>2, <2>3 DEF Due
      <3> QED  BY <2>3, <3>2, <3>3
    <2> HIDE DEF c, k
    <2> QED  BY <1>2, <2>1, <2>2, <2>3, <2>4, <2>5, <2>6
  <1>4. ASSUME NEW p \in Process, NEW t \in Task, StopRenewal(p, t) PROVE LeaseInv'
    <2>1. PICK id \in LeaseId : id = thread[p][t].id
      BY <1>b, <1>4 DEF StopRenewal
    <2>2. PICK pc \in {"releasing", "last"} : thread' = [thread EXCEPT ![p][t].pc = pc]
      BY <1>4 DEF StopRenewal
    <2> DEFINE c == Cancelled(chain[id])
               k == [thread[p][t] EXCEPT !.pc = pc]
    <2>3. /\ chain[id] \in Chain /\ chain[id].st # "unarmed" /\ thread[p][t].pc # "idle"
          /\ chain[id].st # "none" => chain[id].owner = p
      BY <1>0, <1>a, <1>4, <2>1 DEF OwnChains, StopRenewal
    <2>4. /\ c \in Chain
          /\ c.st # "none" => c.owner = p
          /\ c.st # "none" => c.loose
          /\ c.st # "unarmed"
      <3>1. c \in Chain /\ (c.st # "none" => c.loose /\ c.owner = chain[id].owner)
        BY <2>3, ChainTypes
      <3>2. c.st # "unarmed" /\ (c.st # "none" => chain[id].st # "none")
        BY <2>3, ChainTypes DEF Cancelled, Chain
      <3> QED  BY <2>3, <3>1, <3>2
    <2>5. /\ k \in [pc : {"idle", "acquired", "running", "releasing", "finally", "last"},
                    id : LeaseId \cup {NoLease}]
          /\ k.pc = pc /\ k.id = id
      BY <1>0, <2>1 DEF TypeOK
    <2>6. /\ thread' = [thread EXCEPT ![p][t] = k] /\ chain' = [chain EXCEPT ![id] = c]
          /\ rows' = rows /\ renewFailed' \in [Process -> BOOLEAN]
      BY <1>0, <1>4, <2>1, <2>2 DEF StopRenewal, TypeOK
    <2>7. (k.id = id /\ k.pc \notin {"idle", "acquired"}) /\ k.pc # "running"
      BY <2>5
    <2> HIDE DEF c, k
    <2> QED  BY <1>2, <2>1, <2>3, <2>4, <2>5, <2>6, <2>7
  <1>5. ASSUME NEW p \in Process, NEW t \in Task, Release(p, t) \/ ReleaseRaises(p, t)
        PROVE  LeaseInv'
    <2>0. thread[p][t].pc \in {"releasing", "last"}
      BY <1>5 DEF Release, ReleaseRaises
    <2>1. PICK id \in LeaseId : id = thread[p][t].id
      BY <1>b, <2>0
    <2> DEFINE c == chain[id]
    <2>2. /\ c \in Chain /\ c.st # "unarmed" /\ thread[p][t].pc # "idle"
          /\ c.st # "none" => c.owner = p
      BY <1>0, <1>a, <2>0, <2>1 DEF OwnChains
    <2>3. c.st # "none" => c.loose
      <3>1. \A q \in Process, u \in Task : thread[q][u].id = id => q = p /\ u = t
        BY <1>0, <2>1 DEF OwnLeases, NoLease
      <3> QED  BY <1>0, <2>0, <3>1 DEF LooseEnds, Executes
    <2>4. chain' = [chain EXCEPT ![id] = c] /\ renewFailed' \in [Process -> BOOLEAN]
      BY <1>0, <1>5 DEF Release, ReleaseRaises, TypeOK
    <2>5. CASE thread' = [thread EXCEPT ![p][t] = Resting]
      <3>1. /\ Resting \in [pc : {"idle", "acquired", "running", "releasing", "finally", "last"},
                            id : LeaseId \cup {NoLease}]
            /\ Resting.pc # "running"
        BY DEF Resting
      <3>2. rows' = rows \/ rows' = {r \in rows : r.id # id}
        BY <1>5, <2>1 DEF Release, ReleaseRaises
      <3> HIDE DEF c
      <3> QED  BY <1>2, <2>1, <2>2, <2>3, <2>4, <2>5, <3>1, <3>2
    <2>6. CASE thread' = [thread EXCEPT ![p][t].pc = "finally"] /\ rows' = rows
      <3> DEFINE k == [thread[p][t] EXCEPT !.pc = "finally"]
      <3>1. /\ k \in [pc : {"idle", "acquired", "running", "releasing", "finally", "last"},
                      id : LeaseId \cup {NoLease}]
            /\ k.pc = "finally" /\ k.id = id
        BY <1>0, <2>1 DEF TypeOK
      <3>2. thread' = [thread EXCEPT ![p][t] = k]
        BY <2>6
      <3>3. (k.id = id /\ k.pc \notin {"idle", "acquired"}) /\ k.pc # "running"
        BY <3>1
      <3>4. rows' = rows
        BY <2>6
      <3> HIDE DEF c, k
      <3> QED  BY <1>2, <2>1, <2>2, <2>3, <2>4, <3>1, <3>2, <3>3, <3>4
    <2> QED  BY <1>5, <2>5, <2>6 DEF Release, ReleaseRaises
  <1>6. ASSUME NEW p \in Process, Crash(p) PROVE LeaseInv'
    <2>1. /\ rows' = rows /\ renewFailed' \in [Process -> BOOLEAN]
          /\ \A t \in Task : thread'[p][t] = Resting
          /\ \A q \in Process, t \in Task : q # p => thread'[q][t] = thread[q][t]
          /\ \A id \in LeaseId : chain'[id] = IF chain[id].owner = p THEN Quiet ELSE chain[id]
      BY <1>0, <1>6 DEF Crash, TypeOK
    <2>2. Resting.pc = "idle" /\ Resting.id = NoLease
      BY DEF Resting
    <2>3. TypeOK'
      <3>1. chain' \in [LeaseId -> Chain]
        BY <1>0, <1>6, ChainTypes DEF Crash, TypeOK
      <3>2. Resting \in [pc : {"idle", "acquired", "running", "releasing", "finally", "last"},
                         id : LeaseId \cup {NoLease}]
        BY DEF Resting
      <3>3. thread' \in [Process -> [Task -> [pc : {"idle", "acquired", "running", "releasing",
                                                    "finally", "last"},
                                              id : LeaseId \cup {NoLease}]]]
        BY <1>0, <1>6, <3>2 DEF Crash, TypeOK
      <3> QED  BY <1>0, <2>1, <3>1, <3>3 DEF TypeOK
    <2>4. UniqueRows'
      BY <1>0, <2>1 DEF UniqueRows
    <2>5. OwnLeases'
      <3>1. \A r \in rows : r.id # NoLease
        BY <1>0 DEF TypeOK, NoLease
      <3>2. \A q \in Process, t \in Task : thread'[q][t].pc = "idle" <=> thread'[q][t].id = NoLease
        BY <1>0, <2>1, <2>2 DEF OwnLeases
      <3>3. \A q, s \in Process, t, u \in Task :
              thread'[q][t].id = thread'[s][u].id /\ thread'[q][t].id # NoLease => q = s /\ t = u
        BY <1>0, <2>1, <2>2 DEF OwnLeases
      <3>4. \A q \in Process, t \in Task : \A r \in rows' : r.id = thread'[q][t].id => r.task = t
        BY <1>0, <2>1, <2>2, <3>1 DEF OwnLeases
      <3> QED  BY <3>2, <3>3, <3>4 DEF OwnLeases
    <2>6. \A q \in Process, t \in Task : thread'[q][t].pc # "idle" =>
            /\ q # p /\ thread'[q][t] = thread[q][t] /\ thread[q][t].id \in LeaseId
            /\ chain'[thread[q][t].id].st = chain[thread[q][t].id].st
            /\ chain[thread[q][t].id].st # "none" => chain'[thread[q][t].id] = chain[thread[q][t].id]
      <3> SUFFICES ASSUME NEW q \in Process, NEW t \in Task, thread'[q][t].pc # "idle"
                   PROVE  /\ q # p /\ thread'[q][t] = thread[q][t] /\ thread[q][t].id \in LeaseId
                          /\ chain'[thread[q][t].id].st = chain[thread[q][t].id].st
                          /\ chain[thread[q][t].id].st # "none" =>
                               chain'[thread[q][t].id] = chain[thread[q][t].id]
        OBVIOUS
      <3>1. q # p /\ thread'[q][t] = thread[q][t] /\ thread[q][t].id \in LeaseId
        BY <1>b, <2>1, <2>2
      <3>2. chain[thread[q][t].id].st # "none" => chain[thread[q][t].id].owner = q
        BY <1>0, <3>1 DEF OwnChains
      <3> QED  BY <2>1, <3>1, <3>2, ChainTypes
    <2>7. OwnChains'
      <3> SUFFICES ASSUME NEW q \in Process, NEW t \in Task, thread'[q][t].pc # "idle"
                   PROVE  /\ chain'[thread'[q][t].id].st # "none" => chain'[thread'[q][t].id].owner = q
                          /\ thread'[q][t].pc = "acquired" <=> chain'[thread'[q][t].id].st = "unarmed"
        BY DEF OwnChains
      <3> QED  BY <1>0, <2>6 DEF OwnChains
    <2>8. LooseEnds'
      <3> SUFFICES ASSUME NEW i \in LeaseId, chain'[i].st # "none", ~ chain'[i].loose
                   PROVE  \E q \in Process, u \in Task : thread'[q][u].id = i /\ Executes(q, u)'
        BY DEF LooseEnds
      <3>1. chain'[i] = chain[i] /\ chain[i].owner # p
        BY <2>1, ChainTypes
      <3>2. PICK q \in Process, u \in Task : thread[q][u].id = i /\ Executes(q, u)
        BY <1>0, <3>1 DEF LooseEnds
      <3>3. q # p
        BY <1>0, <3>1, <3>2 DEF OwnChains, Executes
      <3> QED  BY <2>1, <3>2, <3>3 DEF Executes
    <2>9. Renewable'
      <3> SUFFICES ASSUME NEW q \in Process, NEW u \in Task, Covered(q, u)'
                   PROVE  Backed(thread[q][u].id)'
        BY DEF Renewable
      <3>1. PICK i \in LeaseId : i = thread[q][u].id /\ thread'[q][u] = thread[q][u] /\ chain'[i] = chain[i]
        BY <2>6 DEF Covered, Executes
      <3>2. Covered(q, u)
        BY <3>1 DEF Covered, Executes, Overdue
      <3>3. Backed(i)
        BY <1>0, <3>1, <3>2 DEF Renewable
      <3>4. Backed(i)'
        BY <2>1, <3>1, <3>3 DEF Backed, Due
      <3> QED  BY <3>1, <3>4
    <2> QED  BY <2>3, <2>4, <2>5, <2>7, <2>8, <2>9 DEF LeaseInv
  \* A step of a chain that has been armed, and of the row it renews.
  <1>7. ASSUME NEW id \in LeaseId, NEW c \in Chain, NEW n \in 0..TTL,
               chain' = [chain EXCEPT ![id] = c], thread' = thread,
               renewFailed' \in [Process -> BOOLEAN],
               rows' = rows \/ rows' = {IF r.id = id THEN [r EXCEPT !.left = n] ELSE r : r \in rows},
               chain[id].st \notin {"none", "unarmed"}, c.st # "unarmed",
               c.st # "none" => c.owner = chain[id].owner /\ c.loose = chain[id].loose,
               c.st # "none" /\ ~ (c.late >= TTL - RenewInterval)
                 /\ (\E p \in Process, t \in Task : thread[p][t].id = id /\ Executes(p, t)) =>
                   \E r \in rows' : r.id = id /\ r.left + c.late >= Due(c)
        PROVE  LeaseInv'
    <2>1. /\ chain'[id] = c
          /\ \A i \in LeaseId : i # id => chain'[i] = chain[i]
      BY <1>0, <1>7 DEF TypeOK
    <2>2. /\ \A s \in rows' : s \in [id : LeaseId, task : Task, left : 0..TTL]
          /\ \A s \in rows' : \E r \in rows : s.id = r.id /\ s.task = r.task /\ (r.id # id => s = r)
          /\ \A r \in rows : r.id # id => r \in rows'
      <3>1. CASE rows' = rows
        BY <1>0, <3>1 DEF TypeOK
      <3>2. CASE rows' = {IF r.id = id THEN [r EXCEPT !.left = n] ELSE r : r \in rows}
        <4>1. \A r \in rows : r \in [id : LeaseId, task : Task, left : 0..TTL]
          BY <1>0 DEF TypeOK
        <4>2. ASSUME NEW r \in rows
              PROVE  /\ [r EXCEPT !.left = n] \in [id : LeaseId, task : Task, left : 0..TTL]
                     /\ [r EXCEPT !.left = n].id = r.id /\ [r EXCEPT !.left = n].task = r.task
          BY <4>1, <1>7
        <4> QED  BY <3>2, <4>1, <4>2
      <3> QED  BY <1>7, <3>1, <3>2
    <2>3. TypeOK'
      BY <1>0, <1>7, <2>2 DEF TypeOK
    <2>4. UniqueRows'
      <3>1. CASE rows' = rows
        BY <1>0, <3>1 DEF UniqueRows
      <3>2. CASE rows' = {IF r.id = id THEN [r EXCEPT !.left = n] ELSE r : r \in rows}
        <4> SUFFICES ASSUME NEW s1 \in rows', NEW s2 \in rows', s1.id = s2.id \/ s1.task = s2.task
                     PROVE  s1 = s2
          BY DEF UniqueRows
        <4>1. PICK r1 \in rows : s1 = IF r1.id = id THEN [r1 EXCEPT !.left = n] ELSE r1
          BY <3>2
        <4>2. PICK r2 \in rows : s2 = IF r2.id = id THEN [r2 EXCEPT !.left = n] ELSE r2
          BY <3>2
        <4>3. s1.id = r1.id /\ s1.task = r1.task /\ s2.id = r2.id /\ s2.task = r2.task
          BY <1>0, <4>1, <4>2 DEF TypeOK
        <4>4. r1 = r2
          BY <1>0, <4>3 DEF UniqueRows
        <4> QED  BY <4>1, <4>2, <4>4
      <3> QED  BY <1>7, <3>1, <3>2
    <2>5. OwnLeases'
      BY <1>0, <1>7, <2>2 DEF OwnLeases
    <2>6. OwnChains'
      <3> SUFFICES ASSUME NEW q \in Process, NEW u \in Task, thread[q][u].pc # "idle"
                   PROVE  /\ chain'[thread[q][u].id].st # "none" => chain'[thread[q][u].id].owner = q
                          /\ thread[q][u].pc = "acquired" <=> chain'[thread[q][u].id].st = "unarmed"
        BY <1>7 DEF OwnChains
      <3> QED  BY <1>0, <1>b, <1>7, <2>1 DEF OwnChains
    <2>7. LooseEnds'
      <3> SUFFICES ASSUME NEW i \in LeaseId, chain'[i].st # "none", ~ chain'[i].loose
                   PROVE  \E q \in Process, u \in Task : thread[q][u].id = i /\ Executes(q, u)
        BY <1>7 DEF LooseEnds, Executes
      <3>1. chain[i].st # "none" /\ ~ chain[i].loose
        BY <1>7, <2>1
      <3> QED  BY <1>0, <3>1 DEF LooseEnds
    <2>8. Renewable'
      <3> SUFFICES ASSUME NEW q \in Process, NEW u \in Task, Covered(q, u)'
                   PROVE  Backed(thread[q][u].id)'
        BY DEF Renewable
      <3>0. PICK i \in LeaseId : i = thread[q][u].id /\ Executes(q, u)
        BY <1>b, <1>7 DEF Covered, Executes
      <3>1. CASE i = id
        <4>1. c.st # "none" /\ ~ (c.late >= TTL - RenewInterval)
          BY <1>7, <2>1, <3>0, <3>1 DEF Covered, Overdue
        <4>2. PICK r \in rows' : r.id = id /\ r.left + c.late >= Due(c)
          BY <1>7, <3>0, <3>1, <4>1
        <4>3. Backed(id)'
          BY <2>1, <4>2 DEF Backed, Due
        <4> QED  BY <1>7, <3>0, <3>1, <4>3
      <3>2. CASE i # id
        <4>1. chain'[i] = chain[i] /\ Covered(q, u)
          BY <1>7, <2>1, <3>0, <3>2 DEF Covered, Executes, Overdue
        <4>2. PICK r \in rows : r.id = i /\ r.left + chain[i].late >= Due(chain[i])
          BY <1>0, <3>0, <4>1 DEF Renewable, Backed
        <4>3. Backed(i)'
          BY <2>2, <3>2, <4>1, <4>2 DEF Backed, Due
        <4> QED  BY <1>7, <3>0, <4>3
      <3> QED  BY <3>1, <3>2
    <2> QED  BY <2>3, <2>4, <2>5, <2>6, <2>7, <2>8 DEF LeaseInv
  <1>8. ASSUME NEW id \in LeaseId, chain[id].st \notin {"none", "unarmed"},
               chain' = [chain EXCEPT ![id] = Quiet], thread' = thread, rows' = rows,
               renewFailed' \in [Process -> BOOLEAN]
        PROVE  LeaseInv'
    <2>1. Quiet \in Chain /\ Quiet.st = "none" /\ 0 \in 0..TTL
      BY ChainTypes
    <2> QED  BY <1>7, <1>8, <2>1
  \* An executing thread's lease is backed as long as its chain is not overdue.
  <1>c. ASSUME NEW id \in LeaseId, chain[id].st # "none",
               ~ (chain[id].late >= TTL - RenewInterval),
               \E p \in Process, t \in Task : thread[p][t].id = id /\ Executes(p, t)
        PROVE  \E r \in rows : r.id = id /\ r.left + chain[id].late >= Due(chain[id])
    <2>1. PICK p \in Process, t \in Task : thread[p][t].id = id /\ Executes(p, t)
      BY <1>c
    <2>2. Covered(p, t)
      BY <1>c, <2>1 DEF Covered, Overdue
    <2> QED  BY <1>0, <2>1, <2>2 DEF Renewable, Backed
  <1>9. ASSUME NEW id \in LeaseId, Fire(id) PROVE LeaseInv'
    <2>1. /\ chain[id].st = "armed" /\ chain[id].left = 0 /\ chain[id] \in Chain
          /\ thread' = thread /\ rows' = rows /\ renewFailed' \in [Process -> BOOLEAN]
      BY <1>0, <1>a, <1>9 DEF Fire, TypeOK
    <2>2. CASE chain' = [chain EXCEPT ![id] = Quiet]
      BY <1>8, <2>1, <2>2
    <2>3. CASE chain' = [chain EXCEPT ![id] = [@ EXCEPT !.st = "fired", !.left = TTL]]
      <3> DEFINE c == [chain[id] EXCEPT !.st = "fired", !.left = TTL]
      <3>1. /\ c \in Chain /\ c.st = "fired" /\ c.late = chain[id].late
            /\ c.owner = chain[id].owner /\ c.loose = chain[id].loose
        <4>1. TTL \in 0..TTL
          OBVIOUS
        <4> QED  BY <2>1, <4>1 DEF Chain
      <3>2. chain' = [chain EXCEPT ![id] = c]
        BY <2>3
      <3> HIDE DEF c
      <3>3. Due(c) = Due(chain[id])
        BY <2>1, <3>1 DEF Due
      <3>4. ASSUME ~ (c.late >= TTL - RenewInterval),
                   \E p \in Process, t \in Task : thread[p][t].id = id /\ Executes(p, t)
            PROVE  \E r \in rows' : r.id = id /\ r.left + c.late >= Due(c)
        BY <1>c, <2>1, <3>1, <3>3, <3>4
      <3>5. 0 \in 0..TTL
        OBVIOUS
      <3> QED  BY <1>7, <2>1, <3>1, <3>2, <3>4, <3>5
    <2> QED  BY <1>9, <2>2, <2>3 DEF Fire
  <1>10. ASSUME NEW id \in LeaseId, Renew(id) PROVE LeaseInv'
    <2>1. /\ chain[id].st = "fired" /\ chain[id] \in Chain /\ thread' = thread
          /\ renewFailed' \in [Process -> BOOLEAN]
      BY <1>0, <1>a, <1>10 DEF Renew, TypeOK
    <2>2. CASE ~ Live(id)
      BY <1>8, <1>10, <2>1, <2>2 DEF Renew
    <2>3. CASE Live(id)
      <3>n. PICK n \in 0..TTL : n = chain[id].left
        BY <2>1 DEF Chain
      <3> DEFINE c == [chain[id] EXCEPT !.st = "renewed", !.left = 0, !.late = TTL - n]
      <3>0. TTL - n \in 0..TTL /\ 0 \in 0..TTL
        OBVIOUS
      <3>1. /\ c \in Chain /\ c.st = "renewed" /\ c.late = TTL - n
            /\ c.owner = chain[id].owner /\ c.loose = chain[id].loose
        BY <2>1, <3>0 DEF Chain
      <3>2. /\ chain' = [chain EXCEPT ![id] = c]
            /\ rows' = {IF r.id = id THEN [r EXCEPT !.left = n] ELSE r : r \in rows}
        BY <1>10, <2>3, <3>n DEF Renew, Renewed
      <3> HIDE DEF c
      <3>3. PICK r \in rows : r.id = id
        BY <2>3 DEF Live
      <3>4. [r EXCEPT !.left = n] \in rows' /\ [r EXCEPT !.left = n].id = id /\ [r EXCEPT !.left = n].left = n
        BY <1>0, <3>2, <3>3 DEF TypeOK
      <3>5. Due(c) = TTL
        BY <3>1 DEF Due
      <3>6. \E s \in rows' : s.id = id /\ s.left + c.late >= Due(c)
        <4>1. n + c.late = TTL
          BY <3>1
        <4>2. PICK s \in rows' : s.id = id /\ s.left = n
          BY <3>4
        <4>3. s.left + c.late >= Due(c)
          BY <3>5, <4>1, <4>2
        <4> QED  BY <4>2, <4>3
      <3>7. chain[id].st \notin {"none", "unarmed"} /\ c.st # "unarmed"
        BY <2>1, <3>1
      <3> QED  BY <1>7, <2>1, <3>0, <3>1, <3>2, <3>6, <3>7
    <2> QED  BY <2>2, <2>3
  <1>11. ASSUME NEW id \in LeaseId, RenewRaises(id) PROVE LeaseInv'
    BY <1>0, <1>8, <1>11 DEF RenewRaises, TypeOK
  <1>12. ASSUME NEW id \in LeaseId, Reschedule(id) PROVE LeaseInv'
    <2>1. /\ chain[id].st = "renewed" /\ chain[id] \in Chain
          /\ thread' = thread /\ rows' = rows /\ renewFailed' \in [Process -> BOOLEAN]
      BY <1>0, <1>a, <1>12 DEF Reschedule, TypeOK
    <2> DEFINE c == Armed(chain[id])
    <2>2. /\ c \in Chain /\ c.st = "armed" /\ c.left = RenewInterval /\ c.late = chain[id].late
          /\ c.owner = chain[id].owner /\ c.loose = chain[id].loose
      BY <2>1, ChainTypes
    <2>3. chain' = [chain EXCEPT ![id] = c]
      BY <1>12 DEF Reschedule
    <2> HIDE DEF c
    <2>4. Due(c) = Due(chain[id])
      BY <2>1, <2>2 DEF Due
    <2>5. ASSUME ~ (c.late >= TTL - RenewInterval),
                 \E p \in Process, t \in Task : thread[p][t].id = id /\ Executes(p, t)
          PROVE  \E r \in rows' : r.id = id /\ r.left + c.late >= Due(c)
      BY <1>c, <2>1, <2>2, <2>4, <2>5
    <2>6. 0 \in 0..TTL /\ chain[id].st \notin {"none", "unarmed"} /\ c.st # "unarmed"
      BY <2>1, <2>2
    <2> QED  BY <1>7, <2>1, <2>2, <2>3, <2>5, <2>6
  <1>13. ASSUME Tick PROVE LeaseInv'
    <2>1. /\ rows' = {[r EXCEPT !.left = Down(@)] : r \in rows}
          /\ \A id \in LeaseId : chain'[id] = Older(chain[id])
          /\ thread' = thread /\ renewFailed' = renewFailed
      BY <1>13 DEF Tick
    <2>2. ASSUME NEW c \in Chain
          PROVE  /\ Older(c) \in Chain /\ Older(c).st = c.st /\ Older(c).owner = c.owner
                 /\ Older(c).loose = c.loose /\ Older(c).late >= c.late
                 /\ c.st = "armed" /\ c.left > 0 => Older(c).left = c.left - 1 /\ Older(c).late = c.late
                 /\ c.st # "none" /\ ~ (c.st = "armed" /\ c.left > 0) /\ c.late < TTL =>
                      Older(c).late = c.late + 1 /\ Older(c).left = Down(c.left)
      <3>1. c.left \in 0..TTL /\ c.late \in 0..TTL
        BY DEF Chain
      <3>2. CASE c.st = "none"
        BY <3>1, <3>2 DEF Older
      <3>3. CASE c.st = "armed" /\ c.left > 0
        <4>1. Older(c) = [c EXCEPT !.left = @ - 1]
          BY <3>3 DEF Older
        <4>2. c.left - 1 \in 0..TTL
          BY <3>1, <3>3
        <4> QED  BY <3>1, <3>3, <4>1, <4>2 DEF Chain
      <3>4. CASE c.st # "none" /\ ~ (c.st = "armed" /\ c.left > 0)
        <4>1. Older(c) = [c EXCEPT !.left = Down(@), !.late = Up(@)]
          BY <3>4 DEF Older
        <4>2. Down(c.left) \in 0..TTL /\ Up(c.late) \in 0..TTL /\ Up(c.late) >= c.late
          BY <3>1 DEF Down, Up
        <4>3. c.late < TTL => Up(c.late) = c.late + 1
          BY <3>1 DEF Up
        <4> QED  BY <3>1, <3>4, <4>1, <4>2, <4>3 DEF Chain
      <3> QED  BY <3>2, <3>3, <3>4
    <2>3. ASSUME NEW r \in rows
          PROVE  /\ [r EXCEPT !.left = Down(@)] \in [id : LeaseId, task : Task, left : 0..TTL]
                 /\ [r EXCEPT !.left = Down(@)].id = r.id /\ [r EXCEPT !.left = Down(@)].task = r.task
                 /\ [r EXCEPT !.left = Down(@)].left = Down(r.left) /\ r.left \in 0..TTL
                 /\ [r EXCEPT !.left = Down(@)] \in rows'
      <3>1. r \in [id : LeaseId, task : Task, left : 0..TTL]
        BY <1>0 DEF TypeOK
      <3>2. Down(r.left) \in 0..TTL
        BY <3>1 DEF Down
      <3> QED  BY <2>1, <3>1, <3>2
    <2>4. TypeOK'
      <3>1. chain' \in [LeaseId -> Chain]
        BY <1>13, <1>a, <2>2 DEF Tick
      <3>2. rows' \subseteq [id : LeaseId, task : Task, left : 0..TTL]
        BY <2>1, <2>3
      <3> QED  BY <1>0, <2>1, <3>1, <3>2 DEF TypeOK
    <2>5. UniqueRows'
      <3> SUFFICES ASSUME NEW s1 \in rows', NEW s2 \in rows', s1.id = s2.id \/ s1.task = s2.task
                   PROVE  s1 = s2
        BY DEF UniqueRows
      <3>1. PICK r1 \in rows : s1 = [r1 EXCEPT !.left = Down(@)]
        BY <2>1
      <3>2. PICK r2 \in rows : s2 = [r2 EXCEPT !.left = Down(@)]
        BY <2>1
      <3>3. r1 = r2
        BY <1>0, <2>3, <3>1, <3>2 DEF UniqueRows
      <3> QED  BY <3>1, <3>2, <3>3
    <2>6. OwnLeases'
      <3>1. \A s \in rows' : \E r \in rows : s.id = r.id /\ s.task = r.task
        BY <2>1, <2>3
      <3> QED  BY <1>0, <2>1, <3>1 DEF OwnLeases
    <2>7. \A id \in LeaseId : /\ chain'[id].st = chain[id].st /\ chain'[id].owner = chain[id].owner
                              /\ chain'[id].loose = chain[id].loose
      BY <1>a, <2>1, <2>2
    <2>8. OwnChains'
      <3> SUFFICES ASSUME NEW q \in Process, NEW u \in Task, thread[q][u].pc # "idle"
                   PROVE  /\ chain'[thread[q][u].id].st # "none" => chain'[thread[q][u].id].owner = q
                          /\ thread[q][u].pc = "acquired" <=> chain'[thread[q][u].id].st = "unarmed"
        BY <2>1 DEF OwnChains
      <3> QED  BY <1>0, <1>b, <2>7 DEF OwnChains
    <2>9. LooseEnds'
      BY <1>0, <2>1, <2>7 DEF LooseEnds, Executes
    <2>10. Renewable'
      <3> SUFFICES ASSUME NEW q \in Process, NEW u \in Task, Covered(q, u)'
                   PROVE  Backed(thread[q][u].id)'
        BY DEF Renewable
      <3>0. PICK i \in LeaseId : i = thread[q][u].id /\ Executes(q, u)
        BY <1>b, <2>1 DEF Covered, Executes
      <3> DEFINE c == chain[i]
                 d == Older(c)
      <3>1. /\ c \in Chain /\ d \in Chain /\ chain'[i] = d /\ d.st = c.st /\ d.late >= c.late
            /\ c.st # "none" /\ ~ (d.late >= TTL - RenewInterval)
        BY <1>a, <2>1, <2>2, <3>0 DEF Covered, Overdue
      <3>2. c.late \in 0..TTL /\ c.left \in 0..TTL /\ d.late \in 0..TTL /\ d.left \in 0..TTL
        BY <3>1 DEF Chain
      <3>3. c.late < TTL - RenewInterval /\ c.late < TTL
        BY <3>1, <3>2
      <3>4. PICK r \in rows : r.id = i /\ r.left + c.late >= Due(c)
        BY <1>c, <3>0, <3>1, <3>2, <3>3
      <3> DEFINE s == [r EXCEPT !.left = Down(@)]
      <3>5. s \in rows' /\ s.id = i /\ s.left = Down(r.left) /\ r.left \in 0..TTL
        BY <2>3, <3>4
      <3>6. Due(c) \in Int /\ Due(c) >= TTL - RenewInterval /\ Due(d) \in Int
        BY <3>2 DEF Due
      <3>7. r.left > 0 /\ s.left = r.left - 1
        <4> HIDE DEF s, c, d
        <4>1. r.left > 0
          BY <3>2, <3>3, <3>4, <3>5, <3>6
        <4> QED  BY <3>5, <4>1 DEF Down
      <3>8. s.left + d.late >= Due(d)
        <4>1. CASE c.st = "armed" /\ c.left > 0
          <5>1. d.left = c.left - 1 /\ d.late = c.late
            BY <2>2, <3>1, <4>1
          <5>2. Due(d) = Due(c) - 1
            <6> HIDE DEF c, d
            <6> QED  BY <3>1, <3>2, <4>1, <5>1 DEF Due
          <5> HIDE DEF s, c, d
          <5> QED  BY <3>2, <3>4, <3>5, <3>6, <3>7, <5>1, <5>2
        <4>2. CASE ~ (c.st = "armed" /\ c.left > 0)
          <5>1. d.left = Down(c.left) /\ d.late = c.late + 1
            BY <2>2, <3>1, <3>3, <4>2
          <5>2. Due(d) = Due(c)
            <6> HIDE DEF c, d
            <6>1. CASE c.st = "armed"
              <7>1. c.left = 0 /\ d.left = 0
                BY <3>2, <4>2, <5>1, <6>1 DEF Down
              <7> QED  BY <3>1, <6>1, <7>1 DEF Due
            <6> QED  BY <3>1, <6>1 DEF Due
          <5> HIDE DEF s, c, d
          <5> QED  BY <3>2, <3>4, <3>5, <3>6, <3>7, <5>1, <5>2
        <4> QED  BY <4>1, <4>2
      <3>9. Backed(i)'
        <4> HIDE DEF s, d
        <4> QED  BY <3>1, <3>5, <3>8 DEF Backed, Due
      <3> QED  BY <2>1, <3>0, <3>9
    <2> QED  BY <2>4, <2>5, <2>6, <2>8, <2>9, <2>10 DEF LeaseInv
  <1>14. ASSUME UNCHANGED vars PROVE LeaseInv'
    <2>1. rows' = rows /\ chain' = chain /\ renewFailed' = renewFailed /\ thread' = thread
      BY <1>14 DEF vars
    <2>2. TypeOK' /\ UniqueRows' /\ OwnLeases'
      BY <1>0, <2>1 DEF TypeOK, UniqueRows, OwnLeases
    <2>3. OwnChains' /\ LooseEnds'
      BY <1>0, <2>1 DEF OwnChains, LooseEnds, Executes
    <2>4. Renewable'
      BY <1>0, <2>1 DEF Renewable, Covered, Executes, Overdue, Backed, Due
    <2> QED  BY <2>2, <2>3, <2>4 DEF LeaseInv
  <1> QED
    BY <1>1, <1>3, <1>4, <1>5, <1>6, <1>9, <1>10, <1>11, <1>12, <1>13, <1>14 DEF Next

------------------------------------------------------------------------------
\* LeaseInv is an invariant of the lease protocol.
LEMMA LeaseInvariance == Spec => []LeaseInv
  BY LeaseInit, LeaseStep, PTL DEF Spec

\* A covered thread's lease has time left.
LEMMA CoveredIsLive ==
  ASSUME LeaseInv, NEW p \in Process, NEW t \in Task, Covered(p, t)
  PROVE  \E r \in rows : r.id = thread[p][t].id /\ r.task = t /\ r.left > 0
  <1> USE LeaseAssumption
  <1>1. TypeOK /\ OwnLeases /\ Renewable
    BY DEF LeaseInv
  <1>2. PICK id \in LeaseId : id = thread[p][t].id
    BY <1>1 DEF Covered, Executes, OwnLeases, TypeOK
  <1>3. PICK r \in rows : r.id = id /\ r.left + chain[id].late >= Due(chain[id])
    BY <1>1, <1>2 DEF Renewable, Backed
  <1>4. chain[id] \in Chain /\ r.left \in 0..TTL /\ ~ (chain[id].late >= TTL - RenewInterval)
    BY <1>1, <1>2 DEF TypeOK, Covered, Overdue
  <1>5. chain[id].late \in 0..TTL /\ Due(chain[id]) \in Int /\ Due(chain[id]) >= TTL - RenewInterval
    BY <1>4 DEF Chain, Due
  <1>6. r.left > 0
    BY <1>3, <1>4, <1>5
  <1> QED  BY <1>1, <1>2, <1>3, <1>6 DEF OwnLeases

\* The lease tables, the timers and the threads keep their types
\* (task_leases, _timers and _renew_failed of lease.py).
THEOREM LeaseTypes == Spec => []TypeOK
  BY LeaseInvariance, PTL DEF LeaseInv

\* A lease lapses under the thread that executes only when its renewal chain
\* has died or the renewal was late by TTL - RenewInterval, whatever the
\* delays of start_renewal, of the timer thread and of the pool are.
THEOREM RenewedInTime == Spec => []LapseNeedsDelay
  <1>1. LeaseInv => LapseNeedsDelay
    <2> SUFFICES ASSUME LeaseInv, NEW p \in Process, NEW t \in Task, Executes(p, t),
                        chain[thread[p][t].id].st # "none", ~ Overdue(thread[p][t].id)
                 PROVE  Live(thread[p][t].id)
      BY DEF LapseNeedsDelay
    <2>1. Covered(p, t)
      BY DEF Covered
    <2> QED  BY <2>1, CoveredIsLive DEF Live
  <1> QED  BY <1>1, LeaseInvariance, PTL

\* Of the processes that execute a task, one at most has a lease whose renewal
\* is alive and not overdue: the unique index on task_id and _delete_expired
\* let a second one in only after the first lease has run out.
THEOREM ExclusiveExecution == Spec => []OneCoveredExecution
  <1>1. LeaseInv => OneCoveredExecution
    <2> SUFFICES ASSUME LeaseInv, NEW p \in Process, NEW q \in Process, NEW t \in Task,
                        Covered(p, t), Covered(q, t)
                 PROVE  p = q
      BY DEF OneCoveredExecution
    <2>1. PICK r \in rows : r.id = thread[p][t].id /\ r.task = t
      BY CoveredIsLive
    <2>2. PICK s \in rows : s.id = thread[q][t].id /\ s.task = t
      BY CoveredIsLive
    <2>3. r = s
      BY <2>1, <2>2 DEF LeaseInv, UniqueRows
    <2>4. thread[p][t].id # NoLease
      BY DEF LeaseInv, OwnLeases, Covered, Executes
    <2> QED  BY <2>1, <2>2, <2>3, <2>4 DEF LeaseInv, OwnLeases
  <1> QED  BY <1>1, LeaseInvariance, PTL

\* Two processes execute one task only when the renewal of one of them has
\* died or is late by TTL - RenewInterval.
THEOREM NoOverlapWhileRenewed == Spec => []OverlapNeedsDelay
  <1>1. OneCoveredExecution => OverlapNeedsDelay
    BY DEF OneCoveredExecution, OverlapNeedsDelay, Covered
  <1> QED  BY <1>1, ExclusiveExecution, PTL

\* A renewal chain that no thread owns is one that stop_renewal met while its
\* callback was under way: cancelling the registered timer stops all others,
\* also when the DELETE of release fails.
THEOREM LooseChains == Spec => []LooseChainsOnly
  <1>1. LeaseInv => LooseChainsOnly
    BY DEF LeaseInv, LooseEnds, LooseChainsOnly, Orphan
  <1> QED  BY <1>1, LeaseInvariance, PTL

==============================================================================
