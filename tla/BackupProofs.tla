---------------------------- MODULE BackupProofs ----------------------------
(* BackupCatalog: what sync knows when it writes, for any number of         *)
(* requests, any retention and any pattern of faults and outages.           *)
EXTENDS BackupCatalog, FiniteSetTheorems, SequenceTheorems, TLAPS

(* The goroutine state the argument reads.                                  *)
Shape ==
    /\ command \in [owner : Procs \cup {NoProc}, op : Ops \cup {"none"},
                    arg : Types \cup Labels]
    /\ lock \in Procs \cup {NoProc}
    /\ pc \in [Procs -> {"idle", "get", "lock"} \cup Locked]
    /\ op \in [Procs -> Ops]
    /\ arg \in [Procs -> Types \cup Labels]
    /\ result \in [Procs -> {"none", "ok", "failed"}]
    /\ DOMAIN seen = Procs /\ DOMAIN todo = Procs

(* The mutex is held exactly between Lock and the return.                   *)
Holds == \A p \in Procs : pc[p] \in Locked <=> lock = p

(* A command belongs to the goroutine that waits for it, or to one that     *)
(* died; none runs while the holder of the mutex syncs.                     *)
Owned ==
    /\ command # NoCommand /\ command.owner # NoProc
          => pc[command.owner] = "running"
    /\ \A p \in Procs :
          /\ pc[p] = "running" => command = NoCommand \/ command.owner = p
          /\ pc[p] \in {"info", "upsert", "prune"} => command = NoCommand

(* What info said is still so, and what was upserted is still there.        *)
Current ==
    \A p \in Procs :
       /\ pc[p] \in {"upsert", "prune"} =>
             /\ seen[p] = LabelsOf(repo)
             /\ seen[p] \ todo[p] \subseteq catalog
       /\ pc[p] = "prune" => todo[p] = {}

IInv == Shape /\ Holds /\ Owned /\ Current

USE DEF Procs

(* The service starts with nothing under way.                               *)
LEMMA InitIInv == Init => IInv
BY ConstantsAssumption DEF Init, IInv, Shape, Holds, Owned, Current, Locked, NoCommand,
   Types, Ops

(* A return releases the mutex and touches no one else.                     *)
LEMMA FailsKeeps ==
    ASSUME IInv, NEW p \in Procs, Fails(p),
           repo' = repo \/ pc[p] = "running", catalog' = catalog, arg' = arg,
           command' = command \/ command' = NoCommand,
           command' = NoCommand \/ pc[p] # "running"
    PROVE  IInv'
<1>1. Shape'
  BY ConstantsAssumption DEF IInv, Shape, Fails, Goto, Unlock, Forget, Locked, NoCommand, Types, Ops
<1>2. Holds'
  BY ConstantsAssumption DEF IInv, Shape, Holds, Fails, Goto, Unlock, Locked
<1>3. Owned'
  BY ConstantsAssumption DEF IInv, Shape, Holds, Owned, Fails, Goto, Unlock, Locked, NoCommand
<1>4. Current'
  BY DEF IInv, Shape, Holds, Current, Fails, Goto, Forget, Locked
<1> QED
  BY <1>1, <1>2, <1>3, <1>4, Zenon DEF IInv

LEMMA SucceedsKeeps ==
    ASSUME IInv, NEW p \in Procs, Succeeds(p), pc[p] \in {"exec", "prune"},
           repo' = repo, arg' = arg, command' = command
    PROVE  IInv'
<1>1. Shape'
  BY ConstantsAssumption DEF IInv, Shape, Succeeds, Goto, Unlock, Forget, Locked, Ops
<1>2. Holds'
  BY ConstantsAssumption DEF IInv, Shape, Holds, Succeeds, Goto, Unlock, Locked
<1>3. Owned'
  BY ConstantsAssumption DEF IInv, Shape, Holds, Owned, Succeeds, Goto, Locked
<1>4. Current'
  BY ConstantsAssumption DEF IInv, Shape, Holds, Current, Succeeds, Goto, Locked
<1> QED
  BY <1>1, <1>2, <1>3, <1>4, Zenon DEF IInv

(* A goroutine goes on to its next place with the same mutex.               *)
LEMMA ContinuesShape ==
    ASSUME IInv, NEW p \in Procs, NEW place \in {"idle", "get", "lock"} \cup Locked,
           Continues(p, place), arg' = arg,
           DOMAIN seen' = Procs, DOMAIN todo' = Procs,
           command' = command \/ command' = NoCommand
    PROVE  Shape'
BY ConstantsAssumption DEF IInv, Shape, Continues, Goto, NoCommand, Types, Ops

(* Before the mutex.                                                        *)
LEMMA BeforeLock ==
    ASSUME IInv, (\E p \in Procs : Request(p) \/ Get(p)) \/ RunScheduled
    PROVE  IInv'
<1>1. ASSUME NEW p \in Procs, Request(p) PROVE IInv'
  BY <1>1, ConstantsAssumption
     DEF IInv, Shape, Holds, Owned, Current, Request, Goto, world, Locked, Ops
<1>2. CASE RunScheduled
  BY <1>2, ConstantsAssumption
     DEF IInv, Shape, Holds, Owned, Current, RunScheduled, Goto, world, Locked, Ops
<1>3. ASSUME NEW p \in Procs, Get(p) PROVE IInv'
  <2>1. CASE Fails(p)
    BY <1>3, <2>1, FailsKeeps, Zenon DEF Get, world
  <2>2. CASE Continues(p, "lock") /\ UNCHANGED <<seen, todo>>
    <3>1. Shape'
      BY <1>3, <2>2, ContinuesShape, Zenon DEF Get, world, IInv, Shape
    <3>2. Holds' /\ Owned' /\ Current'
      BY <1>3, <2>2, ConstantsAssumption, Zenon

      DEF IInv, Shape, Holds, Owned, Current, Get, Continues, Goto, world, Locked
    <3> QED
      BY <3>1, <3>2, Zenon DEF IInv
  <2> QED
    BY <1>3, <2>1, <2>2, Zenon DEF Get
<1> QED
  BY <1>1, <1>2, <1>3, Zenon

(* Taking the mutex and starting the command.                               *)
LEMMA Begins ==
    ASSUME IInv, NEW p \in Procs, Lock(p) \/ ExecStart(p) \/ ExecVerify(p)
    PROVE  IInv'
<1>1. CASE Lock(p)
  BY <1>1, ConstantsAssumption
     DEF IInv, Shape, Holds, Owned, Current, Lock, Goto, world, Locked
<1>2. CASE ExecStart(p)
  <2>1. CASE Fails(p) /\ UNCHANGED command
    BY <1>2, <2>1, FailsKeeps, Zenon DEF ExecStart
  <2>2. CASE /\ command = NoCommand
             /\ command' = [owner |-> p, op |-> op[p], arg |-> arg[p]]
             /\ Continues(p, "running") /\ UNCHANGED <<seen, todo>>
    <3>1. Shape'
      BY <1>2, <2>2, ConstantsAssumption, Zenon
      DEF IInv, Shape, ExecStart, Continues, Goto, Locked
    <3>2. Holds' /\ Current'
      BY <1>2, <2>2, ConstantsAssumption, Zenon
         DEF IInv, Shape, Holds, Current, ExecStart, Continues, Goto, Locked
    <3>3. Owned'
      <4>1. \A q \in Procs : q # p => pc'[q] \notin Locked
        BY <1>2, <2>2, Zenon
        DEF IInv, Shape, Holds, ExecStart, Continues, Goto, Locked
      <4>2. pc'[p] = "running" /\ command'.owner = p
        BY <1>2, <2>2, Zenon DEF IInv, Shape, Continues, Goto
      <4> QED
        BY <4>1, <4>2, Zenon DEF Owned, Locked
    <3> QED
      BY <3>1, <3>2, <3>3, Zenon DEF IInv
  <2> QED
    BY <1>2, <2>1, <2>2, Zenon DEF ExecStart
<1>3. CASE ExecVerify(p)
  <2>1. CASE Fails(p)
    BY <1>3, <2>1, FailsKeeps, Zenon DEF ExecVerify, world
  <2>2. CASE Succeeds(p)
    BY <1>3, <2>2, SucceedsKeeps, Zenon DEF ExecVerify, world
  <2> QED
    BY <1>3, <2>1, <2>2, Zenon DEF ExecVerify
<1> QED
  BY <1>1, <1>2, <1>3, Zenon

(* The end of a command: the repository changes, and only while its owner   *)
(* waits or no one holds the mutex past "exec".                             *)
LEMMA CommandKeeps ==
    ASSUME IInv, PgBackRest
    PROVE  IInv'
<1> DEFINE owner == command.owner
<1>1. owner \in Procs \cup {NoProc}
  BY Zenon DEF IInv, Shape
<1>2. command # NoCommand /\ command' = NoCommand /\ catalog' = catalog /\ arg' = arg
  BY Zenon DEF PgBackRest, CommandSucceeds, ReplyLost, CommandFails
<1>3. \A p \in Procs : pc[p] \notin {"info", "upsert", "prune"}
  BY <1>2, Zenon DEF IInv, Owned
<1>4. ASSUME owner # NoProc, Fails(owner) PROVE IInv'
  <2>1. pc[owner] = "running"
    BY <1>2, <1>4, Zenon DEF IInv, Owned
  <2> QED
    BY <1>1, <1>2, <1>4, <2>1, FailsKeeps, Zenon
<1>5. CASE owner = NoProc
  <2>1. UNCHANGED <<lock, pc, op, result, seen, todo>>
    BY <1>5, Zenon DEF PgBackRest, CommandSucceeds, ReplyLost, CommandFails
  <2>2. Shape' /\ Holds'
    BY <1>2, <2>1, ConstantsAssumption, Zenon
    DEF IInv, Shape, Holds, NoCommand, Types, Ops
  <2>3. Owned' /\ Current'
    BY <1>2, <1>3, <2>1, Zenon DEF Owned, Current
  <2> QED
    BY <2>2, <2>3, Zenon DEF IInv
<1>6. CASE owner # NoProc /\ CommandSucceeds
  <2>1. Continues(owner, "info") /\ UNCHANGED <<seen, todo>>
    BY <1>6, Zenon DEF CommandSucceeds
  <2>2. owner \in Procs /\ pc[owner] = "running"
    BY <1>1, <1>2, <1>6, Zenon DEF IInv, Owned
  <2>3. Shape'
    BY <1>2, <2>1, <2>2, ContinuesShape, Zenon DEF Locked, IInv, Shape
  <2>4. Holds'
    BY <2>1, <2>2, Zenon DEF IInv, Shape, Holds, Continues, Goto, Locked
  <2>5. Owned' /\ Current'
    BY <1>2, <1>3, <2>1, <2>2, Zenon
    DEF IInv, Shape, Owned, Current, Continues, Goto
  <2> QED
    BY <2>3, <2>4, <2>5, Zenon DEF IInv
<1> QED
  BY <1>4, <1>5, <1>6, Zenon
  DEF PgBackRest, CommandSucceeds, ReplyLost, CommandFails

(* Only the truth is believed.                                              *)
LEMMA LearnsTruth ==
    ASSUME NEW p \in Procs, NEW answer \in Unreadable
    PROVE  Learns(p, answer) => Fails(p)
BY DEF Unreadable, Learns, Credible

(* sync under the mutex.                                                    *)
LEMMA SyncKeeps ==
    ASSUME IInv, NEW p \in Procs,
           SyncInfo(p) \/ SyncUpsert(p) \/ SyncPrune(p) \/ ExecLost(p)
    PROVE  IInv'
<1>1. CASE ExecLost(p)
  BY <1>1, FailsKeeps, Zenon DEF ExecLost, world
<1>2. CASE SyncInfo(p)
  <2>1. CASE Fails(p)
    BY <1>2, <2>1, FailsKeeps, Zenon DEF SyncInfo, world
  <2>2. CASE /\ Continues(p, "upsert")
             /\ seen' = [seen EXCEPT ![p] = LabelsOf(repo)]
             /\ todo' = [todo EXCEPT ![p] = LabelsOf(repo)]
    <3>1. Shape'
      BY <1>2, <2>2, ContinuesShape, Zenon
      DEF SyncInfo, world, IInv, Shape, Locked
    <3>2. Holds' /\ Owned' /\ Current'
      BY <1>2, <2>2, ConstantsAssumption, Zenon

      DEF IInv, Shape, Holds, Owned, Current, SyncInfo, Continues, Goto, world, Locked
    <3> QED
      BY <3>1, <3>2, Zenon DEF IInv
  <2>3. Learns(p, Truth) => Fails(p) \/ (/\ Continues(p, "upsert")
                                        /\ seen' = [seen EXCEPT ![p] = LabelsOf(repo)]
                                        /\ todo' = [todo EXCEPT ![p] = LabelsOf(repo)])
    BY Zenon DEF Learns, Truth
  <2> QED
    BY <1>2, <2>1, <2>2, <2>3, LearnsTruth, Zenon DEF SyncInfo
<1>3. CASE SyncUpsert(p)
  <2>1. CASE Fails(p) /\ UNCHANGED catalog
    BY <1>3, <2>1, FailsKeeps, Zenon DEF SyncUpsert
  <2>2. ASSUME NEW l \in todo[p], catalog' = catalog \cup {l},
               todo' = [todo EXCEPT ![p] = @ \ {l}],
               Continues(p, "upsert"), UNCHANGED seen
        PROVE  IInv'
    <3>1. Shape'
      BY <1>3, <2>2, ContinuesShape, Zenon DEF SyncUpsert, IInv, Shape, Locked
    <3>2. Holds' /\ Owned' /\ Current'
      BY <1>3, <2>2, ConstantsAssumption, Zenon

      DEF IInv, Shape, Holds, Owned, Current, SyncUpsert, Continues, Goto, Locked
    <3> QED
      BY <3>1, <3>2, Zenon DEF IInv
  <2>3. CASE todo[p] = {} /\ Continues(p, "prune") /\ UNCHANGED <<catalog, seen, todo>>
    <3>1. Shape'
      BY <1>3, <2>3, ContinuesShape, Zenon DEF SyncUpsert, IInv, Shape, Locked
    <3>2. Holds' /\ Owned' /\ Current'
      BY <1>3, <2>3, ConstantsAssumption, Zenon

      DEF IInv, Shape, Holds, Owned, Current, SyncUpsert, Continues, Goto, Locked
    <3> QED
      BY <3>1, <3>2, Zenon DEF IInv
  <2> QED
    BY <1>3, <2>1, <2>2, <2>3, Zenon DEF SyncUpsert
<1>4. CASE SyncPrune(p)
  <2>1. CASE Fails(p) /\ UNCHANGED catalog
    BY <1>4, <2>1, FailsKeeps, Zenon DEF SyncPrune
  <2>2. CASE Succeeds(p)
    BY <1>4, <2>2, SucceedsKeeps, Zenon DEF SyncPrune
  <2> QED
    BY <1>4, <2>1, <2>2, Zenon DEF SyncPrune
<1> QED
  BY <1>1, <1>2, <1>3, <1>4, Zenon

(* Crashes and outages: a crash leaves the command without an owner.        *)
LEMMA OutageKeeps ==
    ASSUME IInv, Crash \/ InstanceDown \/ InstanceBack
    PROVE  IInv'
<1>1. CASE Crash
  <2>1. command' \in [owner : Procs \cup {NoProc}, op : Ops \cup {"none"},
                      arg : Types \cup Labels] /\ command'.owner = NoProc
    BY <1>1, Zenon DEF Crash, IInv, Shape
  <2>2. Shape' /\ Holds' /\ Current'
    BY <1>1, <2>1, ConstantsAssumption DEF Crash, IInv, Shape, Holds, Current, Locked
  <2>3. Owned'
    BY <1>1, <2>1, Zenon DEF Crash, Owned
  <2> QED
    BY <2>2, <2>3, Zenon DEF IInv
<1>2. CASE InstanceDown
  BY <1>2, ConstantsAssumption, Zenon

  DEF InstanceDown, locals, IInv, Shape, Holds, Owned, Current, NoCommand, Types, Ops
<1>3. CASE InstanceBack
  BY <1>3, Zenon DEF InstanceBack, locals, IInv, Shape, Holds, Owned, Current
<1> QED
  BY <1>1, <1>2, <1>3, Zenon

LEMMA NextIInv == IInv /\ [Next]_vars => IInv'
<1> SUFFICES ASSUME IInv, [Next]_vars PROVE IInv'
  OBVIOUS
<1>1. CASE UNCHANGED vars
  BY <1>1, Zenon DEF vars, world, locals, IInv, Shape, Holds, Owned, Current
<1>2. CASE (\E p \in Procs : Request(p) \/ Get(p)) \/ RunScheduled
  BY <1>2, BeforeLock, Zenon
<1>3. ASSUME NEW p \in Procs, Works(p), ~Get(p) PROVE IInv'
  BY <1>3, Begins, SyncKeeps, Zenon DEF Works
<1>4. CASE PgBackRest
  BY <1>4, CommandKeeps, Zenon
<1>5. CASE Crash \/ InstanceDown \/ InstanceBack
  BY <1>5, OutageKeeps, Zenon
<1> QED
  BY <1>1, <1>2, <1>3, <1>4, <1>5, Zenon DEF Next

(* The inductive invariant: the mutex is held exactly where the code holds  *)
(* it, no command runs beside a sync, and a sync's picture of the           *)
(* repository is current until it returns (backup.go:125-142, 194-244).     *)
THEOREM Invariance == Spec => []IInv
BY InitIInv, NextIInv, PTL DEF Spec

(* The prune of a sync makes the catalogue equal to the repository.         *)
LEMMA PruneExact ==
    ASSUME IInv, NEW p \in Procs, SyncPrune(p), ~Fails(p)
    PROVE  catalog' = LabelsOf(repo) /\ repo' = repo
BY Zenon DEF IInv, Current, SyncPrune

(* An operation that syncs and succeeds leaves exactly the repository's     *)
(* sets in the catalogue (backup.go:173-177, 233-243).                      *)
THEOREM SyncIsExact == Spec => SyncExact
<1>1. ASSUME IInv, [Next]_vars, NEW p \in Procs,
             result[p] # "ok", result'[p] = "ok", op[p] # "verify"
      PROVE  catalog' = LabelsOf(repo')
  <2>1. \A q \in Procs : ~Fails(q)
    BY <1>1, Zenon DEF IInv, Shape, Fails
  <2>2. ~(UNCHANGED result)
    BY <1>1, Zenon
  <2>3. ASSUME NEW q \in Procs, Succeeds(q) PROVE q = p
    BY <1>1, <2>3, Zenon DEF IInv, Shape, Succeeds
  <2>4. SyncPrune(p) /\ ~Fails(p)
    <3>1. ~(UNCHANGED vars) /\ ~InstanceDown /\ ~InstanceBack
      BY <2>2, Zenon DEF vars, locals, InstanceDown, InstanceBack
    <3>2. ~Crash /\ ~RunScheduled
      BY <1>1, Zenon DEF Crash, RunScheduled, IInv, Shape
    <3>3. ~PgBackRest
      <4>1. command.owner # NoProc => command.owner \in Procs
        BY <1>1, Zenon DEF IInv, Shape
      <4> QED
        BY <2>1, <2>2, <4>1, Zenon
           DEF PgBackRest, CommandSucceeds, ReplyLost, CommandFails, Continues
    <3>4. ASSUME NEW q \in Procs, Request(q) \/ Works(q)
          PROVE  SyncPrune(p)
      <4>1. ~Request(q)
        BY <1>1, Zenon DEF Request, IInv, Shape
      <4>2. ~Get(q) /\ ~ExecStart(q)
        BY <2>1, <2>2, Zenon DEF Get, ExecStart, Continues
      <4>3. ~Lock(q) /\ ~ExecLost(q)
        BY <2>1, <2>2, Zenon DEF Lock, ExecLost
      <4>4. ~SyncInfo(q)
        BY <2>1, <2>2, Zenon DEF SyncInfo, Learns, Continues
      <4>5. ~SyncUpsert(q)
        BY <2>1, <2>2, Zenon DEF SyncUpsert, Continues
      <4>6. ~ExecVerify(q)
        BY <1>1, <2>1, <2>3, Zenon DEF ExecVerify
      <4>7. SyncPrune(q) => q = p
        BY <2>1, <2>3, Zenon DEF SyncPrune
      <4> QED
        BY <3>4, <4>1, <4>2, <4>3, <4>4, <4>5, <4>6, <4>7, Zenon DEF Works
    <3> QED
      BY <1>1, <2>1, <3>1, <3>2, <3>3, <3>4, Zenon DEF Next
  <2> QED
    BY <1>1, <2>4, PruneExact, Zenon
<1>2. IInv /\ [Next]_vars =>
         [\A p \in Procs :
            /\ result[p] # "ok" /\ result'[p] = "ok" /\ op[p] # "verify"
            => catalog' = LabelsOf(repo')]_vars
  BY <1>1, Zenon
<1> QED
  BY <1>2, Invariance, PTL DEF SyncExact, Spec

(* No step drops the row of a set that is still in the repository           *)
(* (backup.go:217-231, 240).                                                *)
THEOREM NothingHidden == Spec => NeverHides
<1>1. ASSUME IInv, [Next]_vars, NEW l \in catalog, l \in LabelsOf(repo)
      PROVE  l \in catalog'
  <2>1. CASE \E p \in Procs : SyncPrune(p) /\ ~Fails(p)
    BY <1>1, <2>1, PruneExact, Zenon
  <2>2. CASE \E p \in Procs : SyncPrune(p) /\ Fails(p)
    <3>1. PICK p \in Procs : SyncPrune(p) /\ Fails(p)
      BY <2>2, Zenon
    <3>2. catalog' = catalog \/ catalog' = catalog \cap seen[p]
      BY <3>1, Zenon DEF SyncPrune
    <3>3. seen[p] = LabelsOf(repo)
      BY <1>1, <3>1, Zenon DEF IInv, Current, SyncPrune
    <3> QED
      BY <1>1, <3>2, <3>3, Zenon
  <2>3. CASE \E p \in Procs : SyncUpsert(p)
    BY <2>3, Zenon DEF SyncUpsert
  <2>4. CASE ~\E p \in Procs : SyncPrune(p) \/ SyncUpsert(p)
    <3>1. catalog' = catalog
      BY <1>1, <2>4, Zenon

      DEF Next, Works, PgBackRest, Request, RunScheduled, Get, Lock, ExecStart,
             ExecVerify, ExecLost, SyncInfo, CommandSucceeds, ReplyLost,
         CommandFails,
             Crash, InstanceDown, InstanceBack, vars, world
    <3> QED
      BY <1>1, <3>1, Zenon
  <2> QED
    BY <2>1, <2>2, <2>3, <2>4, Zenon
<1>2. IInv /\ [Next]_vars =>
         [\A l \in catalog : l \in LabelsOf(repo) /\ l \in LabelsOf(repo')
                               => l \in catalog']_vars
  BY <1>1, Zenon
<1> QED
  BY <1>2, Invariance, PTL DEF NeverHides, Spec

-----------------------------------------------------------------------------
(* What expire leaves of the repository is a repository.                    *)

LEMMA Least == ASSUME NEW T \in SUBSET Nat, T # {} PROVE \E x \in T : \A y \in T : x <= y
<1> DEFINE R == OpToRel(<, Nat)
<1>1. \A y, x \in Nat : <<y, x>> \in R <=> y < x
  BY Zenon DEF OpToRel
<1>2. IsWellFoundedOn(R, Nat)
  BY NatLessThanWellFounded, Zenon
<1> HIDE DEF R
<1>3. PICK x \in T : \A y \in T : ~ (<<y, x>> \in R)
  BY <1>2, WFMin, Zenon
<1>4. \A y \in T : ~ (y < x)
  BY <1>1, <1>3, Zenon
<1>5. \A y \in T : x \in Nat /\ y \in Nat
  OBVIOUS
<1> QED
  BY <1>4, <1>5

(* Each number up to the size of a set of places is the rank of one of them. *)
LEMMA Ranked ==
    ASSUME NEW n \in Nat, NEW K \in SUBSET (1 .. n), NEW m \in 1 .. Cardinality(K)
    PROVE  \E i \in K : Cardinality({j \in K : j <= i}) = m
<1> DEFINE Upto(i) == {j \in K : j <= i}
           T == {i \in Nat : Cardinality(Upto(i)) >= m}
<1>1. IsFiniteSet(K) /\ Cardinality(K) \in Nat
  <2>1. IsFiniteSet(1 .. n)
    BY FS_Interval
  <2> QED
    BY <2>1, FS_Subset, FS_CardinalityType, Zenon
<1>2. \A i \in Nat : IsFiniteSet(Upto(i)) /\ Cardinality(Upto(i)) \in Nat
  <2> SUFFICES ASSUME NEW i \in Nat PROVE IsFiniteSet(Upto(i)) /\ Cardinality(Upto(i)) \in Nat
    OBVIOUS
  <2>1. Upto(i) \in SUBSET K
    OBVIOUS
  <2> HIDE DEF Upto
  <2> QED
    BY <1>1, <2>1, FS_Subset, FS_CardinalityType, Zenon
<1>3. Upto(n) = K /\ Upto(0) = {}
  <2>1. \A j \in K : j \in Nat /\ j <= n /\ ~ (j <= 0)
    OBVIOUS
  <2> QED
    BY <2>1, Zenon
<1>4. n \in T /\ 0 \notin T
  <2> HIDE DEF Upto
  <2> QED
    BY <1>1, <1>3, FS_EmptySet
<1>5. PICK i \in T : \A k \in T : i <= k
  <2>1. T \in SUBSET Nat /\ T # {}
    BY <1>4, Zenon
  <2> HIDE DEF T
  <2> QED
    BY <2>1, Least, Zenon
<1>6. i \in Nat /\ i # 0 /\ i - 1 \in Nat /\ i - 1 \notin T
  <2>1. i \in Nat /\ i # 0
    BY <1>4, Zenon
  <2>2. i - 1 \in Nat /\ ~ (i <= i - 1)
    BY <2>1
  <2> QED
    BY <1>5, <2>1, <2>2, Zenon
<1>7. Cardinality(Upto(i)) >= m /\ Cardinality(Upto(i - 1)) < m
  <2>1. Cardinality(Upto(i)) >= m
    BY <1>5, Zenon
  <2>2. ~ (Cardinality(Upto(i - 1)) >= m)
    BY <1>6, Zenon
  <2> HIDE DEF Upto
  <2> QED
    BY <1>2, <1>6, <2>1, <2>2
<1>8. Upto(i) = IF i \in K THEN Upto(i - 1) \cup {i} ELSE Upto(i - 1)
  <2>1. \A j \in K : j <= i <=> j <= i - 1 \/ j = i
    BY <1>6
  <2> QED
    BY <1>6, <2>1, Zenon
<1>9. i \notin Upto(i - 1)
  BY <1>6
<1>10. i \in K /\ Cardinality(Upto(i)) = m
  <2> HIDE DEF Upto
  <2>1. Cardinality(Upto(i - 1) \cup {i}) = Cardinality(Upto(i - 1)) + 1
    BY <1>2, <1>6, <1>9, FS_AddElement, Zenon
  <2> QED
    BY <1>2, <1>6, <1>7, <1>8, <2>1
<1> QED
  BY <1>10, Zenon

LEMMA CountTo == ASSUME NEW n \in Nat PROVE IsFiniteSet(1 .. n) /\ Cardinality(1 .. n) = n
BY FS_Interval

LEMMA WithoutSeq ==
    ASSUME NEW S, NEW s \in Seq(S), NEW gone \in SUBSET DOMAIN s
    PROVE  Without(s, gone) \in Seq(S)
<1> DEFINE K == DOMAIN s \ gone
           M == Len(s) - Cardinality(gone)
           At(n) == CHOOSE i \in K : Cardinality({j \in K : j <= i}) = n
<1>1. Len(s) \in Nat /\ DOMAIN s = 1 .. Len(s) /\ \A i \in DOMAIN s : s[i] \in S
  OBVIOUS
<1>2. IsFiniteSet(DOMAIN s) /\ Cardinality(DOMAIN s) = Len(s)
  BY <1>1, CountTo, Zenon
<1>3. M \in Nat /\ M = Cardinality(K)
  <2>1. IsFiniteSet(gone) /\ IsFiniteSet(K)
    BY <1>2, FS_Subset, Zenon
  <2>2. gone \cup K = DOMAIN s /\ gone \cap K = {}
    OBVIOUS
  <2> HIDE DEF K
  <2>3. Cardinality(gone \cup K) = Cardinality(gone) + Cardinality(K) - Cardinality(gone \cap K)
    BY <2>1, FS_Union, Zenon
  <2>4. Cardinality(gone) \in Nat /\ Cardinality(K) \in Nat /\ Cardinality({}) = 0
    BY <2>1, FS_CardinalityType, FS_EmptySet, Zenon
  <2>5. Len(s) = Cardinality(gone) + Cardinality(K) - 0
    BY <1>2, <2>2, <2>3, <2>4, Zenon
  <2> QED
    BY <2>4, <2>5
<1>4. \A n \in 1 .. M : s[At(n)] \in S
  <2> SUFFICES ASSUME NEW n \in 1 .. M PROVE At(n) \in DOMAIN s
    BY <1>1, Zenon
  <2>1. K \in SUBSET (1 .. Len(s)) /\ n \in 1 .. Cardinality(K)
    BY <1>1, <1>3, Zenon
  <2>2. \E i \in K : Cardinality({j \in K : j <= i}) = n
    <3> HIDE DEF K
    <3> QED
      BY <1>1, <2>1, Ranked, Zenon
  <2>3. At(n) \in K
    <3> HIDE DEF K
    <3> QED
      BY <2>2, Zenon
  <2> QED
    BY <2>3, Zenon
<1>5. Without(s, gone) = [n \in 1 .. M |-> s[At(n)]]
  BY Zenon DEF Without
<1> HIDE DEF M, At
<1>6. [n \in 1 .. M |-> s[At(n)]] \in [1 .. M -> S]
  BY <1>4, Zenon
<1> QED
  <2>1. Without(s, gone) \in UNION {[1 .. n -> S] : n \in Nat}
    BY <1>3, <1>5, <1>6, ZenonT(30)
  <2> QED
    BY <2>1, SeqDef, Zenon

(* What a command leaves.                                                   *)
LEMMA EffectType ==
    ASSUME repo \in Seq(Backups), Feasible(command),
           command.op = "run" => command.arg \in Types
    PROVE  Effect(command) \in Seq(Backups)
<1>1. \A s \in Seq(Backups) : Expired(s) \in Seq(Backups)
  <2> SUFFICES ASSUME NEW s \in Seq(Backups) PROVE Expired(s) \in Seq(Backups)
    OBVIOUS
  <2> DEFINE kept == {i \in Fulls(s) : Cardinality({j \in Fulls(s) : j >= i}) <= RetentionFull}
             old == {i \in DOMAIN s : \A k \in kept : i < k}
  <2>1. old \in SUBSET DOMAIN s
    OBVIOUS
  <2>2. Expired(s) = Without(s, old)
    BY Zenon DEF Expired
  <2> HIDE DEF old
  <2> QED
    BY <2>1, <2>2, WithoutSeq, Zenon
<1>2. CASE command.op = "run"
  <2> DEFINE l == CHOOSE l \in Unused : TRUE
             one == [label |-> l, type |-> IF repo = <<>> THEN "full" ELSE command.arg]
  <2>1. l \in Labels
    <3>1. Unused # {} /\ Unused \subseteq Labels
      BY <1>2, Zenon DEF Feasible, Unused
    <3> HIDE DEF Unused
    <3> QED
      BY <3>1, Zenon
  <2>2. one \in Backups
    <3> HIDE DEF l
    <3> QED
      BY <1>2, <2>1, Zenon DEF Backups, Types
  <2>3. Effect(command) = Expired(Append(repo, one))
    BY <1>2, Zenon DEF Effect, BackedUp
  <2> HIDE DEF one, l
  <2>4. Append(repo, one) \in Seq(Backups)
    BY <2>2
  <2> QED
    BY <1>1, <2>3, <2>4, Zenon
<1>3. CASE command.op = "delete"
  <2>1. ExpireSetGone(repo, command.arg) \in SUBSET DOMAIN repo
    BY DEF ExpireSetGone, Dependents
  <2>2. Effect(command) = Without(repo, ExpireSetGone(repo, command.arg))
    BY <1>3, Zenon DEF Effect
  <2> QED
    BY <2>1, <2>2, WithoutSeq, Zenon
<1>4. CASE command.op \notin {"run", "delete"}
  BY <1>1, <1>4, Zenon DEF Effect
<1> QED
  BY <1>2, <1>3, <1>4, Zenon

(* The values of the variables the argument above does not read; a backup   *)
(* runs with a type, also the one a dead goroutine left in the container.   *)
Values ==
    /\ repo \in Seq(Backups)
    /\ container \in Nat /\ up \in BOOLEAN /\ catalog \subseteq Labels
    /\ cid \in [Procs -> Nat]
    /\ seen \in [Procs -> SUBSET Labels] /\ todo \in [Procs -> SUBSET Labels]
    /\ calls \in 0 .. MaxCalls /\ faults \in 0 .. MaxFaults /\ outages \in 0 .. MaxOutages
    /\ arg[Sched] \in Types
    /\ \A p \in Procs : op[p] = "run" => arg[p] \in Types
    /\ command.op = "run" => command.arg \in Types

LEMMA ValuesInit == Init => Values
<1> SUFFICES ASSUME Init PROVE Values
  OBVIOUS
<1>1. repo \in Seq(Backups)
  BY DEF Init
<1>2. command.op # "run"
  BY Zenon DEF Init, NoCommand
<1> QED
  BY <1>1, <1>2, ConstantsAssumption DEF Init, Values, Types

(* A return changes no value but empties its own lists.                     *)
LEMMA ReturnValues ==
    ASSUME IInv, Values, NEW p \in Procs, Fails(p) \/ Succeeds(p), arg' = arg
    PROVE  /\ seen' \in [Procs -> SUBSET Labels] /\ todo' \in [Procs -> SUBSET Labels]
           /\ arg'[Sched] \in Types /\ \A q \in Procs : op'[q] = "run" => arg'[q] \in Types
<1>1. seen' \in [Procs -> SUBSET Labels] /\ todo' \in [Procs -> SUBSET Labels]
  BY Zenon DEF Values, Fails, Succeeds, Forget
<1>2. \A q \in Procs : op'[q] = "run" => op[q] = "run"
  BY Zenon DEF IInv, Shape, Fails, Succeeds
<1> QED
  BY <1>1, <1>2, Zenon DEF Values

LEMMA FaultBound == ASSUME Values, Fault \/ UNCHANGED faults PROVE faults' \in 0 .. MaxFaults
BY ConstantsAssumption DEF Values, Fault

(* The goroutines that only read, or that work on the catalogue.            *)
LEMMA WorksValues == ASSUME IInv, Values, NEW p \in Procs, Works(p) PROVE Values'
<1> USE ReturnValues, FaultBound
<1>1. CASE Get(p)
  <2>1. cid' \in [Procs -> Nat]
    BY <1>1, Zenon DEF Get, Values
  <2>2. CASE Fails(p)
    BY <1>1, <2>1, <2>2, Zenon DEF Get, Values, world
  <2>3. CASE Continues(p, "lock") /\ UNCHANGED <<seen, todo>>
    BY <1>1, <2>1, <2>3, Zenon DEF Get, Values, Continues, world
  <2> QED
    BY <1>1, <2>2, <2>3, Zenon DEF Get
<1>2. CASE Lock(p)
  BY <1>2, Zenon DEF Lock, Values, world, bounds
<1>3. CASE ExecStart(p)
  <2>1. CASE Fails(p) /\ UNCHANGED command
    BY <1>3, <2>1, Zenon DEF ExecStart, Values, bounds
  <2>2. CASE /\ command' = [owner |-> p, op |-> op[p], arg |-> arg[p]]
             /\ Continues(p, "running") /\ UNCHANGED <<seen, todo>>
    <3>1. command'.op = "run" => command'.arg \in Types
      BY <2>2, Zenon DEF Values
    <3> QED
      BY <1>3, <2>2, <3>1, Zenon DEF ExecStart, Values, Continues, bounds
  <2> QED
    BY <1>3, <2>1, <2>2, Zenon DEF ExecStart
<1>4. CASE ExecVerify(p) \/ ExecLost(p)
  <2>1. /\ (Fails(p) \/ Succeeds(p)) /\ arg' = arg /\ faults' \in 0 .. MaxFaults
        /\ UNCHANGED <<world, cid, calls, outages>>
    BY <1>4, Zenon DEF ExecVerify, ExecLost, Values, bounds
  <2> QED
    BY <2>1, Zenon DEF Values, world
<1>5. CASE SyncInfo(p)
  <2>1. UNCHANGED <<world, arg, cid, calls, outages>> /\ faults' \in 0 .. MaxFaults
    BY <1>5, Zenon DEF SyncInfo
  <2>2. CASE Fails(p)
    BY <2>1, <2>2, Zenon DEF Values, world
  <2>3. CASE Learns(p, Truth) /\ ~Fails(p)
    <3>1. LabelsOf(repo) \subseteq Labels
      <4>1. \A i \in DOMAIN repo : repo[i] \in Backups
        BY ElementOfSeq DEF Values
      <4> QED
        BY <4>1, Zenon DEF LabelsOf, Backups
    <3>2. /\ seen' = [seen EXCEPT ![p] = LabelsOf(repo)] /\ todo' = [todo EXCEPT ![p] = LabelsOf(repo)]
          /\ op' = op
      BY <2>3, Zenon DEF Learns, Truth, Continues
    <3> QED
      BY <2>1, <3>1, <3>2, Zenon DEF Values, world
  <2> QED
    BY <1>5, <2>2, <2>3, LearnsTruth, Zenon DEF SyncInfo
<1>6. CASE SyncUpsert(p)
  <2>1. UNCHANGED <<repo, command, container, up, arg, cid, calls, outages>> /\ faults' \in 0 .. MaxFaults
    BY <1>6, Zenon DEF SyncUpsert
  <2>2. CASE Fails(p) /\ UNCHANGED catalog
    BY <2>1, <2>2, Zenon DEF Values
  <2>3. CASE ~(Fails(p) /\ UNCHANGED catalog)
    <3>1. op' = op /\ seen' = seen /\ catalog' \subseteq Labels /\ todo' \in [Procs -> SUBSET Labels]
      BY <1>6, <2>3, SMTT(30) DEF SyncUpsert, Continues, Values
    <3> QED
      BY <2>1, <3>1, Zenon DEF Values
  <2> QED
    BY <2>2, <2>3, Zenon
<1>7. CASE SyncPrune(p)
  <2>1. /\ UNCHANGED <<repo, command, container, up, arg, cid, calls, outages>> /\ faults' \in 0 .. MaxFaults
        /\ catalog' \subseteq Labels /\ (Fails(p) \/ Succeeds(p))
    BY <1>7, Zenon DEF SyncPrune, Values
  <2> QED
    BY <2>1, Zenon DEF Values
<1> QED
  BY <1>1, <1>2, <1>3, <1>4, <1>5, <1>6, <1>7, Zenon DEF Works

LEMMA NextValues == ASSUME IInv, Values, [Next]_vars PROVE Values'
<1>1. ASSUME NEW p \in Procs, Request(p) PROVE Values'
  <2>1. /\ UNCHANGED <<world, cid, seen, todo, faults, outages>> /\ calls' \in 0 .. MaxCalls
        /\ p # Sched
    BY <1>1, ConstantsAssumption DEF Request, Values
  <2>2. arg'[Sched] \in Types /\ \A q \in Procs : op'[q] = "run" => arg'[q] \in Types
    BY <1>1, <2>1 DEF Request, Values, IInv, Shape
  <2> QED
    BY <2>1, <2>2, Zenon DEF Values, world
<1>2. CASE RunScheduled
  <2>1. UNCHANGED <<world, arg, cid, seen, todo, bounds>>
    BY <1>2, Zenon DEF RunScheduled
  <2>2. \A q \in Procs : op'[q] = "run" => q = Sched \/ op[q] = "run"
    BY <1>2, Zenon DEF RunScheduled, IInv, Shape
  <2> QED
    BY <2>1, <2>2, Zenon DEF Values, world, bounds
<1>3. CASE PgBackRest
  <2>1. /\ UNCHANGED <<container, up, catalog, arg, cid, calls, outages>>
        /\ command' = NoCommand /\ faults' \in 0 .. MaxFaults
    BY <1>3, FaultBound, Zenon
    DEF PgBackRest, CommandSucceeds, ReplyLost, CommandFails, bounds
  <2>2. repo' \in Seq(Backups)
    BY <1>3, EffectType, Zenon
    DEF PgBackRest, CommandSucceeds, ReplyLost, CommandFails, Values
  <2>3. command'.op # "run"
    BY <2>1, Zenon DEF NoCommand
  <2>4. CASE UNCHANGED <<op, seen, todo>>
    BY <2>1, <2>2, <2>3, <2>4, Zenon DEF Values
  <2>5. CASE command.owner \in Procs /\ Fails(command.owner)
    BY <2>1, <2>2, <2>3, <2>5, ReturnValues, Zenon DEF Values
  <2>6. command.owner \in Procs \cup {NoProc}
    BY Zenon DEF IInv, Shape
  <2> QED
    BY <1>3, <2>4, <2>5, <2>6, Zenon
    DEF PgBackRest, CommandSucceeds, ReplyLost, CommandFails, Continues
<1>4. CASE Crash
  <2>1. command'.op = command.op /\ command'.arg = command.arg
    BY <1>4, Zenon DEF Crash, IInv, Shape
  <2> QED
    BY <1>4, <2>1, ConstantsAssumption DEF Crash, Outage, Values
<1>5. CASE InstanceDown
  <2>1. command'.op # "run"
    BY <1>5, Zenon DEF InstanceDown, NoCommand
  <2>2. /\ UNCHANGED <<repo, container, catalog, locals, calls, faults>>
        /\ up' = FALSE /\ Outage
    BY <1>5, Zenon DEF InstanceDown
  <2>3. outages' \in 0 .. MaxOutages
    BY <2>2, ConstantsAssumption DEF Outage, Values
  <2> QED
    BY <2>1, <2>2, <2>3, Zenon DEF Values, locals
<1>6. CASE InstanceBack
  BY <1>6 DEF InstanceBack, Values, locals, bounds
<1>7. CASE UNCHANGED vars
  BY <1>7, Zenon DEF vars, world, locals, bounds, Values
<1> QED
  BY <1>1, <1>2, <1>3, <1>4, <1>5, <1>6, <1>7, WorksValues, Zenon DEF Next

(* The variables of the service and of pgBackRest keep their types, and a    *)
(* goroutine holds the mutex exactly from Lock to its return, however it     *)
(* returns (backup.go:125-127, 166-168, 263-265, 288-290).                   *)
THEOREM TypeCorrect == Spec => []TypeOK
<1>1. Values /\ IInv /\ [Next]_vars => Values'
  BY NextValues, Zenon
<1>2. Values /\ IInv => TypeOK
  BY Zenon DEF Values, IInv, Shape, Holds, TypeOK
<1> QED
  BY <1>1, <1>2, ValuesInit, Invariance, PTL DEF Spec
=============================================================================
