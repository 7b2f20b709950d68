--------------------------- MODULE FleetProofs ----------------------------
(***************************************************************************)
(* Proofs about dumps and their retention (Objects), clones and            *)
(* point-in-time copies (Copies), and clusters (ClusterCtl) for any number *)
(* of replicas and of failing calls.                                       *)
(***************************************************************************)
EXTENDS Objects, Copies, ClusterCtl, FiniteSetTheorems, WellFoundedInduction, TLAPS

Key == [prefix : {"remote-backups/", "meta-backups/"}, stamp : 0 .. MaxClock, suffix : Suffixes]

\* A row that leads to its dump, and not to one of a server newer than pg_dump.
Good(r) ==
    /\ r.key \in Keys /\ r.key.prefix = "remote-backups/"
    /\ objects[r.key] = r.data
    /\ remote <= DumpMajor

\* What a capture knows between two of its steps.
Captured(r) ==
    \/ r.at \in {"start", "failed", "done"}
    \/ r.at = "put" /\ remote <= DumpMajor
    \/ r.at = "save" /\ Good(r)

\* The meta-backup job holds good rows, or doomed keys that are still there,
\* with enough newer dumps besides.
MetaKnows ==
    \/ meta.at \in {"idle", "list"}
    \/ meta.at = "pruned" /\ Cardinality(Meta) <= Keep
    \/ meta.at = "put" /\ \A r \in meta.rows : Good(r)
    \/ /\ meta.at = "delete" /\ meta = [at |-> "delete", doomed |-> meta.doomed]
       /\ meta.doomed \subseteq Meta
       /\ \A k \in meta.doomed : Cardinality({l \in Meta : Older(k, l)}) >= Keep
       /\ Cardinality(Meta \ meta.doomed) <= Keep

\* The load under way, and the target it fills.
LoadKnows ==
    /\ target = [status |-> target.status, holds |-> target.holds]
    /\ target.status \in {"absent", "provisioning", "running", "error"}
    /\ \/ load.at = "start"
       \/ /\ load.at \in {"ready", "load", "mark", "done", "unmarked", "lost"}
          /\ load = [at |-> load.at, row |-> load.row]

\* What the bucket and the catalogue hold.
Bucket ==
    /\ objects = [k \in Keys |-> objects[k]] /\ Keys \subseteq Key /\ IsFiniteSet(Keys)
    /\ \A k \in Meta : \A r \in objects[k] : Good(r)
    /\ \A r \in catalogue : Good(r)

CapturesKnow ==
    /\ capture = [c \in Captures |-> capture[c]]
    /\ \A c \in Captures : Captured(capture[c])

DInv ==
    /\ clock \in 0 .. MaxClock /\ remote \in Nat
    /\ Bucket /\ CapturesKnow
    /\ MetaKnows /\ LoadKnows /\ FailedLoadIsMarked
-----------------------------------------------------------------------------
\* Nothing but a new object, or one fewer meta dump: good rows stay good.
LEMMA GoodStays ==
    ASSUME remote' = remote,
           \A k \in Keys : k.prefix = "remote-backups/" =>
               k \in DOMAIN objects' /\ objects'[k] = objects[k]
    PROVE  \A r : Good(r) => Good(r)'
BY Zenon DEF Good, Keys

\* stampKey hands out a key that is not taken: Put adds an object and changes none.
LEMMA PutAdds ==
    ASSUME DInv, NEW prefix \in {"remote-backups/", "meta-backups/"},
           NEW key \in stampKey(prefix), NEW content, Put(key, content), remote' = remote
    PROVE  /\ key \notin Keys /\ key.prefix = prefix /\ Keys' = Keys \cup {key}
           /\ objects' = [k \in Keys' |-> objects'[k]]
           /\ objects'[key] = content /\ \A k \in Keys : objects'[k] = objects[k]
           /\ Keys' \subseteq Key /\ IsFiniteSet(Keys')
           /\ \A r : Good(r) => Good(r)'
<1>1. key \notin Keys /\ key.prefix = prefix /\ key \in Key
  BY DumpsAssumption, Zenon DEF stampKey, Key, DInv, Bucket
<1>2. objects' = [k \in Keys \cup {key} |-> IF k = key THEN content ELSE objects[k]]
  BY Zenon DEF Put
<1>3. Keys' = Keys \cup {key}
  BY <1>2, Zenon DEF Keys
<1>4. IsFiniteSet(Keys')
  BY <1>3, FS_AddElement, Zenon DEF DInv, Bucket
<1>5. objects'[key] = content /\ \A k \in Keys : objects'[k] = objects[k]
  BY <1>1, <1>2, Zenon
<1>6. Keys' \subseteq Key
  BY <1>1, <1>3, Zenon DEF DInv, Bucket
<1>7. objects' = [k \in Keys' |-> objects'[k]]
  BY <1>2, <1>3, Zenon
<1>8. \A r : Good(r) => Good(r)'
  BY <1>3, <1>5, GoodStays, Zenon DEF Keys
<1> QED
  BY <1>1, <1>3, <1>4, <1>5, <1>6, <1>7, <1>8, Zenon

\* While good rows stay good, who does not move knows what they knew.
LEMMA Others ==
    ASSUME DInv, remote' = remote, \A r : Good(r) => Good(r)'
    PROVE  /\ meta' = meta /\ Meta' = Meta => MetaKnows'
           /\ UNCHANGED <<load, target>> => LoadKnows' /\ FailedLoadIsMarked'
           /\ capture' = capture => CapturesKnow'
           /\ UNCHANGED <<objects, catalogue>> => Bucket'
<1>1. ASSUME meta' = meta, Meta' = Meta PROVE MetaKnows'
  BY <1>1, Zenon DEF MetaKnows, DInv
<1>2. ASSUME UNCHANGED <<load, target>> PROVE LoadKnows' /\ FailedLoadIsMarked'
  BY <1>2, Zenon DEF LoadKnows, FailedLoadIsMarked, DInv
<1>3. ASSUME capture' = capture PROVE CapturesKnow'
  BY <1>3, Zenon DEF CapturesKnow, Captured, DInv
<1>4. ASSUME UNCHANGED <<objects, catalogue>> PROVE Bucket'
  BY <1>4, Zenon DEF Bucket, Keys, Meta, DInv
<1> QED
  BY <1>1, <1>2, <1>3, <1>4, Zenon

\* One capture moves on.
LEMMA CaptureMoves ==
    ASSUME DInv, remote' = remote, \A r : Good(r) => Good(r)',
           NEW c \in Captures, NEW s, capture' = [capture EXCEPT ![c] = s], Captured(s)'
    PROVE  CapturesKnow'
<1>1. capture' = [d \in Captures |-> IF d = c THEN s ELSE capture[d]]
  BY Zenon DEF DInv, CapturesKnow
<1>2. \A d \in Captures : Captured(capture[d])'
  BY <1>1, Zenon DEF DInv, CapturesKnow, Captured
<1> QED
  BY <1>1, <1>2, Zenon DEF CapturesKnow

LEMMA SameRemote ==
    ASSUME remote' = remote, objects' = objects
    PROVE  (\A r : Good(r) => Good(r)') /\ Meta' = Meta /\ Keys' = Keys
BY Zenon DEF Good, Keys, Meta

\* Dump stores nothing yet.
LEMMA DumpStep == ASSUME DInv, NEW c \in Captures, Dump(c) PROVE DInv'
<1>1. /\ UNCHANGED <<clock, remote, load, target, meta, objects, catalogue>>
      /\ \/ /\ DumpMajor >= remote
            /\ capture' = [capture EXCEPT ![c] = [at |-> "put", data |-> clock + 1]]
         \/ capture' = [capture EXCEPT ![c] = [at |-> "failed"]]
  BY Zenon DEF Dump, CaptureStep, CheckVersionSkew
<1>2. CapturesKnow'
  <2>1. ASSUME NEW s, capture' = [capture EXCEPT ![c] = s], Captured(s)' PROVE CapturesKnow'
    BY <1>1, <2>1, SameRemote, CaptureMoves, Zenon
  <2>2. Captured([at |-> "failed"])'
    BY Zenon DEF Captured
  <2>3. DumpMajor >= remote => Captured([at |-> "put", data |-> clock + 1])'
    BY <1>1, DumpsAssumption, Zenon DEF Captured, DInv
  <2> QED
    BY <1>1, <2>1, <2>2, <2>3, Zenon
<1> QED
  BY <1>1, <1>2, SameRemote, Others, Zenon DEF DInv

\* A new remote dump leaves the meta dumps and the rows as they were.
LEMMA StoreStep == ASSUME DInv, NEW c \in Captures, Store(c) PROVE DInv'
<1>1. UNCHANGED <<clock, remote, load, target, meta, catalogue>>
  BY Zenon DEF Store, CaptureStep
<1>2. Captured([at |-> "failed"])'
  BY Zenon DEF Captured
<1>3. CASE objects' = objects /\ capture' = [capture EXCEPT ![c] = [at |-> "failed"]]
  <2>1. CapturesKnow'
    BY <1>1, <1>2, <1>3, SameRemote, CaptureMoves, Zenon
  <2> QED
    BY <1>1, <1>3, <2>1, SameRemote, Others, Zenon DEF DInv
<1>4. ASSUME NEW key \in stampKey("remote-backups/"), Put(key, capture[c].data),
             \/ capture' = [capture EXCEPT ![c] = [at |-> "save", data |-> @.data, key |-> key]]
             \/ capture' = [capture EXCEPT ![c] = [at |-> "failed"]]
      PROVE  DInv'
  <2> PICK d : d = capture[c].data
    OBVIOUS
  <2> DEFINE s == [at |-> "save", data |-> d, key |-> key]
  <2>1. /\ key \notin Keys /\ key.prefix = "remote-backups/" /\ Keys' = Keys \cup {key}
        /\ objects' = [k \in Keys' |-> objects'[k]]
        /\ objects'[key] = capture[c].data /\ \A k \in Keys : objects'[k] = objects[k]
        /\ Keys' \subseteq Key /\ IsFiniteSet(Keys')
        /\ \A r : Good(r) => Good(r)'
    BY <1>1, <1>4, PutAdds, Zenon
  <2>2. Meta' = Meta
    BY <2>1, Zenon DEF Meta
  <2>3. remote <= DumpMajor
    BY Zenon DEF Store, CaptureStep, DInv, CapturesKnow, Captured
  <2>4. Captured(s)'
    BY <1>1, <2>1, <2>3, Zenon DEF Captured, Good
  <2>5. capture' = [capture EXCEPT ![c] = s] \/ capture' = [capture EXCEPT ![c] = [at |-> "failed"]]
    BY <1>4, Zenon DEF DInv, CapturesKnow
  <2> HIDE DEF s
  <2>6. CapturesKnow'
    BY <1>1, <1>2, <2>1, <2>4, <2>5, CaptureMoves, Zenon
  <2>7. \A k \in Meta : k \in Keys /\ objects'[k] = objects[k]
    BY <2>1, Zenon DEF Meta
  <2>8. Bucket'
    BY <1>1, <2>1, <2>2, <2>7, Zenon DEF Bucket, DInv
  <2> QED
    BY <1>1, <2>1, <2>2, <2>6, <2>8, Others, Zenon DEF DInv
<1> QED
  BY <1>3, <1>4, Zenon DEF Store

\* Save writes a row for what was stored, under the key it was stored.
LEMMA SaveStep == ASSUME DInv, NEW c \in Captures, Save(c) PROVE DInv'
<1>1. /\ UNCHANGED <<clock, remote, load, target, meta, objects>> /\ capture[c].at = "save"
      /\ \/ /\ catalogue' = catalogue \cup {[key |-> capture[c].key, data |-> capture[c].data]}
            /\ capture' = [capture EXCEPT ![c] = [at |-> "done"]]
         \/ catalogue' = catalogue /\ capture' = [capture EXCEPT ![c] = [at |-> "failed"]]
  BY Zenon DEF Save, CaptureStep
<1>2. Captured([at |-> "failed"])' /\ Captured([at |-> "done"])'
  BY Zenon DEF Captured
<1>3. CapturesKnow'
  BY <1>1, <1>2, SameRemote, CaptureMoves, Zenon
<1>4. Good([key |-> capture[c].key, data |-> capture[c].data])
  BY <1>1, Zenon DEF DInv, CapturesKnow, Captured, Good
<1>5. \A r \in catalogue' : Good(r)
  BY <1>1, <1>4, Zenon DEF DInv, Bucket
<1>6. \A r \in catalogue' : Good(r)'
  BY <1>1, <1>5, SameRemote, Zenon
<1>7. Bucket'
  BY <1>1, <1>6, SameRemote, Zenon DEF Bucket, DInv
<1> QED
  BY <1>1, <1>3, <1>7, SameRemote, Others, Zenon DEF DInv
-----------------------------------------------------------------------------
\* What a load changes is its own progress and its target.
LEMMA LoadFrame ==
    ASSUME DInv, NEW from, LoadStep(from), LoadKnows', FailedLoadIsMarked'
    PROVE  DInv'
<1>1. UNCHANGED <<clock, remote, objects, catalogue, capture, meta>>
  BY Zenon DEF LoadStep
<1> QED
  BY <1>1, SameRemote, Others, Zenon DEF DInv

LEMMA LoadMoves ==
    ASSUME NEW r, NEW at, r = [at |-> r.at, row |-> r.row]
    PROVE  [r EXCEPT !.at = at] = [at |-> at, row |-> r.row]
<1>1. [[at |-> r.at, row |-> r.row] EXCEPT !.at = at] = [at |-> at, row |-> r.row]
  OBVIOUS
<1> QED
  BY <1>1, Zenon

LEMMA TargetMoves ==
    ASSUME NEW r, NEW v, r = [status |-> r.status, holds |-> r.holds]
    PROVE  /\ [r EXCEPT !.status = v] = [status |-> v, holds |-> r.holds]
           /\ [r EXCEPT !.holds = v] = [status |-> r.status, holds |-> v]
<1>1. [[status |-> r.status, holds |-> r.holds] EXCEPT !.status = v] = [status |-> v, holds |-> r.holds]
  OBVIOUS
<1>2. [[status |-> r.status, holds |-> r.holds] EXCEPT !.holds = v] = [status |-> r.status, holds |-> v]
  OBVIOUS
<1> QED
  BY <1>1, <1>2, Zenon

LEMMA RestoreRequestStep == ASSUME DInv, RestoreRequest PROVE DInv'
<1>1. PICK r \in catalogue : load' = [at |-> "ready", row |-> r]
  BY Zenon DEF RestoreRequest
<1>2. target' = [status |-> "provisioning", holds |-> 0]
  BY Zenon DEF RestoreRequest
<1>3. LoadKnows' /\ FailedLoadIsMarked'
  BY <1>1, <1>2, Zenon DEF LoadKnows, FailedLoadIsMarked
<1> QED
  BY <1>3, LoadFrame, Zenon DEF RestoreRequest

LEMMA WaitReadyStep == ASSUME DInv, WaitReady PROVE DInv'
<1>1. /\ load = [at |-> load.at, row |-> load.row]
      /\ target = [status |-> target.status, holds |-> target.holds]
  BY Zenon DEF DInv, LoadKnows, WaitReady, LoadStep
<1>2. PICK at \in {"load", "mark"} : load' = [load EXCEPT !.at = at]
  BY Zenon DEF WaitReady
<1>3. PICK s \in {"error", "running", "provisioning"} : target' = [target EXCEPT !.status = s]
  BY Zenon DEF WaitReady
<1>4. load' = [at |-> at, row |-> load.row]
  BY <1>1, <1>2, LoadMoves, Zenon
<1>5. target' = [status |-> s, holds |-> target.holds]
  BY <1>1, <1>3, TargetMoves, Zenon
<1>6. LoadKnows' /\ FailedLoadIsMarked'
  BY <1>4, <1>5, Zenon DEF LoadKnows, FailedLoadIsMarked
<1> QED
  BY <1>6, LoadFrame, Zenon DEF WaitReady

\* The row is good, so the object it leads to is the dump asked for.
LEMMA RestoreIntoStep == ASSUME DInv, RestoreInto PROVE DInv'
<1>1. /\ load = [at |-> load.at, row |-> load.row]
      /\ target = [status |-> target.status, holds |-> target.holds]
      /\ target.status \in {"absent", "provisioning", "running", "error"}
  BY Zenon DEF DInv, LoadKnows, RestoreInto, LoadStep
<1>2. CASE /\ load.row \in catalogue /\ load' = [load EXCEPT !.at = "done"]
           /\ target' = [target EXCEPT !.holds = objects[load.row.key]]
  <2>1. load' = [at |-> "done", row |-> load.row]
    BY <1>1, <1>2, LoadMoves, Zenon
  <2>2. target' = [status |-> target.status, holds |-> objects[load.row.key]]
    BY <1>1, <1>2, TargetMoves, Zenon
  <2>3. objects[load.row.key] = load.row.data
    BY <1>2, Zenon DEF DInv, Bucket, Good
  <2>4. LoadKnows' /\ FailedLoadIsMarked'
    BY <1>1, <2>1, <2>2, <2>3, Zenon DEF LoadKnows, FailedLoadIsMarked
  <2> QED
    BY <2>4, LoadFrame, Zenon DEF RestoreInto
<1>3. CASE load' = [load EXCEPT !.at = "mark"] /\ UNCHANGED target
  <2>1. load' = [at |-> "mark", row |-> load.row]
    BY <1>1, <1>3, LoadMoves, Zenon
  <2>2. LoadKnows' /\ FailedLoadIsMarked'
    BY <1>1, <1>3, <2>1, Zenon DEF LoadKnows, FailedLoadIsMarked
  <2> QED
    BY <2>2, LoadFrame, Zenon DEF RestoreInto
<1> QED
  BY <1>2, <1>3, Zenon DEF RestoreInto

LEMMA MarkErrorStep == ASSUME DInv, MarkError PROVE DInv'
<1>1. /\ load = [at |-> load.at, row |-> load.row]
      /\ target = [status |-> target.status, holds |-> target.holds]
      /\ target.status \in {"absent", "provisioning", "running", "error"}
  BY Zenon DEF DInv, LoadKnows, MarkError, LoadStep
<1>2. CASE load' = [load EXCEPT !.at = "done"] /\ target' = [target EXCEPT !.status = "error"]
  <2>1. load' = [at |-> "done", row |-> load.row]
    BY <1>1, <1>2, LoadMoves, Zenon
  <2>2. target' = [status |-> "error", holds |-> target.holds]
    BY <1>1, <1>2, TargetMoves, Zenon
  <2>3. LoadKnows' /\ FailedLoadIsMarked'
    BY <2>1, <2>2, Zenon DEF LoadKnows, FailedLoadIsMarked
  <2> QED
    BY <2>3, LoadFrame, Zenon DEF MarkError
<1>3. CASE load' = [load EXCEPT !.at = "unmarked"] /\ UNCHANGED target
  <2>1. load' = [at |-> "unmarked", row |-> load.row]
    BY <1>1, <1>3, LoadMoves, Zenon
  <2>2. LoadKnows' /\ FailedLoadIsMarked'
    BY <1>1, <1>3, <2>1, Zenon DEF LoadKnows, FailedLoadIsMarked
  <2> QED
    BY <2>2, LoadFrame, Zenon DEF MarkError
<1> QED
  BY <1>2, <1>3, Zenon DEF MarkError
-----------------------------------------------------------------------------
\* A set of numbers that is not empty has a least one.
LEMMA Least == ASSUME NEW T \in SUBSET Nat, T # {} PROVE \E x \in T : \A y \in T : x <= y
<1> DEFINE R == OpToRel(<, Nat)
<1>1. \A y, x \in Nat : <<y, x>> \in R <=> y < x
  BY Zenon DEF OpToRel
<1>2. IsWellFoundedOn(R, Nat)
  BY NatLessThanWellFounded, Zenon
<1> HIDE DEF R
<1>3. PICK x \in T : \A y \in T : ~ (<<y, x>> \in R)
  BY <1>2, WFMin, Zenon
<1>4. \A y \in T : ~ (y < x)
  BY <1>1, <1>3, Zenon
<1>5. \A y \in T : x \in Nat /\ y \in Nat
  OBVIOUS
<1> QED
  BY <1>4, <1>5

LEMMA KeyParts ==
    ASSUME NEW k \in Key
    PROVE  /\ k.stamp \in Nat /\ k.suffix \in Nat
           /\ k = [prefix |-> k.prefix, stamp |-> k.stamp, suffix |-> k.suffix]
<1>1. k = [prefix |-> k.prefix, stamp |-> k.stamp, suffix |-> k.suffix]
  BY Zenon DEF Key
<1>2. k.stamp \in 0 .. MaxClock /\ k.suffix \in Suffixes
  BY Zenon DEF Key
<1>3. k.stamp \in Nat
  BY <1>2, DumpsAssumption
<1>4. k.suffix \in Nat
  BY <1>2, DumpsAssumption, Zenon
<1> QED
  BY <1>1, <1>3, <1>4, Zenon

\* Keys of one prefix are ordered as their text is: one of several is the oldest.
LEMMA Oldest ==
    ASSUME NEW S \in SUBSET Key, S # {}, \A k, l \in S : k.prefix = l.prefix
    PROVE  \E m \in S : \A k \in S : k = m \/ Older(m, k)
<1>0. \A k \in S : /\ k.stamp \in Nat /\ k.suffix \in Nat
                   /\ k = [prefix |-> k.prefix, stamp |-> k.stamp, suffix |-> k.suffix]
  BY KeyParts, Zenon
<1>1. PICK a \in {k.stamp : k \in S} : \A b \in {k.stamp : k \in S} : a <= b
  <2>1. {k.stamp : k \in S} \subseteq Nat /\ {k.stamp : k \in S} # {}
    BY <1>0, Zenon
  <2> QED
    BY <2>1, Least, Zenon
<1> DEFINE F == {k \in S : k.stamp = a}
<1>2. PICK b \in {k.suffix : k \in F} : \A d \in {k.suffix : k \in F} : b <= d
  <2>1. {k.suffix : k \in F} \subseteq Nat /\ {k.suffix : k \in F} # {}
    BY <1>0, <1>1
  <2> QED
    BY <2>1, Least, Zenon
<1>3. PICK m \in F : m.suffix = b
  BY <1>2, Zenon
<1>4. \A k \in S : k.stamp >= a /\ (k.stamp = a => k.suffix >= b)
  BY <1>0, <1>1, <1>2
<1>5. ASSUME NEW k \in S PROVE k = m \/ Older(m, k)
  <2>1. CASE k.stamp = a /\ k.suffix = b
    BY <1>0, <1>3, <2>1, Zenon
  <2>2. CASE k.stamp = a /\ k.suffix > b
    BY <1>3, <2>2, Zenon DEF Older
  <2>3. CASE k.stamp > a
    BY <1>3, <2>3, Zenon DEF Older
  <2> QED
    BY <1>0, <1>4, <2>1, <2>2, <2>3
<1> QED
  BY <1>3, <1>5, Zenon

\* What Doomed spares of a listing is no more than Keep: all of it but the oldest
\* is newer than the oldest, which is spared too.
LEMMA SparedAreFew ==
    ASSUME NEW S \in SUBSET Key, IsFiniteSet(S), \A k, l \in S : k.prefix = l.prefix
    PROVE  Cardinality(S \ Doomed(S)) <= Keep
<1> DEFINE V == S \ Doomed(S)
<1>1. IsFiniteSet(V) /\ Cardinality(V) \in Nat /\ V \subseteq S
  BY FS_Subset, FS_CardinalityType, Zenon
<1>2. CASE V = {}
  BY <1>2, FS_EmptySet, DumpsAssumption
<1>3. CASE V # {}
  <2>1. PICK m \in V : \A k \in V : k = m \/ Older(m, k)
    <3>1. V \in SUBSET Key /\ \A k, l \in V : k.prefix = l.prefix
      OBVIOUS
    <3> HIDE DEF V
    <3> QED
      BY <1>3, <3>1, Oldest, Zenon
  <2> DEFINE N == {l \in S : Older(m, l)}
  <2>2. IsFiniteSet(N) /\ Cardinality(N) \in Nat
    BY FS_Subset, FS_CardinalityType, Zenon
  <2>3. ~(Cardinality(N) >= Keep)
    BY Zenon DEF Doomed
  <2>4. V \ {m} \subseteq N
    BY <2>1, Zenon
  <2> HIDE DEF V, N
  <2>5. Cardinality(V \ {m}) <= Cardinality(N)
    BY <2>2, <2>4, FS_Subset, Zenon
  <2>6. Cardinality(V \ {m}) = Cardinality(V) - 1
    BY <1>1, FS_RemoveElement, Zenon
  <2> QED
    BY <1>1, <2>2, <2>3, <2>5, <2>6, DumpsAssumption DEF V
<1> QED
  BY <1>2, <1>3, Zenon

LEMMA MetaListed ==
    ASSUME DInv
    PROVE  /\ Meta \in SUBSET Key /\ IsFiniteSet(Meta)
           /\ \A k, l \in Meta : k.prefix = l.prefix
<1>1. Meta \subseteq Keys /\ \A k, l \in Meta : k.prefix = l.prefix
  BY Zenon DEF Meta
<1> QED
  BY <1>1, FS_Subset, Zenon DEF DInv, Bucket

LEMMA MetaDumpStep == ASSUME DInv, MetaDump PROVE DInv'
<1>1. UNCHANGED <<clock, remote, objects, catalogue, capture, load, target>>
  BY Zenon DEF MetaDump, MetaStep
<1>2. meta' = [at |-> "put", rows |-> catalogue]
  BY Zenon DEF MetaDump
<1>3. \A r \in catalogue : Good(r)'
  BY <1>1, SameRemote, Zenon DEF DInv, Bucket
<1>4. MetaKnows'
  BY <1>2, <1>3, Zenon DEF MetaKnows
<1> QED
  BY <1>1, <1>4, SameRemote, Others, Zenon DEF DInv

LEMMA MetaStoreStep == ASSUME DInv, MetaStore PROVE DInv'
<1>1. UNCHANGED <<clock, remote, catalogue, capture, load, target>> /\ meta.at = "put"
  BY Zenon DEF MetaStore, MetaStep
<1>2. meta' = [at |-> "list"] \/ meta' = [at |-> "idle"]
  BY Zenon DEF MetaStore
<1>3. MetaKnows'
  BY <1>2 DEF MetaKnows
<1>4. CASE objects' = objects
  BY <1>1, <1>3, <1>4, SameRemote, Others, Zenon DEF DInv
<1>5. ASSUME NEW key \in stampKey("meta-backups/"), Put(key, meta.rows) PROVE DInv'
  <2> PICK content : content = meta.rows
    OBVIOUS
  <2>1. /\ key \notin Keys /\ key.prefix = "meta-backups/" /\ Keys' = Keys \cup {key}
        /\ objects' = [k \in Keys' |-> objects'[k]]
        /\ objects'[key] = content /\ \A k \in Keys : objects'[k] = objects[k]
        /\ Keys' \subseteq Key /\ IsFiniteSet(Keys')
        /\ \A r : Good(r) => Good(r)'
    BY <1>1, <1>5, PutAdds, Zenon
  <2>2. \A r \in content : Good(r)
    BY <1>1, Zenon DEF DInv, MetaKnows
  <2>3. Meta' = Meta \cup {key} /\ Meta \subseteq Keys
    BY <2>1, Zenon DEF Meta
  <2>4. \A k \in Meta' : \A r \in objects'[k] : Good(r)
    BY <2>1, <2>2, <2>3, Zenon DEF DInv, Bucket
  <2>5. Bucket'
    BY <1>1, <2>1, <2>4, Zenon DEF Bucket, DInv
  <2> QED
    BY <1>1, <1>3, <2>1, <2>5, Others, Zenon DEF DInv
<1> QED
  BY <1>4, <1>5, Zenon DEF MetaStore

LEMMA PruneStep == ASSUME DInv, Prune PROVE DInv'
<1>1. UNCHANGED <<clock, remote, objects, catalogue, capture, load, target>>
  BY Zenon DEF Prune, MetaStep
<1>2. Cardinality(Meta \ Doomed(Meta)) <= Keep
  BY MetaListed, SparedAreFew, Zenon
<1>3. /\ Doomed(Meta) \subseteq Meta
      /\ \A k \in Doomed(Meta) : Cardinality({l \in Meta : Older(k, l)}) >= Keep
  BY Zenon DEF Doomed
<1>4. meta' = [at |-> "delete", doomed |-> Doomed(Meta)] \/ meta' = [at |-> "idle"]
  BY Zenon DEF Prune
<1>5. Meta' = Meta
  BY <1>1, SameRemote, Zenon
<1>6. MetaKnows'
  BY <1>2, <1>3, <1>4, <1>5 DEF MetaKnows
<1> QED
  BY <1>1, <1>6, SameRemote, Others, Zenon DEF DInv

\* Deleting the oldest doomed dump takes no newer one from the others.
LEMMA Deleted ==
    ASSUME DInv, meta.at = "delete", NEW key \in meta.doomed,
           \A k \in meta.doomed : ~Older(k, key),
           objects' = [k \in Keys \ {key} |-> objects[k]], remote' = remote
    PROVE  /\ key \in Meta /\ Keys' = Keys \ {key} /\ Meta' = Meta \ {key}
           /\ \A k \in Keys' : objects'[k] = objects[k]
           /\ IsFiniteSet(Keys')
           /\ \A r : Good(r) => Good(r)'
           /\ \A k \in meta.doomed : Cardinality({l \in Meta' : Older(k, l)}) >= Keep
           /\ Cardinality(Meta' \ (meta.doomed \ {key})) <= Keep
<1>1. key \in Meta
  BY Zenon DEF DInv, MetaKnows
<1>2. Keys' = Keys \ {key} /\ \A k \in Keys' : objects'[k] = objects[k]
  BY Zenon DEF Keys
<1>3. Meta' = Meta \ {key}
  BY <1>2, Zenon DEF Meta
<1>4. IsFiniteSet(Keys')
  BY <1>2, FS_RemoveElement, Zenon DEF DInv, Bucket
<1>5. \A r : Good(r) => Good(r)'
  BY <1>1, <1>2, GoodStays, Zenon DEF Meta, Keys
<1>6. ASSUME NEW k \in meta.doomed PROVE Cardinality({l \in Meta' : Older(k, l)}) >= Keep
  <2>1. {l \in Meta' : Older(k, l)} = {l \in Meta : Older(k, l)}
    BY <1>3, Zenon
  <2> QED
    BY <2>1, Zenon DEF DInv, MetaKnows
<1>7. Meta' \ (meta.doomed \ {key}) = Meta \ meta.doomed
  BY <1>3, Zenon
<1>8. Cardinality(Meta' \ (meta.doomed \ {key})) <= Keep
  BY <1>7, Zenon DEF DInv, MetaKnows
<1> QED
  BY <1>1, <1>2, <1>3, <1>4, <1>5, <1>6, <1>8, Zenon

LEMMA DeleteObjectStep == ASSUME DInv, DeleteObject PROVE DInv'
<1>1. UNCHANGED <<clock, remote, catalogue, capture, load, target>> /\ meta.at = "delete"
  BY Zenon DEF DeleteObject, MetaStep
<1>2. CASE /\ objects' = objects
           /\ meta' = [at |-> "idle"] \/ (meta.doomed = {} /\ meta' = [at |-> "pruned"])
  <2>1. meta.doomed = {} => Cardinality(Meta) <= Keep
    <3>1. meta.doomed = {} => Meta \ meta.doomed = Meta
      OBVIOUS
    <3> QED
      BY <1>1, <3>1, Zenon DEF DInv, MetaKnows
  <2>2. Meta' = Meta
    BY <1>1, <1>2, SameRemote, Zenon
  <2>3. MetaKnows'
    BY <1>2, <2>1, <2>2 DEF MetaKnows
  <2> QED
    BY <1>1, <1>2, <2>3, SameRemote, Others, Zenon DEF DInv
<1>3. ASSUME NEW key \in meta.doomed, \A k \in meta.doomed : ~Older(k, key),
             objects' = [k \in Keys \ {key} |-> objects[k]],
             meta' = [meta EXCEPT !.doomed = @ \ {key}]
      PROVE  DInv'
  <2>1. /\ key \in Meta /\ Keys' = Keys \ {key} /\ Meta' = Meta \ {key}
        /\ \A k \in Keys' : objects'[k] = objects[k]
        /\ IsFiniteSet(Keys')
        /\ \A r : Good(r) => Good(r)'
        /\ \A k \in meta.doomed : Cardinality({l \in Meta' : Older(k, l)}) >= Keep
        /\ Cardinality(Meta' \ (meta.doomed \ {key})) <= Keep
    BY <1>1, <1>3, Deleted, Zenon
  <2>2. meta = [at |-> "delete", doomed |-> meta.doomed] /\ meta.doomed \subseteq Meta
    BY <1>1, Zenon DEF DInv, MetaKnows
  <2>3. meta' = [at |-> "delete", doomed |-> meta.doomed \ {key}]
    <3>1. [[at |-> "delete", doomed |-> meta.doomed] EXCEPT !.doomed = @ \ {key}]
            = [at |-> "delete", doomed |-> meta.doomed \ {key}]
      OBVIOUS
    <3> QED
      BY <1>3, <2>2, <3>1, Zenon
  <2>4. MetaKnows'
    BY <2>1, <2>2, <2>3, Zenon DEF MetaKnows
  <2>5. objects' = [k \in Keys' |-> objects'[k]] /\ Meta \subseteq Keys
    BY <1>3, <2>1, Zenon DEF Meta
  <2>6. Bucket'
    BY <1>1, <2>1, <2>5, Zenon DEF DInv, Bucket
  <2> QED
    BY <1>1, <2>1, <2>4, <2>6, Others, Zenon DEF DInv
<1> QED
  BY <1>2, <1>3, Zenon DEF DeleteObject

LEMMA MetaRunsStep == ASSUME DInv, MetaRuns PROVE DInv'
<1>1. UNCHANGED <<clock, remote, objects, catalogue, capture, load, target>>
  BY Zenon DEF MetaRuns, MetaStep
<1>2. MetaKnows'
  BY Zenon DEF MetaRuns, MetaKnows
<1> QED
  BY <1>1, <1>2, SameRemote, Others, Zenon DEF DInv

\* The rows of a meta dump are good, however old it is.
LEMMA MetaRestoreStep == ASSUME DInv, MetaRestore PROVE DInv'
<1>1. UNCHANGED <<clock, remote, objects, capture, load, target, meta>>
  BY Zenon DEF MetaRestore
<1>2. \A r \in catalogue' : Good(r)
  BY Zenon DEF MetaRestore, DInv, Bucket
<1>3. Bucket'
  BY <1>1, <1>2, SameRemote, Zenon DEF DInv, Bucket
<1> QED
  BY <1>1, <1>3, SameRemote, Others, Zenon DEF DInv

LEMMA StopStep == ASSUME DInv, Stop PROVE DInv'
<1>1. UNCHANGED <<clock, remote, objects, catalogue, target>>
  BY Zenon DEF Stop
<1>2. CapturesKnow'
  <2>1. capture' = [c \in Captures |-> IF capture[c].at \in {"put", "save"}
                                        THEN [at |-> "failed"] ELSE capture[c]]
    BY Zenon DEF Stop
  <2>2. \A c \in Captures : Captured(capture[c])'
    BY <1>1, <2>1, Zenon DEF DInv, CapturesKnow, Captured
  <2> QED
    BY <2>1, <2>2, Zenon DEF CapturesKnow
<1>3. MetaKnows'
  BY Zenon DEF Stop, MetaKnows
<1>4. LoadKnows' /\ FailedLoadIsMarked'
  <2>1. CASE load' = load
    BY <1>1, <2>1, SameRemote, Others, Zenon
  <2>2. CASE load.at \in {"ready", "load", "mark"} /\ load' = [load EXCEPT !.at = "lost"]
    <3>1. load' = [at |-> "lost", row |-> load.row]
      BY <2>2, LoadMoves, Zenon DEF DInv, LoadKnows
    <3> QED
      BY <1>1, <3>1, Zenon DEF DInv, LoadKnows, FailedLoadIsMarked
  <2> QED
    BY <2>1, <2>2, Zenon DEF Stop
<1> QED
  BY <1>1, <1>2, <1>3, <1>4, SameRemote, Others, Zenon DEF DInv

LEMMA DumpsStep == ASSUME DInv, [DumpsNext]_dumps PROVE DInv'
<1>1. ASSUME NEW c \in Captures, Dump(c) \/ Store(c) \/ Save(c) PROVE DInv'
  BY <1>1, DumpStep, StoreStep, SaveStep, Zenon
<1>2. CASE RestoreRequest \/ WaitReady \/ RestoreInto \/ MarkError
  BY <1>2, RestoreRequestStep, WaitReadyStep, RestoreIntoStep, MarkErrorStep,
     Zenon
<1>3. CASE MetaDump \/ MetaStore \/ Prune \/ DeleteObject \/ MetaRuns
  BY <1>3, MetaDumpStep, MetaStoreStep, PruneStep, DeleteObjectStep, MetaRunsStep,
     Zenon
<1>4. CASE MetaRestore \/ Stop
  BY <1>4, MetaRestoreStep, StopStep, Zenon
<1>5. CASE StartUp \/ ClockTicks \/ UNCHANGED dumps
  <2>1. UNCHANGED <<remote, objects, catalogue, capture, load, target, meta>>
    BY <1>5, Zenon DEF StartUp, ClockTicks, dumps
  <2>2. clock' \in 0 .. MaxClock
    BY <1>5, DumpsAssumption DEF StartUp, ClockTicks, dumps, DInv
  <2> QED
    BY <2>1, <2>2, SameRemote, Others, Zenon DEF DInv
<1> QED
  BY <1>1, <1>2, <1>3, <1>4, <1>5, Zenon DEF DumpsNext

LEMMA DumpsStart == DumpsInit => DInv
<1> SUFFICES ASSUME DumpsInit PROVE DInv
  OBVIOUS
<1>1. Keys = {} /\ Meta = {}
  BY Zenon DEF DumpsInit, Keys, Meta
<1>2. Bucket
  BY <1>1, FS_EmptySet, Zenon DEF DumpsInit, Bucket
<1>3. CapturesKnow /\ MetaKnows /\ LoadKnows /\ FailedLoadIsMarked
  BY Zenon
  DEF DumpsInit, CapturesKnow, Captured, MetaKnows, LoadKnows, FailedLoadIsMarked
<1> QED
  BY <1>2, <1>3, DumpsAssumption DEF DumpsInit, DInv
-----------------------------------------------------------------------------
\* The rows lead to their dumps through captures, failures, crashes, pruning and
\* meta-restores in any order, and a finished load is the dump or is marked.
THEOREM DumpsSafe == DumpsSpec => []RestoreHoldsTheDump
<1>1. DInv => RestoreHoldsTheDump
  BY Zenon DEF DInv, Bucket, Good, RestoreHoldsTheDump, RowsFetchTheirDump
<1> QED
  BY <1>1, DumpsStart, DumpsStep, PTL DEF DumpsSpec

\* Every key and every row has the form the code gives it; a server newer than
\* pg_dump never gets a row.
THEOREM DumpsTyped == DumpsSpec => []DumpsTypeOK
<1>1. ASSUME DInv PROVE DumpsTypeOK
  <2>1. Keys \subseteq [prefix : {"remote-backups/", "meta-backups/"},
                        stamp : 0 .. MaxClock, suffix : Suffixes \cup {0}]
    BY <1>1, Zenon DEF DInv, Bucket, Key
  <2>2. remote > DumpMajor => catalogue = {}
    BY <1>1, DumpsAssumption DEF DInv, Bucket, Good
  <2> QED
    BY <1>1, <2>1, <2>2, Zenon DEF DInv, Bucket, Good, LoadKnows, DumpsTypeOK
<1> QED
  BY <1>1, DumpsStart, DumpsStep, PTL DEF DumpsSpec

\* Prune never takes one of the newest Keep meta dumps nor any remote dump, in the
\* face of failed deletes and restarts; one that ends leaves no more than Keep.
THEOREM PruneExact == DumpsSpec => PruneIsExact
<1> DEFINE Removed(k) ==
      /\ k.prefix = "meta-backups/"
      /\ Cardinality({l \in DOMAIN objects' : l.prefix = k.prefix /\ Older(k, l)}) >= Keep
<1>1. ASSUME DInv, DumpsNext, NEW k \in Keys \ DOMAIN objects' PROVE Removed(k)
  <2>1. \A key, content : Put(key, content) => Keys \subseteq DOMAIN objects'
    BY Zenon DEF Put
  <2>2. DeleteObject
    BY <1>1, <2>1, Zenon
    DEF DumpsNext, Dump, Store, Save, RestoreRequest, WaitReady, RestoreInto, MarkError,
       MetaDump, MetaStore, Prune, MetaRuns, MetaRestore, Stop, StartUp, ClockTicks, LoadStep,
       Keys
  <2>3. PICK key \in meta.doomed : /\ \A d \in meta.doomed : ~Older(d, key)
                                   /\ objects' = [d \in Keys \ {key} |-> objects[d]]
    BY <1>1, <2>2, Zenon DEF DeleteObject, Keys
  <2>4. remote' = remote /\ meta.at = "delete"
    BY <2>2, Zenon DEF DeleteObject, MetaStep
  <2>5. key \in Meta /\ Cardinality({l \in Meta' : Older(key, l)}) >= Keep
    BY <1>1, <2>3, <2>4, Deleted, Zenon
  <2>6. k = key
    BY <1>1, <2>3, Zenon
  <2>7. {l \in Meta' : Older(key, l)} = {l \in DOMAIN objects' : l.prefix = key.prefix /\ Older(key, l)}
    BY <2>5, Zenon DEF Meta, Keys
  <2> QED
    BY <2>5, <2>6, <2>7, Zenon DEF Meta
<1>2. ASSUME DInv', meta'.at = "pruned" PROVE Cardinality(Meta') <= Keep
  BY <1>2, Zenon DEF DInv, MetaKnows
<1>3. DInv /\ DInv' /\ [DumpsNext]_dumps =>
        [/\ \A k \in Keys \ DOMAIN objects' : Removed(k)
         /\ meta'.at = "pruned" => Cardinality(Meta') <= Keep]_dumps
  BY <1>1, <1>2, Zenon
<1> QED
  BY <1>3, DumpsStart, DumpsStep, PTL DEF DumpsSpec, PruneIsExact

-----------------------------------------------------------------------------
Sources == [data : Nat, container : Nat, encrypted : BOOLEAN]
Volume == [exists : BOOLEAN, data : Nat, promoted : BOOLEAN]

CopyTypes ==
    /\ source \in Sources /\ source.data >= 1 /\ files \in Volume /\ disk \in Volume
    /\ clone \in [status : {"absent", "provisioning", "running", "error"}, encrypted : BOOLEAN]
    /\ server \in [exists : BOOLEAN, password : {"none", "source", "clone"},
                   stanza : {"none", "clone"}, cipher : BOOLEAN]
    /\ task \in [at : {"start", "backup", "preflight", "volume", "restore", "container", "password",
                       "stanza", "running", "undo", "undata", "unrepo", "mark", "done",
                       "unrecorded"},
                 source : Sources, repo : BOOLEAN, kept : SUBSET {"container", "data", "repo"}]
    /\ cli \in [at : {"start", "restore", "complete", "failed"}, target : Nat]
    /\ backups \subseteq 1 .. source.data
    /\ files.data <= source.data /\ disk.data <= source.data /\ cli.target <= source.data

Nothing == files = Absent /\ server = NoServer /\ ~task.repo

\* What the cleanup leaves, as far as it has come.
LeftServer == server.exists => "container" \in task.kept
LeftFiles == files.exists => server.exists \/ "data" \in task.kept
LeftRepo == task.repo => server.exists \/ "repo" \in task.kept

\* Copied: the clone's files hold what the source held when it was asked for.
Copied == files.exists /\ files.data >= task.source.data

Serves(password, stanza, cipher) ==
    /\ Copied /\ task.repo
    /\ server = [exists |-> TRUE, password |-> password, stanza |-> stanza, cipher |-> cipher]
    /\ password = "clone" => files.promoted

\* What is so before each step of the clone task.
CloneKnows ==
    /\ task.source.data <= source.data /\ task.source.encrypted = source.encrypted
    /\ server.exists => files.exists /\ task.repo
    /\ task.at \in {"preflight", "volume", "restore"} => \E b \in backups : b >= task.source.data
    /\ task.at \in {"volume", "restore", "container", "password", "stanza"} =>
         clone.encrypted = source.encrypted
    /\ task.at \in {"start", "backup", "preflight", "volume"} => Nothing
    /\ task.at \in {"undata", "unrepo", "mark"} => LeftServer
    /\ task.at \in {"unrepo", "mark"} => LeftFiles
    /\ task.at = "mark" => LeftRepo
    /\ task.at = "restore" => server = NoServer /\ ~task.repo
    /\ task.at = "container" => Copied /\ server = NoServer /\ ~task.repo
    /\ task.at = "password" => Serves("source", "none", FALSE)
    /\ task.at = "stanza" => Serves("clone", "none", FALSE)
    /\ task.at = "running" => Serves("clone", "clone", source.encrypted)
    /\ clone.status = "running" => task.at = "done" /\ Serves("clone", "clone", source.encrypted)
    /\ clone.status = "error" => task.at = "done" /\ LeftServer /\ LeftFiles /\ LeftRepo

CInv == CopyTypes /\ CloneKnows /\ CliSaysWhatItDid
-----------------------------------------------------------------------------
\* Numbers with an upper bound have a greatest one, and it is what Max chooses.
LEMMA Greatest ==
    ASSUME NEW n \in Nat, NEW S \in SUBSET (0 .. n), S # {}
    PROVE  Max(S) \in S /\ \A y \in S : Max(S) >= y
<1> DEFINE T == {n - s : s \in S}
<1>1. T \in SUBSET Nat /\ T # {}
  <2>1. \A s \in S : n - s \in Nat
    OBVIOUS
  <2> QED
    BY <2>1, Zenon
<1>2. PICK x \in T : \A y \in T : x <= y
  <2> HIDE DEF T
  <2> QED
    BY <1>1, Least, Zenon
<1>3. PICK s \in S : x = n - s
  OBVIOUS
<1>4. \A y \in S : s >= y
  BY <1>2, <1>3, SMTT(30)
<1> QED
  BY <1>4, Zenon DEF Max

\* A step of the task moves it on and leaves the rest of what it knows.
LEMMA StepMoves ==
    ASSUME CopyTypes, NEW from, NEW to, Step(from, to)
    PROVE  /\ task.at = from /\ UNCHANGED <<source, cli, disk>>
           /\ task' = [at |-> to, source |-> task.source, repo |-> task.repo, kept |-> task.kept]
BY Zenon DEF CopyTypes, Step

LEMMA NothingLeft ==
    ASSUME CopyTypes, Nothing, NEW to,
           task' = [at |-> to, source |-> task.source, repo |-> task.repo, kept |-> task.kept],
           UNCHANGED <<files, server>>
    PROVE  LeftServer' /\ LeftFiles' /\ LeftRepo'
<1>1. ~server.exists /\ ~files.exists /\ ~task'.repo
  BY DEF Nothing, Absent, NoServer
<1> QED
  BY <1>1, Zenon DEF LeftServer, LeftFiles, LeftRepo

LEMMA LatestIsRecent ==
    ASSUME CopyTypes, NEW data \in Latest
    PROVE  /\ data \in Nat /\ data <= source.data
           /\ \A b \in backups : b <= data
<1>1. backups # {} /\ data \in Max(backups) .. source.data
  BY Zenon DEF Latest
<1>2. Max(backups) \in backups /\ \A y \in backups : Max(backups) >= y
  <2>1. source.data \in Nat /\ backups \subseteq 0 .. source.data
    BY DEF CopyTypes, Sources
  <2> QED
    BY <1>1, <2>1, Greatest, Zenon
<1>3. source.data \in Nat /\ \A b \in backups : b \in Nat
  BY DEF CopyTypes, Sources
<1> QED
  BY <1>1, <1>2, <1>3

\* Whoever does not move leaves the others' knowledge alone.
LEMMA TaskFrame ==
    ASSUME CInv, UNCHANGED <<source, cli, disk>>, backups \subseteq backups'
    PROVE  CliSaysWhatItDid'
BY Zenon DEF CInv, CliSaysWhatItDid

LEMMA SourceStep == ASSUME CInv, SourceWrites \/ SourceReplaced \/ CloneRequest PROVE CInv'
<1>1. CASE SourceWrites \/ SourceReplaced
  <2>1. /\ UNCHANGED <<backups, clone, files, server, task, cli, disk>>
        /\ source' \in Sources /\ source'.data >= source.data
        /\ source'.encrypted = source.encrypted
    BY <1>1 DEF SourceWrites, SourceReplaced, Sources, CInv, CopyTypes
  <2>2. CopyTypes'
    BY <2>1 DEF CInv, CopyTypes, Sources, Volume
  <2>3. CloneKnows'
    BY <2>1 DEF CInv, CopyTypes, CloneKnows, Sources, Nothing, Copied, Serves,
           LeftServer, LeftFiles, LeftRepo
  <2>4. CliSaysWhatItDid'
    BY <2>1, Zenon DEF CInv, CliSaysWhatItDid
  <2> QED
    BY <2>2, <2>3, <2>4, Zenon DEF CInv
<1>2. CASE CloneRequest
  <2>1. UNCHANGED <<source, backups, files, server, cli, disk>> /\ task.at = "start"
    BY <1>2, Zenon DEF CloneRequest
  <2>2. task' = [at |-> "backup", source |-> source, repo |-> task.repo, kept |-> task.kept]
    BY <1>2, Zenon DEF CloneRequest, CInv, CopyTypes
  <2>3. clone' = [status |-> "provisioning", encrypted |-> clone.encrypted]
    BY <1>2, Zenon DEF CloneRequest, CInv, CopyTypes
  <2>4. CopyTypes'
    BY <2>1, <2>2, <2>3 DEF CInv, CopyTypes
  <2>5. CloneKnows'
    BY <2>1, <2>2, <2>3 DEF CInv, CopyTypes, CloneKnows, Sources, Nothing
  <2> QED
    BY <2>1, <2>4, <2>5, TaskFrame, Zenon DEF CInv
<1> QED
  BY <1>1, <1>2, Zenon

LEMMA TakeBackupStep == ASSUME CInv, TakeBackup PROVE CInv'
<1>1. UNCHANGED <<clone, files, server>> /\ source.data \in Nat
  BY Zenon DEF TakeBackup, CInv, CopyTypes, Sources
<1>2. CASE Step("backup", "preflight") /\ backups' = backups \cup {source.data}
  <2>1. /\ task.at = "backup" /\ UNCHANGED <<source, cli, disk>>
        /\ task' = [at |-> "preflight", source |-> task.source, repo |-> task.repo, kept |-> task.kept]
    BY <1>2, StepMoves, Zenon DEF CInv
  <2>2. CopyTypes'
    <3>1. source.data \in 1 .. source.data /\ backups \subseteq 1 .. source.data
      BY <1>1 DEF CInv, CopyTypes
    <3>2. backups' \subseteq 1 .. source.data
      BY <1>2, <3>1, Zenon
    <3> QED
      BY <1>1, <2>1, <3>2 DEF CInv, CopyTypes
  <2>3. CloneKnows'
    BY <1>1, <1>2, <2>1, Zenon DEF CInv, CopyTypes, CloneKnows, Nothing
  <2> QED
    BY <1>2, <2>1, <2>2, <2>3, TaskFrame, Zenon DEF CInv
<1>3. CASE Step("backup", "mark") /\ UNCHANGED backups
  <2>1. /\ task.at = "backup" /\ UNCHANGED <<source, cli, disk>>
        /\ task' = [at |-> "mark", source |-> task.source, repo |-> task.repo, kept |-> task.kept]
    BY <1>3, StepMoves, Zenon DEF CInv
  <2>2. CopyTypes'
    BY <1>1, <1>3, <2>1 DEF CInv, CopyTypes
  <2>3. CloneKnows'
    BY <1>1, <1>3, <2>1, NothingLeft, Zenon DEF CInv, CopyTypes, CloneKnows, Nothing
  <2> QED
    BY <1>3, <2>1, <2>2, <2>3, TaskFrame, Zenon DEF CInv
<1> QED
  BY <1>2, <1>3, Zenon DEF TakeBackup

LEMMA PreflightStep == ASSUME CInv, Preflight PROVE CInv'
<1>1. UNCHANGED <<backups, files, server>>
  BY Zenon DEF Preflight
<1>2. PICK to \in {"volume", "mark"} : Step("preflight", to)
  BY Zenon DEF Preflight
<1>3. /\ task.at = "preflight" /\ UNCHANGED <<source, cli, disk>>
      /\ task' = [at |-> to, source |-> task.source, repo |-> task.repo, kept |-> task.kept]
  BY <1>2, StepMoves, Zenon DEF CInv
<1>4. \/ clone' = [status |-> clone.status, encrypted |-> task.source.encrypted]
      \/ to = "mark" /\ clone' = clone
  BY <1>3, Zenon DEF Preflight, CInv, CopyTypes
<1>5. CopyTypes'
  BY <1>1, <1>3, <1>4 DEF CInv, CopyTypes, Sources
<1>6. CloneKnows'
  <2>1. clone'.status = clone.status /\ (to = "volume" => clone'.encrypted = source.encrypted)
    BY <1>3, <1>4 DEF CInv, CloneKnows
  <2> QED
    BY <1>1, <1>3, <2>1, NothingLeft, Zenon DEF CInv, CopyTypes, CloneKnows, Nothing
<1> QED
  BY <1>1, <1>3, <1>5, <1>6, TaskFrame, Zenon DEF CInv

LEMMA CloneVolumeStep == ASSUME CInv, CloneVolume PROVE CInv'
<1>1. UNCHANGED <<backups, clone, server>>
  BY Zenon DEF CloneVolume
<1>2. PICK to \in {"restore", "undo"} : Step("volume", to)
  BY Zenon DEF CloneVolume
<1>3. /\ task.at = "volume" /\ UNCHANGED <<source, cli, disk>>
      /\ task' = [at |-> to, source |-> task.source, repo |-> task.repo, kept |-> task.kept]
  BY <1>2, StepMoves, Zenon DEF CInv
<1>4. files' = files \/ files' = [exists |-> TRUE, data |-> 0, promoted |-> FALSE]
  BY Zenon DEF CloneVolume, Absent
<1>5. CopyTypes'
  <2>1. CASE files' = files
    BY <1>1, <1>3, <2>1 DEF CInv, CopyTypes
  <2>2. CASE files' = [exists |-> TRUE, data |-> 0, promoted |-> FALSE]
    <3>1. files' \in Volume
      BY <2>2, Zenon DEF Volume
    <3>2. files'.data <= source.data
      BY <2>2 DEF CInv, CopyTypes, Sources
    <3> QED
      BY <1>1, <1>3, <3>1, <3>2 DEF CInv, CopyTypes
  <2> QED
    BY <1>4, <2>1, <2>2, Zenon
<1>6. CloneKnows'
  BY <1>1, <1>3, <1>4, Zenon DEF CInv, CopyTypes, CloneKnows, Nothing, NoServer
<1> QED
  BY <1>1, <1>3, <1>5, <1>6, TaskFrame, Zenon DEF CInv

\* What a restore holds is no older than the backup made for it.
LEMMA RestoreCloneStep == ASSUME CInv, RestoreClone PROVE CInv'
<1>1. UNCHANGED <<backups, clone, server>>
  BY Zenon DEF RestoreClone
<1>2. CASE Step("restore", "undo") /\ UNCHANGED files
  <2>1. /\ task.at = "restore" /\ UNCHANGED <<source, cli, disk>>
        /\ task' = [at |-> "undo", source |-> task.source, repo |-> task.repo, kept |-> task.kept]
    BY <1>2, StepMoves, Zenon DEF CInv
  <2>2. CopyTypes'
    BY <1>1, <1>2, <2>1 DEF CInv, CopyTypes
  <2>3. CloneKnows'
    BY <1>1, <1>2, <2>1, Zenon DEF CInv, CopyTypes, CloneKnows, NoServer
  <2> QED
    BY <1>1, <2>1, <2>2, <2>3, TaskFrame, Zenon DEF CInv
<1>3. ASSUME NEW data \in Latest, NEW b \in BOOLEAN, Step("restore", "container"),
             files' = [exists |-> TRUE, data |-> data, promoted |-> b]
      PROVE  CInv'
  <2>1. /\ task.at = "restore" /\ UNCHANGED <<source, cli, disk>>
        /\ task' = [at |-> "container", source |-> task.source, repo |-> task.repo, kept |-> task.kept]
    BY <1>3, StepMoves, Zenon DEF CInv
  <2>2. /\ data \in Nat /\ data <= source.data
        /\ \A c \in backups : c <= data
    BY LatestIsRecent, Zenon DEF CInv
  <2>3. data >= task.source.data
    <3>1. PICK c \in backups : c >= task.source.data
      BY <2>1, Zenon DEF CInv, CloneKnows
    <3>2. c \in Nat /\ task.source.data \in Nat
      BY DEF CInv, CopyTypes, Sources
    <3> QED
      BY <2>2, <3>1, <3>2
  <2>4. CopyTypes'
    BY <1>1, <1>3, <2>1, <2>2 DEF CInv, CopyTypes, Volume
  <2>5. CloneKnows'
    BY <1>1, <1>3, <2>1, <2>3, Zenon
    DEF CInv, CopyTypes, CloneKnows, Copied, NoServer
  <2> QED
    BY <1>1, <2>1, <2>4, <2>5, TaskFrame, Zenon DEF CInv
<1> QED
  BY <1>2, <1>3, Zenon DEF RestoreClone

LEMMA CloneContainerStep == ASSUME CInv, CloneContainer PROVE CInv'
<1> DEFINE live == [exists |-> TRUE, password |-> "source", stanza |-> "none", cipher |-> FALSE]
<1>1. UNCHANGED <<source, backups, clone, files, cli, disk>> /\ task.at = "container"
  BY Zenon DEF CloneContainer
<1>2. \/ task' = [at |-> "password", source |-> task.source, repo |-> TRUE, kept |-> task.kept] /\ server' = live
      \/ /\ task' = [at |-> "undo", source |-> task.source, repo |-> TRUE, kept |-> task.kept]
         /\ server' = server \/ server' = live
      \/ task' = [at |-> "undo", source |-> task.source, repo |-> task.repo, kept |-> task.kept] /\ server' = server
  <2>1. ASSUME server' = [NoServer EXCEPT !.exists = TRUE, !.password = "source"]
        PROVE  server' = live
    BY <2>1, Zenon DEF NoServer
  <2>2. ASSUME NEW at, task' = [task EXCEPT !.at = at, !.repo = TRUE]
        PROVE  task' = [at |-> at, source |-> task.source, repo |-> TRUE, kept |-> task.kept]
    BY <2>2, Zenon DEF CInv, CopyTypes
  <2>3. ASSUME task' = [task EXCEPT !.at = "undo"]
        PROVE  task' = [at |-> "undo", source |-> task.source, repo |-> task.repo, kept |-> task.kept]
    BY <2>3, Zenon DEF CInv, CopyTypes
  <2> HIDE DEF live
  <2> QED
    BY <2>1, <2>2, <2>3, Zenon DEF CloneContainer
<1>3. CopyTypes'
  <2>1. server' = server \/ server' = live
    BY <1>2, Zenon
  <2>2. PICK at \in {"password", "undo"}, b \in BOOLEAN :
           task' = [at |-> at, source |-> task.source, repo |-> b, kept |-> task.kept]
    BY <1>2, Zenon DEF CInv, CopyTypes
  <2>3. server' \in [exists : BOOLEAN, password : {"none", "source", "clone"},
                    stanza : {"none", "clone"}, cipher : BOOLEAN]
    <3>1. CASE server' = server
      BY <3>1, Zenon DEF CInv, CopyTypes
    <3>2. CASE server' = live
      BY <3>2, Zenon
    <3> QED
      BY <2>1, <3>1, <3>2, Zenon
  <2> QED
    BY <1>1, <2>2, <2>3, Zenon DEF CInv, CopyTypes
<1>4. CloneKnows'
  BY <1>1, <1>2 DEF CInv, CopyTypes, CloneKnows, Copied, Serves, NoServer
<1> QED
  BY <1>1, <1>3, <1>4, TaskFrame, Zenon DEF CInv

LEMMA ResetPasswordStep == ASSUME CInv, ResetPassword PROVE CInv'
<1>1. UNCHANGED <<backups, clone>>
  BY Zenon DEF ResetPassword
<1>2. PICK to \in {"stanza", "undo"} : Step("password", to) /\ (to = "undo" => UNCHANGED <<files, server>>)
        /\ (to = "stanza" => files' = [files EXCEPT !.promoted = TRUE]
                             /\ server' = [server EXCEPT !.password = "clone"])
  BY Zenon DEF ResetPassword
<1>3. /\ task.at = "password" /\ UNCHANGED <<source, cli, disk>>
      /\ task' = [at |-> to, source |-> task.source, repo |-> task.repo, kept |-> task.kept]
  BY <1>2, StepMoves, Zenon DEF CInv
<1>4. CASE to = "undo"
  <2>1. CopyTypes'
    BY <1>1, <1>2, <1>3, <1>4, Zenon DEF CInv, CopyTypes
  <2>2. CloneKnows'
    BY <1>1, <1>2, <1>3, <1>4, Zenon DEF CInv, CopyTypes, CloneKnows
  <2> QED
    BY <1>1, <1>3, <2>1, <2>2, TaskFrame, Zenon DEF CInv
<1>5. CASE to = "stanza"
  <2>1. server = [exists |-> TRUE, password |-> "source", stanza |-> "none", cipher |-> FALSE]
    BY <1>3, Zenon DEF CInv, CloneKnows, Serves
  <2>2. server' = [exists |-> TRUE, password |-> "clone", stanza |-> "none", cipher |-> FALSE]
    BY <1>2, <1>5, <2>1, Zenon
  <2>3. files' = [exists |-> files.exists, data |-> files.data, promoted |-> TRUE]
    BY <1>2, <1>5, Zenon DEF CInv, CopyTypes, Volume
  <2>4. CopyTypes'
    BY <1>1, <1>3, <1>5, <2>2, <2>3 DEF CInv, CopyTypes, Volume
  <2>5. CloneKnows'
    BY <1>1, <1>3, <1>5, <2>2, <2>3, Zenon
    DEF CInv, CopyTypes, CloneKnows, Copied, Serves
  <2> QED
    BY <1>1, <1>3, <2>4, <2>5, TaskFrame, Zenon DEF CInv
<1> QED
  BY <1>4, <1>5, Zenon

LEMMA CloneStanzaStep == ASSUME CInv, CloneStanza PROVE CInv'
<1>1. UNCHANGED <<backups, clone, files>>
  BY Zenon DEF CloneStanza
<1>2. PICK to \in {"running", "undo"} : Step("stanza", to) /\ (to = "undo" => UNCHANGED server)
        /\ (to = "running" =>
              server' = [server EXCEPT !.stanza = "clone", !.cipher = clone.encrypted])
  BY Zenon DEF CloneStanza
<1>3. /\ task.at = "stanza" /\ UNCHANGED <<source, cli, disk>>
      /\ task' = [at |-> to, source |-> task.source, repo |-> task.repo, kept |-> task.kept]
  BY <1>2, StepMoves, Zenon DEF CInv
<1>4. CASE to = "undo"
  <2>1. CopyTypes'
    BY <1>1, <1>2, <1>3, <1>4 DEF CInv, CopyTypes
  <2>2. CloneKnows'
    BY <1>1, <1>2, <1>3, <1>4, Zenon DEF CInv, CopyTypes, CloneKnows
  <2> QED
    BY <1>1, <1>3, <2>1, <2>2, TaskFrame, Zenon DEF CInv
<1>5. CASE to = "running"
  <2>1. server = [exists |-> TRUE, password |-> "clone", stanza |-> "none", cipher |-> FALSE]
    BY <1>3, Zenon DEF CInv, CloneKnows, Serves
  <2>2. server' = [exists |-> TRUE, password |-> "clone", stanza |-> "clone", cipher |-> source.encrypted]
    BY <1>2, <1>3, <1>5, <2>1, Zenon DEF CInv, CloneKnows
  <2>3. CopyTypes'
    BY <1>1, <1>3, <1>5, <2>2 DEF CInv, CopyTypes, Sources
  <2>4. CloneKnows'
    BY <1>1, <1>3, <1>5, <2>2, Zenon
    DEF CInv, CopyTypes, CloneKnows, Copied, Serves
  <2> QED
    BY <1>1, <1>3, <2>3, <2>4, TaskFrame, Zenon DEF CInv
<1> QED
  BY <1>4, <1>5, Zenon

\* The deferred cleanup, call by call: each leaves its thing only if it failed or a
\* container that could not be removed holds it.
LEMMA RemoveCloneStep == ASSUME CInv, RemoveClone PROVE CInv'
<1>1. UNCHANGED <<source, backups, clone, files, cli, disk>> /\ task.at = "undo"
  BY Zenon DEF RemoveClone, Step
<1>2. \/ /\ task' = [at |-> "undata", source |-> task.source, repo |-> task.repo, kept |-> task.kept]
         /\ server' = NoServer
      \/ /\ task' = [at |-> "undata", source |-> task.source, repo |-> task.repo,
                     kept |-> task.kept \cup {"container"}]
         /\ server' = server
  BY DEF RemoveClone, Step, CInv, CopyTypes
<1>3. /\ task'.at = "undata" /\ task'.source = task.source /\ task'.repo = task.repo
      /\ server' = NoServer \/ (server' = server /\ "container" \in task'.kept)
  BY <1>2
<1>4. CopyTypes'
  <2>1. server' \in [exists : BOOLEAN, password : {"none", "source", "clone"},
                    stanza : {"none", "clone"}, cipher : BOOLEAN]
    <3>1. NoServer \in [exists : BOOLEAN, password : {"none", "source", "clone"},
                       stanza : {"none", "clone"}, cipher : BOOLEAN]
      BY Zenon DEF NoServer
    <3> QED
      BY <1>3, <3>1, Zenon DEF CInv, CopyTypes
  <2>2. task' \in [at : {"undata"}, source : Sources, repo : BOOLEAN,
                  kept : SUBSET {"container", "data", "repo"}]
    BY <1>2 DEF CInv, CopyTypes
  <2> QED
    BY <1>1, <2>1, <2>2 DEF CInv, CopyTypes
<1>5. LeftServer' /\ (server'.exists => files.exists /\ task.repo)
  <2>1. NoServer.exists = FALSE
    BY Zenon DEF NoServer
  <2>2. server.exists => files.exists /\ task.repo
    BY Zenon DEF CInv, CloneKnows
  <2> QED
    BY <1>3, <2>1, <2>2, Zenon DEF LeftServer
<1>6. CloneKnows'
  BY <1>1, <1>3, <1>5, Zenon DEF CInv, CloneKnows
<1> QED
  BY <1>1, <1>4, <1>6, TaskFrame, Zenon DEF CInv

LEMMA RemoveDataStep == ASSUME CInv, RemoveData PROVE CInv'
<1>1. UNCHANGED <<source, backups, clone, server, cli, disk>> /\ task.at = "undata"
  BY Zenon DEF RemoveData, Step
<1>2. \/ /\ task' = [at |-> "unrepo", source |-> task.source, repo |-> task.repo, kept |-> task.kept]
         /\ files' = IF server.exists THEN files ELSE Absent
      \/ /\ task' = [at |-> "unrepo", source |-> task.source, repo |-> task.repo,
                     kept |-> task.kept \cup {"data"}]
         /\ files' = files
  BY DEF RemoveData, Step, CInv, CopyTypes
<1>3. /\ task'.at = "unrepo" /\ task'.source = task.source /\ task'.repo = task.repo
      /\ task.kept \subseteq task'.kept
      /\ \/ files' = IF server.exists THEN files ELSE Absent
         \/ files' = files /\ "data" \in task'.kept
  BY <1>2
<1>4. CopyTypes'
  <2>1. files' \in Volume /\ files'.data <= source.data
    <3>1. Absent \in Volume /\ Absent.data = 0
      BY Zenon DEF Absent, Volume
    <3>2. source.data \in Nat /\ files \in Volume /\ files.data <= source.data
      BY DEF CInv, CopyTypes, Sources
    <3>3. files' = files \/ files' = Absent
      BY <1>3, Zenon
    <3> QED
      BY <3>1, <3>2, <3>3
  <2>2. task' \in [at : {"unrepo"}, source : Sources, repo : BOOLEAN,
                  kept : SUBSET {"container", "data", "repo"}]
    BY <1>2 DEF CInv, CopyTypes
  <2> QED
    BY <1>1, <2>1, <2>2 DEF CInv, CopyTypes
<1>5. LeftServer' /\ LeftFiles' /\ (server.exists => files'.exists /\ task.repo)
  <2>1. Absent.exists = FALSE
    BY Zenon DEF Absent
  <2>2. (server.exists => files.exists /\ task.repo) /\ LeftServer
    BY <1>1, Zenon DEF CInv, CloneKnows
  <2>3. LeftServer'
    BY <1>1, <1>3, <2>2, Zenon DEF LeftServer
  <2>4. CASE server.exists /\ files' = files
    BY <1>1, <2>2, <2>3, <2>4, Zenon DEF LeftFiles
  <2>5. CASE ~server.exists /\ files' = Absent
    BY <1>1, <2>1, <2>3, <2>5, Zenon DEF LeftFiles
  <2>6. CASE files' = files /\ "data" \in task'.kept
    BY <2>2, <2>3, <2>6, Zenon DEF LeftFiles
  <2> QED
    BY <1>3, <2>4, <2>5, <2>6, Zenon
<1>6. CloneKnows'
  BY <1>1, <1>3, <1>5, Zenon DEF CInv, CloneKnows
<1> QED
  BY <1>1, <1>4, <1>6, TaskFrame, Zenon DEF CInv

LEMMA RemoveRepoStep == ASSUME CInv, RemoveRepo PROVE CInv'
<1>1. UNCHANGED <<source, backups, clone, files, server, cli, disk>> /\ task.at = "unrepo"
  BY Zenon DEF RemoveRepo
<1>2. \/ task' = [at |-> "mark", source |-> task.source, repo |-> task.repo /\ server.exists,
                  kept |-> task.kept]
      \/ task' = [at |-> "mark", source |-> task.source, repo |-> task.repo,
                  kept |-> task.kept \cup {"repo"}]
  BY DEF RemoveRepo, CInv, CopyTypes
<1>3. /\ task'.at = "mark" /\ task'.source = task.source /\ task.kept \subseteq task'.kept
      /\ \/ task'.repo <=> task.repo /\ server.exists
         \/ (task'.repo <=> task.repo) /\ "repo" \in task'.kept
  <2>1. CASE task' = [at |-> "mark", source |-> task.source, repo |-> task.repo /\ server.exists,
                      kept |-> task.kept]
    <3>1. /\ task'.at = "mark" /\ task'.source = task.source /\ task'.kept = task.kept
          /\ task'.repo = (task.repo /\ server.exists)
      BY <2>1, Zenon
    <3> QED
      BY <3>1, Zenon
  <2>2. CASE task' = [at |-> "mark", source |-> task.source, repo |-> task.repo,
                      kept |-> task.kept \cup {"repo"}]
    <3>1. /\ task'.at = "mark" /\ task'.source = task.source /\ task'.repo = task.repo
          /\ task'.kept = task.kept \cup {"repo"}
      BY <2>2, Zenon
    <3> QED
      BY <3>1, Zenon
  <2> QED
    BY <1>2, <2>1, <2>2, Zenon
<1>4. CopyTypes'
  <2>1. task' \in [at : {"mark"}, source : Sources, repo : BOOLEAN,
                  kept : SUBSET {"container", "data", "repo"}]
    BY <1>2 DEF CInv, CopyTypes
  <2> QED
    BY <1>1, <2>1 DEF CInv, CopyTypes
<1>5. /\ LeftServer' /\ LeftFiles' /\ LeftRepo'
      /\ server.exists => files.exists /\ task'.repo
  BY <1>1, <1>3, Zenon DEF LeftServer, LeftFiles, LeftRepo, CInv, CloneKnows
<1>6. CloneKnows'
  BY <1>1, <1>3, <1>5, Zenon DEF CInv, CloneKnows
<1> QED
  BY <1>1, <1>4, <1>6, TaskFrame, Zenon DEF CInv

LEMMA OutcomeStep == ASSUME CInv, Outcome PROVE CInv'
<1>1. UNCHANGED <<backups, files, server>>
  BY Zenon DEF Outcome
<1>2. ASSUME NEW from, NEW to, Step(from, to)
      PROVE  /\ task.at = from /\ UNCHANGED <<source, cli, disk>>
             /\ task' = [at |-> to, source |-> task.source, repo |-> task.repo, kept |-> task.kept]
  BY <1>2, StepMoves, Zenon DEF CInv
<1>3. ASSUME NEW status, clone' = [clone EXCEPT !.status = status]
      PROVE  clone' = [status |-> status, encrypted |-> clone.encrypted]
  BY <1>3, Zenon DEF CInv, CopyTypes
<1>4. CASE Step("running", "done") /\ clone' = [clone EXCEPT !.status = "running"]
  <2>1. /\ task.at = "running" /\ UNCHANGED <<source, cli, disk>>
        /\ task' = [at |-> "done", source |-> task.source, repo |-> task.repo, kept |-> task.kept]
    BY <1>2, <1>4, Zenon
  <2>2. CopyTypes'
    BY <1>1, <1>3, <1>4, <2>1 DEF CInv, CopyTypes
  <2>3. CloneKnows'
    BY <1>1, <1>3, <1>4, <2>1, Zenon
    DEF CInv, CopyTypes, CloneKnows, Serves, Copied
  <2> QED
    BY <1>1, <2>1, <2>2, <2>3, TaskFrame, Zenon DEF CInv
<1>5. CASE Step("mark", "done") /\ clone' = [clone EXCEPT !.status = "error"]
  <2>1. /\ task.at = "mark" /\ UNCHANGED <<source, cli, disk>>
        /\ task' = [at |-> "done", source |-> task.source, repo |-> task.repo, kept |-> task.kept]
    BY <1>2, <1>5, Zenon
  <2>2. CopyTypes'
    BY <1>1, <1>3, <1>5, <2>1 DEF CInv, CopyTypes
  <2>3. CloneKnows'
    BY <1>1, <1>3, <1>5, <2>1, Zenon
    DEF CInv, CopyTypes, CloneKnows, LeftServer, LeftFiles, LeftRepo
  <2> QED
    BY <1>1, <2>1, <2>2, <2>3, TaskFrame, Zenon DEF CInv
<1>6. ASSUME NEW from \in {"running", "mark"}, Step(from, "unrecorded"), clone' = clone PROVE CInv'
  <2>1. /\ task.at = from /\ UNCHANGED <<source, cli, disk>>
        /\ task' = [at |-> "unrecorded", source |-> task.source, repo |-> task.repo, kept |-> task.kept]
    BY <1>2, <1>6, Zenon
  <2>2. CopyTypes'
    BY <1>1, <1>6, <2>1 DEF CInv, CopyTypes
  <2>3. CloneKnows'
    BY <1>1, <1>6, <2>1, Zenon DEF CInv, CopyTypes, CloneKnows
  <2> QED
    BY <1>1, <2>1, <2>2, <2>3, TaskFrame, Zenon DEF CInv
<1> QED
  BY <1>4, <1>5, <1>6 DEF Outcome
-----------------------------------------------------------------------------
\* The offline command touches nothing of the clone.
LEMMA CliFrame ==
    ASSUME CInv, NEW from, CliStep(from), CliSaysWhatItDid',
           cli' \in [at : {"start", "restore", "complete", "failed"}, target : Nat],
           cli'.target <= source.data,
           disk' \in Volume, disk'.data <= source.data
    PROVE  CInv'
<1>1. UNCHANGED <<source, backups, clone, files, server, task>>
  BY Zenon DEF CliStep
<1>2. CopyTypes'
  BY <1>1 DEF CInv, CopyTypes
<1>3. CloneKnows'
  BY <1>1, Zenon
  DEF CInv, CloneKnows, Nothing, Copied, Serves, LeftServer, LeftFiles, LeftRepo
<1> QED
  BY <1>2, <1>3, Zenon DEF CInv

LEMMA CliVolumeStep == ASSUME CInv, CliVolume PROVE CInv'
<1>1. PICK goal \in 0 .. source.data : cli' = [at |-> "restore", target |-> goal]
  BY Zenon DEF CliVolume
<1>2. disk' = [exists |-> TRUE, data |-> disk.data, promoted |-> disk.promoted]
  BY Zenon DEF CliVolume, CInv, CopyTypes, Volume
<1>3. CliSaysWhatItDid'
  BY <1>1, Zenon DEF CliSaysWhatItDid
<1>4. disk' \in Volume /\ disk'.data <= source.data
  BY <1>2, Zenon DEF CInv, CopyTypes, Volume
<1>5. goal \in Nat /\ goal <= source.data
  BY DEF CInv, CopyTypes, Sources
<1>6. /\ cli' \in [at : {"start", "restore", "complete", "failed"}, target : Nat]
      /\ cli'.target <= source.data
  BY <1>1, <1>5, Zenon
<1> QED
  BY <1>3, <1>4, <1>6, CliFrame, Zenon DEF CliVolume

\* What CliRestored lets the volume hold lies between a backup and the target.
LEMMA RestoredIsBetween ==
    ASSUME CopyTypes, NEW d \in CliRestored
    PROVE  /\ d \in Volume /\ d.data <= source.data
           /\ \E b \in backups : b <= d.data
           /\ cli.target # 0 => d.data <= cli.target
<1> DEFINE goal == IF cli.target = 0 THEN source.data ELSE cli.target
           before == {b \in backups : b <= goal}
<1>1. /\ goal \in Nat /\ goal <= source.data /\ source.data \in Nat
      /\ cli.target # 0 => goal = cli.target
  BY DEF CopyTypes, Sources
<1>2. /\ before # {}
      /\ \/ d \in [exists : {TRUE}, data : Max(before) .. goal, promoted : {FALSE}]
         \/ d \in [exists : {TRUE}, promoted : {TRUE},
                   data : (IF cli.target = 0 THEN Max(before) .. goal ELSE {goal})]
  BY Zenon DEF CliRestored
<1>3. before \subseteq backups /\ \A b \in before : b \in Nat /\ b <= goal
  <2>1. \A b \in backups : b \in Nat
    BY <1>1 DEF CopyTypes
  <2> QED
    BY <2>1, Zenon
<1> HIDE DEF goal, before
<1>4. before \subseteq 0 .. goal
  BY <1>1, <1>3
<1>5. Max(before) \in before
  BY <1>1, <1>2, <1>4, Greatest, Zenon
<1> DEFINE least == Max(before)
<1>6. least \in Nat /\ least <= goal /\ least \in backups
  BY <1>3, <1>5, Zenon
<1>7. d.data \in least .. goal /\ d \in [exists : BOOLEAN, data : Nat, promoted : BOOLEAN]
  <2> DEFINE D == IF cli.target = 0 THEN least .. goal ELSE {goal}
  <2>1. least .. goal \subseteq Nat /\ D \subseteq least .. goal
    BY <1>1, <1>6
  <2>2. \/ d \in [exists : {TRUE}, data : least .. goal, promoted : {FALSE}]
        \/ d \in [exists : {TRUE}, promoted : {TRUE}, data : D]
    BY <1>2, Zenon
  <2> HIDE DEF least, D
  <2>3. d.data \in least .. goal
    BY <2>1, <2>2, Zenon
  <2>4. d.data \in Nat
    BY <2>1, <2>3, Zenon
  <2>5. PICK b \in BOOLEAN : d = [exists |-> TRUE, data |-> d.data, promoted |-> b]
    BY <2>2, Zenon
  <2>6. d \in [exists : BOOLEAN, data : Nat, promoted : BOOLEAN]
    <3>1. ASSUME NEW n \in Nat
          PROVE  [exists |-> TRUE, data |-> n, promoted |-> b]
                   \in [exists : BOOLEAN, data : Nat, promoted : BOOLEAN]
      OBVIOUS
    <3> QED
      BY <2>4, <2>5, <3>1, Zenon
  <2> QED
    BY <2>3, <2>6, Zenon
<1>8. d \in Volume
  BY <1>7, Zenon DEF Volume
<1>9. least <= d.data /\ d.data <= goal /\ d.data \in Nat
  BY <1>1, <1>6, <1>7
<1> QED
  BY <1>1, <1>6, <1>8, <1>9

LEMMA CliRestoreStep == ASSUME CInv, CliRestore PROVE CInv'
<1>1. /\ cli = [at |-> cli.at, target |-> cli.target] /\ cli.target \in Nat
      /\ cli.target <= source.data /\ disk \in Volume /\ disk.data <= source.data
      /\ source.data \in Nat
  BY Zenon DEF CInv, CopyTypes, Sources
<1>2. PICK at \in {"complete", "failed"} : cli' = [cli EXCEPT !.at = at]
  BY Zenon DEF CliRestore
<1>3. cli' = [at |-> at, target |-> cli.target]
  BY <1>2, Zenon DEF CInv, CopyTypes
<1>4. /\ cli' \in [at : {"start", "restore", "complete", "failed"}, target : Nat]
      /\ cli'.target <= source.data
  BY <1>1, <1>3, Zenon
<1>5. CliStep("restore") /\ UNCHANGED backups
  BY Zenon DEF CliRestore, CliStep
<1>6. CASE at = "complete"
  <2>1. disk' \in CliRestored
    BY <1>3, <1>6, Zenon DEF CliRestore, CInv, CopyTypes
  <2>2. /\ disk' \in Volume /\ disk'.data <= source.data
        /\ \E b \in backups : b <= disk'.data
        /\ cli.target # 0 => disk'.data <= cli.target
    BY <2>1, RestoredIsBetween, Zenon DEF CInv
  <2>3. CliSaysWhatItDid'
    BY <1>3, <1>5, <2>2, Zenon DEF CliSaysWhatItDid
  <2> QED
    BY <1>4, <1>5, <2>2, <2>3, CliFrame, Zenon
<1>7. CASE at = "failed"
  <2>1. disk' = disk \/ disk' = [disk EXCEPT !.data = source.data]
    BY <1>3, <1>7, Zenon DEF CliRestore, CInv, CopyTypes
  <2>2. disk' \in Volume /\ disk'.data <= source.data
    BY <1>1, <2>1 DEF Volume
  <2>3. CliSaysWhatItDid'
    BY <1>3, <1>7, Zenon DEF CliSaysWhatItDid
  <2> QED
    BY <1>4, <1>5, <2>2, <2>3, CliFrame, Zenon
<1> QED
  BY <1>6, <1>7, Zenon

LEMMA CliAgainStep == ASSUME CInv, CliAgain PROVE CInv'
<1>1. CliStep("failed") /\ cli' = [at |-> "start", target |-> 0] /\ disk' = disk
  BY Zenon DEF CliAgain
<1>2. source.data \in Nat /\ disk \in Volume /\ disk.data <= source.data
  BY Zenon DEF CInv, CopyTypes, Sources
<1>3. CliSaysWhatItDid'
  BY <1>1, Zenon DEF CliSaysWhatItDid
<1>4. /\ cli' \in [at : {"start", "restore", "complete", "failed"}, target : Nat]
      /\ cli'.target <= source.data
  BY <1>1, <1>2
<1> QED
  BY <1>1, <1>2, <1>3, <1>4, CliFrame, Zenon

LEMMA CopiesStep == ASSUME CInv, [CopiesNext]_copies PROVE CInv'
<1>1. CASE UNCHANGED copies
  <2>1. CopyTypes'
    BY <1>1 DEF copies, CInv, CopyTypes
  <2>2. CloneKnows'
    BY <1>1, Zenon
    DEF copies, CInv, CloneKnows, Nothing, Copied, Serves, LeftServer, LeftFiles, LeftRepo
  <2>3. CliSaysWhatItDid'
    BY <1>1, Zenon DEF copies, CInv, CliSaysWhatItDid
  <2> QED
    BY <2>1, <2>2, <2>3, Zenon DEF CInv
<1> QED
  BY <1>1, SourceStep, TakeBackupStep, PreflightStep, CloneVolumeStep,
     RestoreCloneStep,
     CloneContainerStep, ResetPasswordStep, CloneStanzaStep, RemoveCloneStep,
     RemoveDataStep, RemoveRepoStep, OutcomeStep,
     CliVolumeStep, CliRestoreStep, CliAgainStep, Zenon
  DEF CopiesNext, CloneTask

LEMMA CopiesStart == CopiesInit => CInv
<1> SUFFICES ASSUME CopiesInit PROVE CInv
  OBVIOUS
<1>1. source \in Sources /\ source.data = 1 /\ files = Absent /\ disk = Absent /\ server = NoServer
  BY DEF CopiesInit, Sources
<1>2. Absent \in Volume /\ Absent.data = 0 /\ ~NoServer.exists
  BY Zenon DEF Absent, Volume, NoServer
<1>3. CopyTypes
  BY <1>1, <1>2 DEF CopiesInit, CopyTypes, NoServer
<1>4. CloneKnows /\ CliSaysWhatItDid
  BY <1>1, <1>2 DEF CopiesInit, CloneKnows, CliSaysWhatItDid, Nothing, Sources
<1> QED
  BY <1>3, <1>4, Zenon DEF CInv

\* A clone that runs is the source's data with nothing of the source's identity, one
\* that failed left only what its cleanup tried and failed to remove, and "restore
\* complete" is said of what this run restored, whatever is written, replaced,
\* retried or fails meanwhile, the calls of the cleanup included.
THEOREM CopiesWhole == CopiesSpec => []CopiesAreWhole
<1>1. CInv => CopiesAreWhole
  BY Zenon
  DEF CInv, CloneKnows, Serves, Copied, Nothing, CopiesAreWhole, CloneIsIndependent,
     CloneIsRecent, FailedCloneCleansUp, LeftServer, LeftFiles, LeftRepo
<1> QED
  BY <1>1, CopiesStart, CopiesStep, PTL DEF CopiesSpec

\* The clone's container never outlives its volume or its repository.
THEOREM CopiesTyped == CopiesSpec => []CopiesTypeOK
<1>1. CInv => CopiesTypeOK
  BY DEF CInv, CopyTypes, CloneKnows, CopiesTypeOK, Volume, Sources
<1> QED
  BY <1>1, CopiesStart, CopiesStep, PTL DEF CopiesSpec

-----------------------------------------------------------------------------
(* Clusters: nobody is told of one that is not complete, and no operation  *)
(* leaves behind what no row accounts for.                                 *)

MemberRow == [status : {"provisioning", "running", "error"}, runtime : BOOLEAN]

ClusterTypes ==
    /\ row \in [status : {"absent", "provisioning", "running", "error", "destroying"},
                primary : BOOLEAN, router : BOOLEAN]
    /\ members \in [DOMAIN members -> MemberRow] /\ DOMAIN members \subseteq Members
    /\ containers \subseteq Members /\ volumes \subseteq Members
    /\ slots \subseteq Members \ {Primary}
    /\ router \in [exists : BOOLEAN, serves : SUBSET Members]
    /\ create \in [at : {"start", "members", "rollback", "failed", "done"},
                   next : Nat, alive : BOOLEAN]
    /\ prov \in [at : {"start", "volume", "container", "ready", "undo", "unvolume", "unslot",
                       "mark", "running", "router", "inspect", "unroute", "record",
                       "succeed", "fail", "done"}, on : Members]
    /\ destroy \in [at : {"none", "router", "member", "delete", "failed", "done"},
                    todo : SUBSET Members, router : BOOLEAN, has : BOOLEAN]
    /\ overlap \in BOOLEAN

\* Which operation may run when, and what has not been made yet.
Order ==
    /\ row = NoRow => DOMAIN members = {}
    /\ create.at = "start" => row = NoRow /\ destroy.at = "none" /\ create.next = Primary
    /\ create.at = "members" => create.next <= Replicas
    /\ prov.at # "start" => create.at = "done"
    /\ prov.at = "start" => /\ containers = {} /\ volumes = {} /\ slots = {}
                            /\ router = NoRouter /\ ~row.router /\ row.status # "running"
                            /\ prov.on = Primary
    /\ create.at = "failed" => "rows" \in lost \/ row = NoRow
    /\ destroy.at = "none" => ~overlap
    /\ destroy.at # "none" /\ ~overlap =>
         create.at \in {"failed", "done"} /\ (create.at = "done" => prov.at = "done")

Full == [exists |-> TRUE, serves |-> Members]

Up(m) == members[m].status = "running"

\* Complete: every member serves and the primary is recorded.
Complete == containers = Members /\ row.primary /\ \A m \in Members : Up(m)

\* Where a replica may have its slot and no container.
Slotted == {"container", "undo", "unvolume", "unslot"}

\* While nobody destroys it, what the cluster has at each step of its provisioning.
Building ==
    /\ create.at = "members" => row # NoRow /\ DOMAIN members = {m \in Members : m < create.next}
    /\ create.at = "done" => row # NoRow /\ DOMAIN members = Members
    /\ prov.at \in {"volume", "container"} => containers = {m \in Members : m < prov.on}
    /\ prov.at \in {"ready", "running"} => containers = {m \in Members : m <= prov.on}
    /\ prov.at \in {"volume", "container", "ready", "running"} =>
         /\ \A m \in Members : m < prov.on => Up(m)
         /\ prov.on # Primary => row.primary
    /\ prov.at \in {"router", "inspect", "record", "succeed"} => Complete /\ prov.on = Replicas
    /\ prov.at \in {"inspect", "record", "succeed"} => router = Full
    /\ prov.at = "succeed" => row.router
    /\ row.router => prov.at \in {"succeed", "done"} /\ Complete /\ router = Full
    /\ row.status = "running" => row.router
    /\ router.exists /\ prov.at \notin {"inspect", "unroute", "record"} => row.router \/ "router" \in lost
    /\ \A m \in containers : \/ members[m].runtime
                             \/ "container" \in lost
                             \/ prov.on = m /\ prov.at \in {"ready", "undo"}
    /\ "slot" \notin lost =>
         slots \subseteq containers \cup (IF prov.at \in Slotted THEN {prov.on} ELSE {})

\* While it is destroyed, and nothing else is under way, what is left has a row.
Wrecking ==
    /\ containers \subseteq DOMAIN members /\ volumes \subseteq DOMAIN members
    /\ slots # {} => Primary \in DOMAIN members
    /\ "mark" \notin lost => row.status # "running"
    /\ router.exists => \/ "router" \in lost
                        \/ destroy.at = "router" /\ destroy.router
                        \/ destroy.at = "failed" /\ row.router
    /\ destroy.at = "member" => DOMAIN members = destroy.todo
    /\ destroy.at = "delete" => DOMAIN members = {}
    /\ destroy.at = "done" => row = NoRow

KInv ==
    /\ ClusterTypes /\ Order
    /\ destroy.at = "none" => Building
    /\ destroy.at # "none" /\ ~overlap => Wrecking
-----------------------------------------------------------------------------
\* SetStatus of one member: its status, and nothing else of any member.
LEMMA StatusSet ==
    ASSUME ClusterTypes, NEW m, NEW s \in {"provisioning", "running", "error"},
           SetMember(m, "status", s)
    PROVE  /\ DOMAIN members' = DOMAIN members /\ members' \in [DOMAIN members -> MemberRow]
           /\ \A n \in DOMAIN members : members'[n].runtime = members[n].runtime
           /\ \A n \in DOMAIN members : members'[n].status = IF n = m THEN s ELSE members[n].status
BY DEF ClusterTypes, MemberRow, SetMember

\* SetRuntime of one member.
LEMMA RuntimeSet ==
    ASSUME ClusterTypes, NEW m, SetMember(m, "runtime", TRUE)
    PROVE  /\ DOMAIN members' = DOMAIN members /\ members' \in [DOMAIN members -> MemberRow]
           /\ \A n \in DOMAIN members : members'[n].status = members[n].status
           /\ \A n \in DOMAIN members \ {m} : members'[n].runtime = members[n].runtime
           /\ m \in DOMAIN members => members'[m].runtime
<1>1. ASSUME NEW n \in DOMAIN members
      PROVE  members[n] \in MemberRow
  BY <1>1, Zenon DEF ClusterTypes
<1>2. DOMAIN members' = DOMAIN members /\ members' = [n \in DOMAIN members |-> members'[n]]
  BY Zenon DEF SetMember
<1>3. ASSUME NEW n \in DOMAIN members \ {m}
      PROVE  members'[n] = members[n]
  BY <1>3, Zenon DEF SetMember
<1>4. ASSUME m \in DOMAIN members
      PROVE  members'[m] = [status |-> members[m].status, runtime |-> TRUE]
  <2>1. members'[m] = [members[m] EXCEPT !["runtime"] = TRUE]
    BY <1>4, Zenon DEF SetMember
  <2> QED
    BY <1>1, <1>4, <2>1, Zenon DEF MemberRow
<1>5. ASSUME m \in DOMAIN members
      PROVE  members'[m] \in MemberRow /\ members'[m].runtime
             /\ members'[m].status = members[m].status
  <2>1. PICK s \in {"provisioning", "running", "error"} : members[m].status = s
    BY <1>1, <1>5, Zenon DEF MemberRow
  <2>2. members'[m] = [status |-> s, runtime |-> TRUE]
    BY <1>4, <1>5, <2>1, Zenon
  <2> QED
    BY <2>1, <2>2 DEF MemberRow
<1>6. ASSUME NEW n \in DOMAIN members
      PROVE  members'[n] \in MemberRow
  BY <1>1, <1>3, <1>5, <1>6, Zenon
<1>7. members' \in [DOMAIN members -> MemberRow]
  BY <1>2, <1>6, Zenon
<1> QED
  BY <1>2, <1>3, <1>5, <1>7, Zenon

\* SetStatus of the cluster: the row, where there is one, keeps the rest.
LEMMA RowSet ==
    ASSUME ClusterTypes, NEW s \in {"provisioning", "running", "error", "destroying"}, SetStatus(s)
    PROVE  /\ row' = IF row = NoRow THEN row
                     ELSE [status |-> s, primary |-> row.primary, router |-> row.router]
           /\ row'.primary = row.primary /\ row'.router = row.router
           /\ row' = NoRow <=> row = NoRow
           /\ row # NoRow => row'.status = s
           /\ row' \in [status : {"absent", "provisioning", "running", "error", "destroying"},
                        primary : BOOLEAN, router : BOOLEAN]
<1>1. row' = IF row = NoRow THEN row
             ELSE [status |-> s, primary |-> row.primary, router |-> row.router]
  BY DEF ClusterTypes, SetStatus
<1>2. row.primary \in BOOLEAN /\ row.router \in BOOLEAN
  BY Zenon DEF ClusterTypes
<1>3. CASE row = NoRow
  BY <1>1, <1>3, Zenon DEF ClusterTypes, NoRow
<1>4. CASE row # NoRow
  <2>1. row' = [status |-> s, primary |-> row.primary, router |-> row.router]
    BY <1>1, <1>4, Zenon
  <2>2. row'.status = s /\ row'.primary = row.primary /\ row'.router = row.router
    BY <2>1, Zenon
  <2>3. row' # NoRow
    BY <2>2 DEF NoRow
  <2>4. row' \in [status : {"absent", "provisioning", "running", "error", "destroying"},
                  primary : BOOLEAN, router : BOOLEAN]
    BY <1>2, <2>1, Zenon
  <2> QED
    BY <1>1, <1>4, <2>2, <2>3, <2>4, Zenon
<1> QED
  BY <1>3, <1>4, Zenon

\* A step of the task that stays with its member.
LEMMA ProvMoves ==
    ASSUME ClusterTypes, NEW to, ProvisionAt(to)
    PROVE  prov' = [at |-> to, on |-> prov.on]
BY Zenon DEF ClusterTypes, ProvisionAt

LEMMA InsertClusterStep == ASSUME KInv, InsertCluster PROVE KInv'
<1>1. /\ UNCHANGED <<members, containers, volumes, slots, router, prov, destroy, overlap, lost>>
      /\ row' = [status |-> "provisioning", primary |-> FALSE, router |-> FALSE]
      /\ create' = [at |-> "members", next |-> create.next, alive |-> create.alive]
      /\ create.at = "start"
  BY Zenon DEF KInv, ClusterTypes, InsertCluster, docker, NoRow
<1>2. ClusterTypes'
  BY <1>1 DEF KInv, ClusterTypes
<1>3. row = NoRow /\ destroy.at = "none" /\ DOMAIN members = {} /\ prov.at = "start"
  BY <1>1, Zenon DEF KInv, Order, ClusterTypes
<1>4. Order'
  BY <1>1, <1>3, ReplicasAssumption DEF KInv, Order, NoRow, Primary
<1>5. Building'
  <2>1. {m \in Members : m < 0} = {}
    BY ReplicasAssumption DEF Members
  <2> QED
    BY <1>1, <1>3, <2>1, Zenon
    DEF KInv, Order, Building, NoRow, NoRouter, Primary
<1> QED
  BY <1>1, <1>2, <1>3, <1>4, <1>5, Zenon DEF KInv
\* The rows of the members go in one by one, the primary first.
LEMMA InsertMemberStep == ASSUME KInv, InsertMember PROVE KInv'
<1>1. /\ UNCHANGED <<row, containers, volumes, slots, router, prov, destroy, overlap, lost>>
      /\ create.at = "members"
  BY Zenon DEF InsertMember, docker
<1>2. prov.at = "start" /\ (destroy.at # "none" => overlap)
  BY <1>1, Zenon DEF KInv, Order, ClusterTypes
<1>3. /\ containers = {} /\ volumes = {} /\ slots = {} /\ router = NoRouter
      /\ ~row.router /\ row.status # "running"
  BY <1>2, Zenon DEF KInv, Order
<1>4. CASE create' = [create EXCEPT !.at = "rollback"] /\ UNCHANGED members
  <2>1. create' = [at |-> "rollback", next |-> create.next, alive |-> create.alive]
    BY <1>4, Zenon DEF KInv, ClusterTypes
  <2>2. ClusterTypes'
    BY <1>1, <1>4, <2>1 DEF KInv, ClusterTypes
  <2>3. Order'
    BY <1>1, <1>2, <1>4, <2>1, Zenon DEF KInv, Order
  <2>4. destroy.at = "none" => Building'
    BY <1>1, <1>2, <1>3, <1>4, <2>1, Zenon DEF KInv, Building, NoRouter
  <2> QED
    BY <1>1, <1>2, <2>2, <2>3, <2>4, Zenon DEF KInv
<1>5. CASE /\ row # NoRow
           /\ members' = [m \in DOMAIN members \cup {create.next} |->
                 IF m = create.next THEN [status |-> "provisioning", runtime |-> FALSE]
                                    ELSE members[m]]
           /\ create' = [create EXCEPT !.next = @ + 1,
                                       !.at = IF create.next = Replicas THEN "done" ELSE "members"]
  <2>1. create' = [at |-> IF create.next = Replicas THEN "done" ELSE "members",
                   next |-> create.next + 1, alive |-> create.alive]
    BY <1>5, Zenon DEF KInv, ClusterTypes
  <2>2. create.next \in Members
    BY <1>1, ReplicasAssumption DEF KInv, Order, ClusterTypes, Members
  <2>3. ASSUME NEW m \in DOMAIN members'
        PROVE  members'[m] \in MemberRow
    BY <1>5, <2>3, Zenon DEF KInv, ClusterTypes, MemberRow
  <2>4. /\ DOMAIN members' = DOMAIN members \cup {create.next}
        /\ members' \in [DOMAIN members' -> MemberRow]
    BY <1>5, <2>3, Zenon
  <2>5. create'.next \in Nat /\ create' \in [at : {"done", "members"}, next : Nat, alive : BOOLEAN]
    BY <2>1, <2>2, ReplicasAssumption DEF KInv, ClusterTypes, Members
  <2>6. ClusterTypes'
    BY <1>1, <2>2, <2>4, <2>5 DEF KInv, ClusterTypes
  <2>7. Order'
    <3>1. create.next # Replicas => create.next + 1 <= Replicas
      BY <2>2, ReplicasAssumption DEF Members
    <3> QED
      BY <1>1, <1>2, <1>5, <2>1, <3>1, Zenon DEF KInv, Order
  <2>8. ASSUME destroy.at = "none"
        PROVE  Building'
    <3>1. DOMAIN members = {m \in Members : m < create.next}
      BY <1>1, <2>8, Zenon DEF KInv, Building
    <3>2. DOMAIN members' = {m \in Members : m < create.next + 1}
      BY <2>2, <2>4, <3>1, ReplicasAssumption DEF Members
    <3>3. create.next = Replicas => DOMAIN members' = Members
      BY <3>2, ReplicasAssumption DEF Members
    <3> QED
      BY <1>1, <1>2, <1>3, <1>5, <2>1, <3>2, <3>3 DEF Building, NoRouter
  <2> QED
    BY <1>1, <1>2, <2>6, <2>7, <2>8, Zenon DEF KInv
<1> QED
  BY <1>4, <1>5, Zenon DEF InsertMember, Failure

LEMMA RollbackStep == ASSUME KInv, Rollback \/ Disconnect PROVE KInv'
<1>1. /\ UNCHANGED <<containers, volumes, slots, router, prov, destroy, overlap>>
      /\ create.at \in {"members", "rollback"}
      /\ \E a \in BOOLEAN : \/ create' = [at |-> "failed", next |-> create.next, alive |-> a]
                            \/ create' = [at |-> create.at, next |-> create.next, alive |-> a]
  BY ZenonT(30) DEF Rollback, Disconnect, docker, KInv, ClusterTypes
<1>2. prov.at = "start" /\ (destroy.at # "none" => overlap)
  BY <1>1, Zenon DEF KInv, Order, ClusterTypes
<1>3. /\ containers = {} /\ volumes = {} /\ slots = {} /\ router = NoRouter
      /\ ~row.router /\ row.status # "running"
  BY <1>2, Zenon DEF KInv, Order
<1>4. \/ row' = NoRow /\ DOMAIN members' = {} /\ members' \in [{} -> MemberRow] /\ lost' = lost
         /\ create'.at = "failed"
      \/ UNCHANGED <<row, members>> /\ create'.at = "failed" /\ "rows" \in lost'
      \/ UNCHANGED <<row, members, lost>> /\ create'.at = create.at
  BY <1>1, ZenonT(30) DEF Rollback, Disconnect, rows, KInv, ClusterTypes
<1>5. create' \in [at : {"members", "rollback", "failed"}, next : {create.next}, alive : BOOLEAN]
  BY <1>1
<1>6. ClusterTypes'
  <2>1. /\ row' \in [status : {"absent", "provisioning", "running", "error", "destroying"},
                     primary : BOOLEAN, router : BOOLEAN]
        /\ members' \in [DOMAIN members' -> MemberRow] /\ DOMAIN members' \subseteq Members
    <3>1. CASE UNCHANGED <<row, members>>
      BY <3>1, Zenon DEF KInv, ClusterTypes
    <3>2. CASE row' = NoRow /\ DOMAIN members' = {} /\ members' \in [{} -> MemberRow]
      BY <3>2, Zenon DEF NoRow
    <3> QED
      BY <1>4, <3>1, <3>2, Zenon
  <2> QED
    BY <1>1, <1>5, <2>1 DEF KInv, ClusterTypes
<1>7. Order'
  BY <1>1, <1>2, <1>4, <1>5 DEF KInv, Order, NoRow
<1>8. ASSUME destroy.at = "none"
      PROVE  Building'
  <2>1. create'.at = "members" =>
          row' # NoRow /\ DOMAIN members' = {m \in Members : m < create'.next}
    BY <1>4, <1>5, <1>8, Zenon DEF KInv, Building
  <2>2. create'.at # "done" /\ prov'.at = "start" /\ ~row'.router /\ row'.status # "running"
    BY <1>1, <1>2, <1>3, <1>4, <1>5 DEF NoRow
  <2> QED
    BY <1>1, <1>3, <2>1, <2>2, Zenon DEF Building, NoRouter
<1> QED
  BY <1>1, <1>2, <1>6, <1>7, <1>8, Zenon DEF KInv
-----------------------------------------------------------------------------
\* A step of Provision: Destroy overlaps it or has not begun, so what is to be
\* shown is what the cluster has after the step.
LEMMA ProvKeeps ==
    ASSUME KInv, create.at = "done", prov.at # "done", UNCHANGED <<create, destroy, overlap>>,
           prov'.at # "start", row' = NoRow => row = NoRow, DOMAIN members' = DOMAIN members,
           ClusterTypes', destroy.at = "none" => Building'
    PROVE  KInv'
<1>1. destroy.at # "none" => overlap
  BY Zenon DEF KInv, Order
<1>2. Order'
  BY Zenon DEF KInv, Order
<1> QED
  BY <1>1, <1>2, Zenon DEF KInv

LEMMA ProvBeginStep == ASSUME KInv, ProvBegin PROVE KInv'
<1>1. /\ UNCHANGED <<row, members, containers, volumes, slots, router, create, destroy, overlap, lost>>
      /\ create.at = "done" /\ prov.at = "start"
  BY Zenon DEF ProvBegin, ProvStep, rows, docker
<1>2. \E at \in {"volume", "fail"} : prov' = [at |-> at, on |-> prov.on]
  <2>1. \E at \in {"volume", "fail"} : ProvisionAt(at)
    BY Zenon DEF ProvBegin
  <2> QED
    BY <2>1, ProvMoves, Zenon DEF KInv
<1>3. /\ containers = {} /\ slots = {} /\ router = NoRouter
      /\ ~row.router /\ row.status # "running" /\ prov.on = Primary
  BY <1>1, Zenon DEF KInv, Order
<1>4. ClusterTypes'
  BY <1>1, <1>2 DEF KInv, ClusterTypes
<1>5. ASSUME destroy.at = "none"
      PROVE  Building'
  <2>1. {m \in Members : m < 0} = {}
    BY ReplicasAssumption DEF Members
  <2>2. row # NoRow /\ DOMAIN members = Members
    BY <1>1, <1>5, Zenon DEF KInv, Building
  <2> QED
    BY <1>1, <1>2, <1>3, <2>1, <2>2 DEF Building, NoRouter, Primary
<1> QED
  BY <1>1, <1>2, <1>4, <1>5, ProvKeeps
\* What holds of a member's provisioning wherever it stands.
LEMMA OnMember ==
    ASSUME KInv, prov.at \in {"volume", "container", "ready", "undo", "unvolume", "unslot",
                             "mark", "running"}
    PROVE  /\ create.at = "done" /\ prov.on \in Members
           /\ destroy.at = "none" => /\ row # NoRow /\ DOMAIN members = Members
                                     /\ ~row.router /\ row.status # "running"
                                     /\ router.exists => "router" \in lost
BY Zenon DEF KInv, Order, Building, ClusterTypes

LEMMA ProvVolumeStep == ASSUME KInv, ProvVolume PROVE KInv'
<1> DEFINE m == prov.on
           slot == {m} \ {Primary}
<1>1. /\ UNCHANGED <<row, members, containers, router, create, destroy, overlap>>
      /\ prov.at = "volume"
  BY Zenon DEF ProvVolume, ProvStep, rows
<1>2. create.at = "done" /\ m \in Members
  BY <1>1, OnMember, Zenon
<1>3. \/ prov' = [at |-> "container", on |-> m] /\ volumes' = volumes \cup {m}
         /\ slots' = slots \cup slot /\ lost' = lost
      \/ prov' = [at |-> "mark", on |-> m] /\ volumes' = volumes
         /\ \/ slots' = slots /\ lost' = lost
            \/ slots' = slots \cup slot /\ lost' = lost \cup {"slot"}
      \/ prov' = [at |-> "undo", on |-> m] /\ UNCHANGED <<volumes, lost>>
         /\ slots' = slots \cup slot
  BY ProvMoves, Zenon DEF ProvVolume, KInv
<1> HIDE DEF m
<1>5. ClusterTypes'
  <2>1. slots' \subseteq Members \ {Primary} /\ volumes' \subseteq Members
    BY <1>2, <1>3, Zenon DEF KInv, ClusterTypes
  <2>2. prov' \in [at : {"container", "mark", "undo"}, on : Members]
    BY <1>2, <1>3
  <2> QED
    BY <1>1, <2>1, <2>2 DEF KInv, ClusterTypes
<1>6. ASSUME destroy.at = "none"
      PROVE  Building'
  <2>1. /\ row # NoRow /\ DOMAIN members = Members /\ ~row.router /\ row.status # "running"
        /\ router.exists => "router" \in lost
    BY <1>1, <1>6, OnMember, Zenon
  <2>2. /\ containers = {n \in Members : n < m} /\ \A n \in Members : n < m => Up(n)
        /\ m # Primary => row.primary
        /\ \A n \in containers : members[n].runtime \/ "container" \in lost
        /\ "slot" \notin lost => slots \subseteq containers
    BY <1>1, <1>6, Zenon DEF KInv, Building, Slotted, m
  <2>4. "slot" \notin lost' =>
          slots' \subseteq containers \cup (IF prov'.at \in Slotted THEN {m} ELSE {})
    BY <1>3, <2>2 DEF Slotted
  <2>5. prov'.on = m /\ prov'.at \in {"container", "mark", "undo"} /\ lost \subseteq lost'
    BY <1>3
  <2>6. /\ router.exists => "router" \in lost'
        /\ \A n \in containers : members[n].runtime \/ "container" \in lost'
    BY <2>1, <2>2, <2>5, Zenon
  <2>7. \A n \in Members : n < m => Up(n)'
    BY <1>1, <2>2, Zenon DEF Up
  <2> QED
    BY <1>1, <1>2, <2>1, <2>2, <2>4, <2>5, <2>6, <2>7, Zenon
    DEF Building
<1> QED
  BY <1>1, <1>2, <1>3, <1>5, <1>6, ProvKeeps

LEMMA ProvContainerStep == ASSUME KInv, ProvContainer PROVE KInv'
<1> DEFINE m == prov.on
<1>1. UNCHANGED <<row, slots, router, lost, create, destroy, overlap>> /\ prov.at = "container"
  BY Zenon DEF ProvContainer, ProvStep
<1>2. create.at = "done" /\ m \in Members
  BY <1>1, OnMember, Zenon
<1>3. \/ /\ prov' = [at |-> "ready", on |-> m] /\ containers' = containers \cup {m}
         /\ volumes' = volumes \cup {m}
      \/ prov' = [at |-> "undo", on |-> m] /\ UNCHANGED <<containers, volumes>>
  BY ProvMoves, Zenon DEF ProvContainer, KInv
<1>4. /\ DOMAIN members' = DOMAIN members /\ members' \in [DOMAIN members -> MemberRow]
      /\ \A n \in DOMAIN members : members'[n].status = members[n].status
      /\ \A n \in DOMAIN members \ {m} : members'[n].runtime = members[n].runtime
  <2>1. CASE SetMember(m, "runtime", TRUE)
    BY <2>1, RuntimeSet, Zenon DEF KInv
  <2>2. CASE members' = members
    BY <2>2, Zenon DEF KInv, ClusterTypes
  <2> QED
    BY <2>1, <2>2, Zenon DEF ProvContainer
<1> HIDE DEF m
<1>5. ClusterTypes'
  <2>1. containers' \subseteq Members /\ volumes' \subseteq Members
    BY <1>2, <1>3, Zenon DEF KInv, ClusterTypes
  <2>2. prov' \in [at : {"ready", "undo"}, on : Members]
    BY <1>2, <1>3
  <2> QED
    BY <1>1, <1>4, <2>1, <2>2 DEF KInv, ClusterTypes
<1>6. ASSUME destroy.at = "none"
      PROVE  Building'
  <2>1. /\ row # NoRow /\ DOMAIN members = Members /\ ~row.router /\ row.status # "running"
        /\ router.exists => "router" \in lost
    BY <1>1, <1>6, OnMember, Zenon
  <2>2. /\ containers = {n \in Members : n < m} /\ \A n \in Members : n < m => Up(n)
        /\ m # Primary => row.primary
        /\ \A n \in containers : members[n].runtime \/ "container" \in lost
        /\ "slot" \notin lost => slots \subseteq containers \cup {m}
    BY <1>1, <1>6, Zenon DEF KInv, Building, Slotted, m
  <2>3. \A n \in containers' : members'[n].runtime \/ "container" \in lost \/ n = m
    BY <1>3, <1>4, <2>1, <2>2
  <2>4. prov'.on = m /\ prov'.at \in {"ready", "undo"}
    BY <1>3
  <2>5. "slot" \notin lost' =>
          slots' \subseteq containers' \cup (IF prov'.at \in Slotted THEN {m} ELSE {})
    BY <1>1, <1>3, <2>2 DEF Slotted
  <2>6. prov'.at = "ready" => containers' = {n \in Members : n <= m}
    <3>1. {n \in Members : n <= m} = {n \in Members : n < m} \cup {m}
      BY <1>2, ReplicasAssumption DEF Members
    <3> QED
      BY <1>3, <2>2, <3>1
  <2>7. \A n \in Members : n < m => Up(n)'
    BY <1>4, <2>1, <2>2, Zenon DEF Up
  <2> QED
    BY <1>1, <1>2, <1>4, <2>1, <2>2, <2>3, <2>4, <2>5, <2>6, <2>7, Zenon
    DEF Building
<1> QED
  BY <1>1, <1>2, <1>3, <1>4, <1>5, <1>6, ProvKeeps
LEMMA ProvReadyStep == ASSUME KInv, ProvReady PROVE KInv'
<1> DEFINE m == prov.on
<1>1. /\ UNCHANGED <<row, containers, volumes, slots, router, lost, create, destroy, overlap>>
      /\ prov.at = "ready"
  BY Zenon DEF ProvReady, ProvStep, docker
<1>2. create.at = "done" /\ m \in Members
  BY <1>1, OnMember, Zenon
<1>3. prov' = [at |-> "running", on |-> m] \/ prov' = [at |-> "undo", on |-> m]
  BY ProvMoves, Zenon DEF ProvReady, KInv
<1>4. /\ DOMAIN members' = DOMAIN members /\ members' \in [DOMAIN members -> MemberRow]
      /\ \A n \in DOMAIN members : members'[n].status = members[n].status
      /\ \A n \in DOMAIN members \ {m} : members'[n].runtime = members[n].runtime
      /\ prov'.at = "running" => members'[m].runtime
  <2>1. CASE SetMember(m, "runtime", TRUE) /\ m \in DOMAIN members
    BY <2>1, RuntimeSet, Zenon DEF KInv
  <2>2. CASE members' = members /\ prov'.at = "undo"
    BY <2>2, Zenon DEF KInv, ClusterTypes
  <2>3. ASSUME ProvisionAt("undo")
        PROVE  prov'.at = "undo"
    BY <2>3, ProvMoves DEF KInv
  <2> QED
    BY <2>1, <2>2, <2>3, Zenon DEF ProvReady
<1> HIDE DEF m
<1>5. ClusterTypes'
  <2>1. prov' \in [at : {"running", "undo"}, on : Members]
    BY <1>2, <1>3
  <2> QED
    BY <1>1, <1>4, <2>1 DEF KInv, ClusterTypes
<1>6. ASSUME destroy.at = "none"
      PROVE  Building'
  <2>1. /\ row # NoRow /\ DOMAIN members = Members /\ ~row.router /\ row.status # "running"
        /\ router.exists => "router" \in lost
    BY <1>1, <1>6, OnMember, Zenon
  <2>2. /\ containers = {n \in Members : n <= m} /\ \A n \in Members : n < m => Up(n)
        /\ m # Primary => row.primary
        /\ \A n \in containers : members[n].runtime \/ "container" \in lost \/ n = m
        /\ "slot" \notin lost => slots \subseteq containers
    BY <1>1, <1>6, Zenon DEF KInv, Building, Slotted, m
  <2>3. prov'.on = m /\ prov'.at \in {"running", "undo"}
    BY <1>3
  <2>4. \A n \in containers : \/ members'[n].runtime
                              \/ "container" \in lost
                              \/ n = m /\ prov'.at = "undo"
    BY <1>4, <2>1, <2>2, <2>3, Zenon
  <2>5. \A n \in Members : n < m => Up(n)'
    BY <1>4, <2>1, <2>2, Zenon DEF Up
  <2> QED
    BY <1>1, <1>2, <1>4, <2>1, <2>2, <2>3, <2>4, <2>5, Zenon DEF Building, Slotted
<1> QED
  BY <1>1, <1>2, <1>3, <1>4, <1>5, <1>6, ProvKeeps


\* A step of the deferred cleanup: what is left is less, and accounted for.
LEMMA UndoKeeps ==
    ASSUME KInv, prov.at \in {"undo", "unvolume", "unslot", "mark"},
           NEW to \in {"unvolume", "unslot", "mark", "fail"}, ProvisionAt(to),
           UNCHANGED <<row, router, create, destroy, overlap>>, lost \subseteq lost',
           containers' \subseteq containers, volumes' \subseteq volumes, slots' \subseteq slots,
           DOMAIN members' = DOMAIN members, members' \in [DOMAIN members -> MemberRow],
           destroy.at = "none" =>
             /\ \A n \in containers' : members'[n].runtime \/ "container" \in lost'
             /\ "slot" \notin lost' =>
                  slots' \subseteq containers' \cup (IF to \in Slotted THEN {prov.on} ELSE {})
    PROVE  KInv'
<1>1. create.at = "done" /\ prov.on \in Members
  BY OnMember, Zenon
<1>2. prov' = [at |-> to, on |-> prov.on] /\ prov'.at = to /\ prov'.on = prov.on
  <2>1. prov' = [at |-> to, on |-> prov.on]
    BY ProvMoves, Zenon DEF KInv
  <2> QED
    BY <2>1, Zenon
<1>3. ClusterTypes'
  <2>1. prov' \in [at : {"unvolume", "unslot", "mark", "fail"}, on : Members]
    BY <1>1, <1>2, Zenon
  <2> QED
    BY <2>1 DEF KInv, ClusterTypes
<1>4. ASSUME destroy.at = "none"
      PROVE  Building'
  <2>1. /\ row # NoRow /\ DOMAIN members = Members /\ ~row.router /\ row.status # "running"
        /\ router.exists => "router" \in lost'
    BY <1>4, OnMember, Zenon
  <2> QED
    BY <1>1, <1>2, <1>4, <2>1, Zenon DEF Building
<1>5. prov.at # "done" /\ prov'.at # "start"
  BY <1>2
<1> QED
  BY <1>1, <1>3, <1>4, <1>5, ProvKeeps, Zenon

LEMMA UndoContainerStep == ASSUME KInv, UndoContainer PROVE KInv'
<1>1. /\ UNCHANGED <<row, members, volumes, slots, router, create, destroy, overlap>>
      /\ prov.at = "undo" /\ ProvisionAt("unvolume")
      /\ \/ containers' = containers \ {prov.on} /\ lost' = lost
         \/ containers' = containers /\ lost' = lost \cup {"container"}
  BY Zenon DEF UndoContainer, ProvStep, rows
<1>2. ASSUME destroy.at = "none"
      PROVE  /\ \A n \in containers' : members[n].runtime \/ "container" \in lost'
             /\ "slot" \notin lost' => slots \subseteq containers' \cup {prov.on}
  <2>1. /\ \A n \in containers : members[n].runtime \/ "container" \in lost \/ n = prov.on
        /\ "slot" \notin lost => slots \subseteq containers \cup {prov.on}
    BY <1>1, <1>2, Zenon DEF KInv, Building, Slotted
  <2> QED
    BY <1>1, <2>1, Zenon
<1>3. members \in [DOMAIN members -> MemberRow]
  BY Zenon DEF KInv, ClusterTypes
<1>4. lost \subseteq lost' /\ containers' \subseteq containers
  BY <1>1, Zenon
<1> QED
  BY <1>1, <1>2, <1>3, <1>4, UndoKeeps, Zenon DEF Slotted

LEMMA UndoVolumeStep == ASSUME KInv, UndoVolume PROVE KInv'
<1>1. /\ UNCHANGED <<row, members, containers, slots, router, create, destroy, overlap, lost>>
      /\ prov.at = "unvolume" /\ ProvisionAt("unslot") /\ volumes' \subseteq volumes
  BY Zenon DEF UndoVolume, ProvStep, rows
<1>2. ASSUME destroy.at = "none"
      PROVE  /\ \A n \in containers : members[n].runtime \/ "container" \in lost
             /\ "slot" \notin lost => slots \subseteq containers \cup {prov.on}
  BY <1>1, <1>2, Zenon DEF KInv, Building, Slotted
<1>3. members \in [DOMAIN members -> MemberRow]
  BY Zenon DEF KInv, ClusterTypes
<1> QED
  BY <1>1, <1>2, <1>3, UndoKeeps, Zenon DEF Slotted

LEMMA UndoSlotStep == ASSUME KInv, UndoSlot PROVE KInv'
<1>1. /\ UNCHANGED <<row, members, containers, volumes, router, create, destroy, overlap>>
      /\ prov.at = "unslot" /\ ProvisionAt("mark")
      /\ \/ prov.on \in containers \cup {Primary} /\ slots' = slots /\ lost' = lost
         \/ slots' = slots \ {prov.on} /\ lost' = lost
         \/ slots' = slots /\ lost' = lost \cup {"slot"}
  BY Zenon DEF UndoSlot, ProvStep, rows
<1>2. ASSUME destroy.at = "none"
      PROVE  /\ \A n \in containers : members[n].runtime \/ "container" \in lost'
             /\ "slot" \notin lost' => slots' \subseteq containers
  <2>1. /\ \A n \in containers : members[n].runtime \/ "container" \in lost
        /\ "slot" \notin lost => slots \subseteq containers \cup {prov.on}
        /\ Primary \notin slots
    BY <1>1, <1>2, Zenon DEF KInv, Building, Slotted, ClusterTypes
  <2> QED
    BY <1>1, <2>1, Zenon
<1>3. members \in [DOMAIN members -> MemberRow]
  BY Zenon DEF KInv, ClusterTypes
<1>4. lost \subseteq lost' /\ slots' \subseteq slots
  BY <1>1, Zenon
<1> QED
  BY <1>1, <1>2, <1>3, <1>4, UndoKeeps, Zenon DEF Slotted

LEMMA ProvMarkStep == ASSUME KInv, ProvMark PROVE KInv'
<1>1. /\ UNCHANGED <<row, containers, volumes, slots, router, create, destroy, overlap, lost>>
      /\ prov.at = "mark" /\ ProvisionAt("fail")
      /\ SetMember(prov.on, "status", "error") \/ members' = members
  BY Zenon DEF ProvMark, ProvStep, docker
<1>2. /\ DOMAIN members' = DOMAIN members /\ members' \in [DOMAIN members -> MemberRow]
      /\ \A n \in DOMAIN members : members'[n].runtime = members[n].runtime
  <2>1. CASE SetMember(prov.on, "status", "error")
    BY <2>1, StatusSet, Zenon DEF KInv
  <2>2. CASE members' = members
    BY <2>2, Zenon DEF KInv, ClusterTypes
  <2> QED
    BY <1>1, <2>1, <2>2, Zenon
<1>3. ASSUME destroy.at = "none"
      PROVE  /\ \A n \in containers : members'[n].runtime \/ "container" \in lost
             /\ "slot" \notin lost => slots \subseteq containers
  <2>1. /\ \A n \in containers : members[n].runtime \/ "container" \in lost
        /\ "slot" \notin lost => slots \subseteq containers
        /\ containers \subseteq DOMAIN members
    BY <1>1, <1>3, OnMember, Zenon DEF KInv, Building, Slotted, ClusterTypes
  <2> QED
    BY <1>2, <2>1, Zenon
<1> QED
  BY <1>1, <1>2, <1>3, UndoKeeps, Zenon DEF Slotted

LEMMA ProvRunningStep == ASSUME KInv, ProvRunning PROVE KInv'
<1> DEFINE m == prov.on
           on == [at |-> IF m < Replicas THEN "volume" ELSE "router",
                  on |-> IF m < Replicas THEN m + 1 ELSE m]
<1>1. /\ UNCHANGED <<containers, volumes, slots, router, lost, create, destroy, overlap>>
      /\ prov.at = "running"
  BY Zenon DEF ProvRunning, ProvStep, docker
<1>2. create.at = "done" /\ m \in Members
  BY <1>1, OnMember, Zenon
<1>3. \/ /\ prov' = on /\ SetMember(m, "status", "running")
         /\ row' = [row EXCEPT !.primary = @ \/ m = Primary] /\ (m = Primary => row # NoRow)
      \/ /\ prov' = [at |-> "fail", on |-> m] /\ row' = row
         /\ SetMember(m, "status", "running") \/ members' = members
  <2>1. ASSUME NextMember(m)
        PROVE  prov' = on
    BY <2>1, ProvMoves, Zenon DEF NextMember, KInv
  <2>2. ASSUME ProvisionAt("fail")
        PROVE  prov' = [at |-> "fail", on |-> m]
    BY <2>2, ProvMoves, Zenon DEF KInv
  <2> HIDE DEF on
  <2> QED
    BY <2>1, <2>2, Zenon DEF ProvRunning
<1>4. /\ DOMAIN members' = DOMAIN members /\ members' \in [DOMAIN members -> MemberRow]
      /\ \A n \in DOMAIN members : members'[n].runtime = members[n].runtime
      /\ \A n \in DOMAIN members \ {m} : members'[n].status = members[n].status
      /\ prov'.at # "fail" /\ m \in DOMAIN members => members'[m].status = "running"
  <2>1. CASE SetMember(m, "status", "running")
    BY <2>1, StatusSet, Zenon DEF KInv
  <2>2. CASE members' = members /\ prov'.at = "fail"
    BY <2>2, Zenon DEF KInv, ClusterTypes
  <2> HIDE DEF on
  <2>3. prov' = [at |-> "fail", on |-> m] => prov'.at = "fail"
    OBVIOUS
  <2> QED
    BY <1>3, <2>1, <2>2, <2>3, Zenon
<1>5. /\ row' \in [status : {"absent", "provisioning", "running", "error", "destroying"},
                   primary : BOOLEAN, router : BOOLEAN]
      /\ row'.status = row.status /\ row'.router = row.router
      /\ prov'.at # "fail" => (row'.primary <=> row.primary \/ m = Primary)
      /\ row' = NoRow => row = NoRow
  <2>1. CASE row' = row /\ prov'.at = "fail"
    BY <2>1, Zenon DEF KInv, ClusterTypes
  <2>2. CASE row' = [row EXCEPT !.primary = @ \/ m = Primary] /\ (m = Primary => row # NoRow)
    <3>1. row' = [status |-> row.status, primary |-> (row.primary \/ m = Primary), router |-> row.router]
      BY <2>2, Zenon DEF KInv, ClusterTypes
    <3>2. /\ row.status \in {"absent", "provisioning", "running", "error", "destroying"}
          /\ row.primary \in BOOLEAN /\ row.router \in BOOLEAN
          /\ row = [status |-> row.status, primary |-> row.primary, router |-> row.router]
      BY Zenon DEF KInv, ClusterTypes
    <3>3. /\ row'.status = row.status /\ row'.router = row.router
          /\ row'.primary <=> row.primary \/ m = Primary
      BY <3>1, Zenon
    <3>4. row' \in [status : {"absent", "provisioning", "running", "error", "destroying"},
                    primary : BOOLEAN, router : BOOLEAN]
      BY <3>1, <3>2, Zenon
    <3>5. ASSUME row' = NoRow
          PROVE  row = NoRow
      <4>1. row.status = "absent" /\ ~row.router /\ ~row.primary
        BY <3>3, <3>5, Zenon DEF NoRow
      <4>2. row.router = FALSE /\ row.primary = FALSE
        BY <3>2, <4>1, Zenon
      <4> QED
        BY <3>2, <4>1, <4>2, Zenon DEF NoRow
    <3> QED
      BY <3>3, <3>4, <3>5, Zenon
  <2> HIDE DEF on
  <2>3. prov' = [at |-> "fail", on |-> m] => prov'.at = "fail"
    OBVIOUS
  <2> QED
    BY <1>3, <2>1, <2>2, <2>3, Zenon
<1>6. /\ prov' = on \/ prov' = [at |-> "fail", on |-> m]
      /\ prov' \in [at : {"volume", "router", "fail"}, on : Members]
  <2>1. m < Replicas => m + 1 \in Members
    BY <1>2, ReplicasAssumption DEF Members
  <2> QED
    BY <1>2, <1>3, <2>1
<1>7. ClusterTypes'
  BY <1>1, <1>4, <1>5, <1>6 DEF KInv, ClusterTypes
<1>8. ASSUME destroy.at = "none"
      PROVE  Building'
  <2>1. /\ row # NoRow /\ DOMAIN members = Members /\ ~row.router /\ row.status # "running"
        /\ router.exists => "router" \in lost
    BY <1>1, <1>8, OnMember, Zenon
  <2>2. /\ containers = {n \in Members : n <= m} /\ \A n \in Members : n < m => Up(n)
        /\ m # Primary => row.primary
        /\ \A n \in containers : members[n].runtime \/ "container" \in lost
        /\ "slot" \notin lost => slots \subseteq containers
    BY <1>1, <1>8, Zenon DEF KInv, Building, Slotted
  <2> HIDE DEF m
  <2>3. ASSUME prov'.at # "fail"
        PROVE  row'.primary /\ \A n \in Members : n <= m => Up(n)'
    <3>1. row'.primary
      BY <1>5, <2>2, <2>3, Zenon
    <3>2. m \in Nat /\ Members \subseteq Nat
      BY <1>2, ReplicasAssumption DEF Members
    <3>3. members'[m].status = "running"
      BY <1>2, <1>4, <2>1, <2>3, Zenon
    <3>4. ASSUME NEW n \in Members, n < m
          PROVE  Up(n)'
      BY <1>4, <2>1, <2>2, <3>2, <3>4 DEF Up
    <3> QED
      BY <3>1, <3>2, <3>3, <3>4 DEF Up
  <2>4. \A n \in containers : members'[n].runtime \/ "container" \in lost
    BY <1>4, <2>1, <2>2, Zenon
  <2>5. row' # NoRow /\ ~row'.router /\ row'.status # "running"
    BY <1>5, <2>1, Zenon
  <2>6. CASE prov' = [at |-> "fail", on |-> m]
    BY <1>1, <1>2, <1>4, <2>1, <2>2, <2>4, <2>5, <2>6, Zenon DEF Building, Slotted
  <2>7. CASE prov' = on /\ m < Replicas
    <3>1. prov' = [at |-> "volume", on |-> m + 1]
      BY <2>7, Zenon
    <3>2. \A n \in Members : n < m + 1 <=> n <= m
      BY <1>2, ReplicasAssumption DEF Members
    <3> QED
      BY <1>1, <1>2, <1>4, <2>1, <2>2, <2>3, <2>4, <2>5, <3>1, <3>2, Zenon
      DEF Building, Slotted
  <2>8. CASE prov' = on /\ ~(m < Replicas)
    <3>1. prov' = [at |-> "router", on |-> m]
      BY <2>8, Zenon
    <3>2. m = Replicas /\ \A n \in Members : n <= m
      BY <1>2, <2>8, ReplicasAssumption DEF Members
    <3> QED
      BY <1>1, <1>2, <1>4, <2>1, <2>2, <2>3, <2>4, <2>5, <3>1, <3>2, Zenon
      DEF Building, Slotted, Complete
  <2> QED
    BY <1>6, <2>6, <2>7, <2>8, Zenon
<1> QED
  BY <1>1, <1>2, <1>4, <1>5, <1>6, <1>7, <1>8, ProvKeeps, Zenon
\* What holds once every member serves.
LEMMA OnRouter ==
    ASSUME KInv, prov.at \in {"router", "inspect", "unroute", "record", "succeed", "fail"}
    PROVE  /\ create.at = "done"
           /\ destroy.at = "none" =>
                /\ row # NoRow /\ DOMAIN members = Members
                /\ row.status = "running" => row.router
                /\ \A m \in containers : members[m].runtime \/ "container" \in lost
                /\ "slot" \notin lost => slots \subseteq containers
BY Zenon DEF KInv, Order, Building, Slotted

LEMMA CreateRouterStep == ASSUME KInv, CreateRouter \/ InspectRouter PROVE KInv'
<1>1. /\ UNCHANGED <<row, members, containers, volumes, slots, lost, create, destroy, overlap>>
      /\ prov.at \in {"router", "inspect"}
  BY Zenon DEF CreateRouter, InspectRouter, ProvStep, rows, docker
<1>2. create.at = "done" /\ prov.on \in Members
  BY <1>1, OnRouter, Zenon DEF KInv, ClusterTypes
<1>3. \/ /\ prov' = [at |-> "inspect", on |-> prov.on] /\ prov.at = "router"
         /\ router' = [exists |-> TRUE, serves |-> 0 .. prov.on]
      \/ prov' = [at |-> "fail", on |-> prov.on] /\ prov.at = "router" /\ router' = router
      \/ prov' = [at |-> "record", on |-> prov.on] /\ prov.at = "inspect" /\ router' = router
      \/ prov' = [at |-> "unroute", on |-> prov.on] /\ prov.at = "inspect" /\ router' = router
  BY ProvMoves, Zenon DEF CreateRouter, InspectRouter, ProvStep, docker, KInv
<1>4. ClusterTypes'
  <2>1. router' \in [exists : BOOLEAN, serves : SUBSET Members]
    <3>1. 0 .. prov.on \subseteq Members
      BY <1>2, ReplicasAssumption DEF Members
    <3>3. router \in [exists : BOOLEAN, serves : SUBSET Members]
      BY Zenon DEF KInv, ClusterTypes
    <3>4. [exists |-> TRUE, serves |-> 0 .. prov.on] \in [exists : BOOLEAN, serves : SUBSET Members]
      BY <3>1, Zenon
    <3>5. router' = [exists |-> TRUE, serves |-> 0 .. prov.on] \/ router' = router
      BY <1>3, Zenon
    <3> QED
      BY <3>3, <3>4, <3>5, Zenon
  <2>2. prov' \in [at : {"inspect", "unroute", "record", "fail"}, on : Members]
    BY <1>2, <1>3
  <2> QED
    BY <1>1, <2>1, <2>2 DEF KInv, ClusterTypes
<1>5. ASSUME destroy.at = "none"
      PROVE  Building'
  <2>1. /\ row # NoRow /\ DOMAIN members = Members /\ (row.status = "running" => row.router)
        /\ \A m \in containers : members[m].runtime \/ "container" \in lost
        /\ "slot" \notin lost => slots \subseteq containers
    BY <1>1, <1>5, OnRouter, Zenon
  <2>2. /\ Complete /\ prov.on = Replicas /\ ~row.router
        /\ prov.at = "router" => (router.exists => "router" \in lost)
        /\ prov.at = "inspect" => router = Full
    BY <1>1, <1>5, Zenon DEF KInv, Building, Slotted
  <2>3. Complete'
    BY <1>1, <2>2, Zenon DEF Complete, Up
  <2>4. [exists |-> TRUE, serves |-> 0 .. prov.on] = Full
    BY <2>2, Zenon DEF Full, Members
  <2>5. CASE prov' = [at |-> "inspect", on |-> prov.on] \/ prov' = [at |-> "record", on |-> prov.on]
    <3>1. router' = Full /\ prov'.at \in {"inspect", "record"} /\ prov'.on = Replicas
      <4>1. prov'.on = Replicas /\ prov'.at \in {"inspect", "record"}
        BY <2>2, <2>5
      <4>2. \/ router' = [exists |-> TRUE, serves |-> 0 .. prov.on]
            \/ prov.at = "inspect" /\ router' = router
        BY <1>3, <4>1
      <4> QED
        BY <2>2, <2>4, <4>1, <4>2, Zenon
    <3> QED
      BY <1>1, <1>2, <2>1, <2>2, <2>3, <3>1, Zenon DEF Building, Slotted
  <2>6. CASE prov' = [at |-> "fail", on |-> prov.on]
    <3>1. prov'.at = "fail" /\ (router'.exists => "router" \in lost)
      BY <1>3, <2>2, <2>6
    <3> QED
      BY <1>1, <1>2, <2>1, <2>2, <3>1, Zenon DEF Building, Slotted
  <2>7. CASE prov' = [at |-> "unroute", on |-> prov.on]
    <3>1. prov'.at = "unroute"
      BY <2>7, Zenon
    <3> QED
      BY <1>1, <1>2, <2>1, <2>2, <3>1, Zenon DEF Building, Slotted
  <2> QED
    BY <1>3, <2>5, <2>6, <2>7, Zenon
<1> QED
  BY <1>1, <1>2, <1>3, <1>4, <1>5, ProvKeeps

LEMMA RemoveRouterStep == ASSUME KInv, RemoveRouter PROVE KInv'
<1>1. /\ UNCHANGED <<row, members, containers, volumes, slots, create, destroy, overlap>>
      /\ prov.at = "unroute"
      /\ \/ router' = NoRouter /\ lost' = lost
         \/ router' = router /\ lost' = lost \cup {"router"}
  BY Zenon DEF RemoveRouter, ProvStep, rows
<1>2. create.at = "done" /\ prov.on \in Members
  BY <1>1, OnRouter, Zenon DEF KInv, ClusterTypes
<1>3. prov' = [at |-> "fail", on |-> prov.on]
  BY ProvMoves, Zenon DEF RemoveRouter, KInv
<1>4. prov'.at = "fail" /\ prov'.on = prov.on
  BY <1>3, Zenon
<1>5. ClusterTypes'
  <2>1. router' \in [exists : BOOLEAN, serves : SUBSET Members]
    <3>1. NoRouter \in [exists : BOOLEAN, serves : SUBSET Members]
      BY Zenon DEF NoRouter
    <3> QED
      BY <1>1, <3>1, Zenon DEF KInv, ClusterTypes
  <2>2. prov' \in [at : {"fail"}, on : Members]
    BY <1>2, <1>3, Zenon
  <2> QED
    BY <1>1, <2>1, <2>2 DEF KInv, ClusterTypes
<1>6. ASSUME destroy.at = "none"
      PROVE  Building'
  <2>1. /\ row # NoRow /\ DOMAIN members = Members /\ (row.status = "running" => row.router)
        /\ \A m \in containers : members[m].runtime \/ "container" \in lost
        /\ "slot" \notin lost => slots \subseteq containers
    BY <1>1, <1>6, OnRouter, Zenon
  <2>2. ~row.router
    BY <1>1, <1>6, Zenon DEF KInv, Building
  <2>3. (router'.exists => "router" \in lost') /\ lost \subseteq lost'
    <3>1. NoRouter.exists = FALSE
      BY Zenon DEF NoRouter
    <3> QED
      BY <1>1, <3>1, Zenon
  <2>4. /\ \A m \in containers : members[m].runtime \/ "container" \in lost'
        /\ "slot" \notin lost' => slots \subseteq containers
    BY <2>1, <2>3, Zenon
  <2> QED
    BY <1>1, <1>2, <1>4, <2>1, <2>2, <2>3, <2>4, Zenon DEF Building, Slotted
<1> QED
  BY <1>1, <1>2, <1>3, <1>5, <1>6, ProvKeeps

LEMMA SetRouterStep == ASSUME KInv, SetRouter PROVE KInv'
<1>1. /\ UNCHANGED <<members, containers, volumes, slots, router, create, destroy, overlap>>
      /\ prov.at = "record"
  BY Zenon DEF SetRouter, ProvStep, docker
<1>2. create.at = "done" /\ prov.on \in Members
  BY <1>1, OnRouter, Zenon DEF KInv, ClusterTypes
<1>3. \/ /\ prov' = [at |-> "succeed", on |-> prov.on] /\ lost' = lost /\ row # NoRow
         /\ row' = [status |-> row.status, primary |-> row.primary, router |-> TRUE]
      \/ /\ prov' = [at |-> "fail", on |-> prov.on] /\ row' = row
         /\ lost' = lost \cup {"router"}
  BY ProvMoves DEF SetRouter, KInv, ClusterTypes
<1>4. /\ row.status \in {"absent", "provisioning", "running", "error", "destroying"}
      /\ row.primary \in BOOLEAN
  BY Zenon DEF KInv, ClusterTypes
<1>5. /\ row' \in [status : {"absent", "provisioning", "running", "error", "destroying"},
                   primary : BOOLEAN, router : BOOLEAN]
      /\ row' = NoRow => row = NoRow
      /\ row'.primary = row.primary /\ row'.status = row.status
  <2>1. CASE row' = row
    BY <2>1, Zenon DEF KInv, ClusterTypes
  <2>2. CASE row' = [status |-> row.status, primary |-> row.primary, router |-> TRUE]
    BY <1>4, <2>2, Zenon DEF NoRow
  <2> QED
    BY <1>3, <2>1, <2>2, Zenon
<1>6. ClusterTypes'
  <2>1. prov' \in [at : {"succeed", "fail"}, on : Members]
    BY <1>2, <1>3
  <2> QED
    BY <1>1, <1>5, <2>1 DEF KInv, ClusterTypes
<1>7. ASSUME destroy.at = "none"
      PROVE  Building'
  <2>1. /\ row # NoRow /\ DOMAIN members = Members /\ (row.status = "running" => row.router)
        /\ \A m \in containers : members[m].runtime \/ "container" \in lost
        /\ "slot" \notin lost => slots \subseteq containers
    BY <1>1, <1>7, OnRouter, Zenon
  <2>2. Complete /\ prov.on = Replicas /\ ~row.router /\ router = Full
    BY <1>1, <1>7, Zenon DEF KInv, Building, Slotted
  <2>3. Complete' /\ router' = Full
    BY <1>1, <1>5, <2>2, Zenon DEF Complete, Up
  <2>4. CASE prov' = [at |-> "succeed", on |-> prov.on]
    <3>1. prov'.at = "succeed" /\ prov'.on = Replicas /\ row'.router /\ lost' = lost
      BY <1>3, <2>2, <2>4
    <3> QED
      BY <1>1, <1>2, <1>5, <2>1, <2>3, <3>1, Zenon DEF Building, Slotted
  <2>5. CASE prov' = [at |-> "fail", on |-> prov.on]
    <3>1. prov'.at = "fail" /\ row' = row /\ lost' = lost \cup {"router"}
      BY <1>3, <2>5, Zenon
    <3> QED
      BY <1>1, <1>2, <2>1, <2>2, <3>1, Zenon DEF Building, Slotted
  <2> QED
    BY <1>3, <2>4, <2>5, Zenon
<1> QED
  BY <1>1, <1>2, <1>3, <1>5, <1>6, <1>7, ProvKeeps

LEMMA ProvEndStep == ASSUME KInv, ProvEnd PROVE KInv'
<1>1. /\ UNCHANGED <<members, containers, volumes, slots, router, create, destroy, overlap>>
      /\ prov.at \in {"succeed", "fail"} /\ lost \subseteq lost' /\ lost' \subseteq lost \cup {"status"}
  BY Zenon DEF ProvEnd, docker
<1>2. create.at = "done" /\ prov.on \in Members
  BY <1>1, OnRouter, Zenon DEF KInv, ClusterTypes
<1>3. prov' = [at |-> "done", on |-> prov.on]
  BY ProvMoves, Zenon DEF ProvEnd, KInv
<1>4. /\ row' \in [status : {"absent", "provisioning", "running", "error", "destroying"},
                   primary : BOOLEAN, router : BOOLEAN]
      /\ row' = NoRow => row = NoRow
      /\ row'.primary = row.primary /\ row'.router = row.router
      /\ row # NoRow /\ row'.status = "running" => prov.at = "succeed" \/ row.status = "running"
  <2>1. CASE row' = row
    BY <2>1, Zenon DEF KInv, ClusterTypes
  <2>2. CASE SetStatus("running") /\ prov.at = "succeed"
    BY <2>2, RowSet, Zenon DEF KInv
  <2>3. CASE SetStatus("error")
    BY <2>3, RowSet, Zenon DEF KInv
  <2> QED
    BY <1>1, <2>1, <2>2, <2>3, Zenon DEF ProvEnd
<1>5. ClusterTypes'
  BY <1>1, <1>2, <1>3, <1>4 DEF KInv, ClusterTypes
<1>6. ASSUME destroy.at = "none"
      PROVE  Building'
  <2>1. /\ row # NoRow /\ DOMAIN members = Members /\ (row.status = "running" => row.router)
        /\ \A m \in containers : members[m].runtime \/ "container" \in lost
        /\ "slot" \notin lost => slots \subseteq containers
    BY <1>1, <1>6, OnRouter, Zenon
  <2>2. /\ prov.at = "succeed" => row.router
        /\ row.router => Complete /\ router = Full
        /\ router.exists => row.router \/ "router" \in lost
    BY <1>1, <1>6, Zenon DEF KInv, Building, Slotted
  <2>3. row'.router => Complete' /\ router' = Full
    BY <1>1, <1>4, <2>2, Zenon DEF Complete, Up
  <2>4. prov'.at = "done"
    BY <1>3, Zenon
  <2> QED
    BY <1>1, <1>2, <1>4, <2>1, <2>2, <2>3, <2>4, Zenon DEF Building, Slotted
<1> QED
  BY <1>1, <1>2, <1>3, <1>4, <1>5, <1>6, ProvKeeps, Zenon
-----------------------------------------------------------------------------
\* A step of Destroy: types, and what is left, have to be shown; the rest only
\* where the cluster's rows or marks change.
LEMMA DestroyKeeps ==
    ASSUME KInv, destroy'.at # "none", UNCHANGED <<create, prov, overlap>>, destroy.at # "none",
           row' = NoRow => DOMAIN members' = {}, row' = NoRow \/ row # NoRow, lost \subseteq lost',
           containers' \subseteq containers, volumes' \subseteq volumes, slots' \subseteq slots,
           router' = router \/ router' = NoRouter,
           row'.router => row.router, row'.status = "running" => row.status = "running",
           ClusterTypes', ~overlap => Wrecking'
    PROVE  KInv'
<1>1. Order'
  BY Zenon DEF KInv, Order
<1> QED
  BY <1>1, Zenon DEF KInv

LEMMA DestroyBeginStep == ASSUME KInv, DestroyBegin PROVE KInv'
<1>1. /\ UNCHANGED <<members, containers, volumes, slots, router, create, prov>>
      /\ destroy.at \in {"none", "failed"} /\ row # NoRow /\ lost \subseteq lost'
      /\ overlap' = (overlap \/ create.at \in {"members", "rollback"}
                             \/ (create.at = "done" /\ prov.at # "done"))
  BY Zenon DEF DestroyBegin, docker
<1>2. destroy' = [at |-> "router", todo |-> destroy.todo, router |-> row.router, has |-> destroy.has]
  BY Zenon DEF DestroyBegin, KInv, ClusterTypes
<1>3. /\ row' \in [status : {"absent", "provisioning", "running", "error", "destroying"},
                   primary : BOOLEAN, router : BOOLEAN]
      /\ row' # NoRow /\ row'.router = row.router
      /\ \/ row'.status = "destroying"
         \/ row' = row /\ "mark" \in lost'
  <2>1. CASE row' = row /\ "mark" \in lost'
    BY <1>1, <2>1, Zenon DEF KInv, ClusterTypes
  <2>2. CASE SetStatus("destroying")
    BY <1>1, <2>2, RowSet, Zenon DEF KInv
  <2> QED
    BY <2>1, <2>2, Zenon DEF DestroyBegin
<1>4. ClusterTypes'
  <2>1. row.router \in BOOLEAN /\ destroy.todo \in SUBSET Members /\ destroy.has \in BOOLEAN
    BY Zenon DEF KInv, ClusterTypes
  <2>2. destroy' \in [at : {"router"}, todo : SUBSET Members, router : BOOLEAN, has : BOOLEAN]
    BY <1>2, <2>1, Zenon
  <2>3. overlap' \in BOOLEAN
    BY <1>1, Zenon
  <2> QED
    BY <1>1, <1>3, <2>2, <2>3 DEF KInv, ClusterTypes
<1>5. destroy'.at = "router" /\ destroy'.router = row.router
  BY <1>2, Zenon
<1>6. Order'
  <2>1. create.at # "start"
    BY <1>1, Zenon DEF KInv, Order
  <2>2. ~overlap' => create.at \in {"failed", "done"} /\ (create.at = "done" => prov.at = "done")
    BY <1>1, <2>1, Zenon DEF KInv, ClusterTypes
  <2>3. row'.status = "running" => row.status = "running"
    BY <1>3, Zenon
  <2>4. create.at = "failed" => "rows" \in lost'
    BY <1>1, Zenon DEF KInv, Order
  <2> QED
    BY <1>1, <1>3, <1>5, <2>1, <2>2, <2>3, <2>4, Zenon DEF KInv, Order
<1>7. ASSUME ~overlap'
      PROVE  Wrecking'
  <2>1. ~overlap /\ create.at \in {"failed", "done"} /\ (create.at = "done" => prov.at = "done")
    <3>1. create.at # "start"
      BY <1>1, Zenon DEF KInv, Order
    <3> QED
      BY <1>1, <1>7, <3>1, Zenon DEF KInv, ClusterTypes
  <2>2. /\ containers \subseteq DOMAIN members /\ volumes \subseteq DOMAIN members
        /\ slots # {} => Primary \in DOMAIN members
        /\ router.exists => row.router \/ "router" \in lost
    <3>1. CASE create.at = "failed"
      <4>1. prov.at = "start"
        BY <3>1, Zenon DEF KInv, Order
      <4> QED
        BY <4>1 DEF KInv, Order, NoRouter
    <3>2. CASE create.at = "done" /\ destroy.at = "none"
      <4>1. Primary \in Members
        BY ReplicasAssumption DEF Members, Primary
      <4> QED
        BY <2>1, <3>2, <4>1, Zenon DEF KInv, ClusterTypes, Building
    <3>3. CASE destroy.at = "failed"
      BY <2>1, <3>3, Zenon DEF KInv, Wrecking
    <3> QED
      BY <1>1, <2>1, <3>1, <3>2, <3>3, Zenon
  <2> QED
    BY <1>1, <1>3, <1>5, <2>2, Zenon DEF Wrecking
<1> QED
  BY <1>4, <1>5, <1>6, <1>7, Zenon DEF KInv
LEMMA DestroyRouterStep == ASSUME KInv, DestroyRouter PROVE KInv'
<1> DEFINE has == Primary \in DOMAIN members /\ members[Primary].runtime
<1>1. /\ UNCHANGED <<row, members, containers, volumes, slots, create, prov, overlap>>
      /\ destroy.at = "router" /\ lost \subseteq lost'
  BY Zenon DEF DestroyRouter, DestroyStep, rows
<1>2. \/ destroy' = [at |-> "member", todo |-> DOMAIN members, router |-> destroy.router, has |-> has]
      \/ destroy' = [at |-> "failed", todo |-> destroy.todo, router |-> destroy.router,
                     has |-> destroy.has]
  BY ZenonT(30) DEF DestroyRouter, Again, KInv, ClusterTypes
<1>3. \/ router' = (IF destroy.router THEN NoRouter ELSE router)
      \/ router' = router /\ "router" \in lost'
  BY Zenon DEF DestroyRouter
<1>4. /\ destroy.router \in BOOLEAN /\ destroy.has \in BOOLEAN /\ has \in BOOLEAN
      /\ destroy.todo \in SUBSET Members /\ DOMAIN members \in SUBSET Members
      /\ router \in [exists : BOOLEAN, serves : SUBSET Members]
  BY Zenon DEF KInv, ClusterTypes, MemberRow
<1> HIDE DEF has
<1>5. destroy' \in [at : {"member", "failed"}, todo : SUBSET Members, router : BOOLEAN, has : BOOLEAN]
  BY <1>2, <1>4
<1>6. (router' = router \/ router' = NoRouter)
      /\ router' \in [exists : BOOLEAN, serves : SUBSET Members]
  <2>1. NoRouter \in [exists : BOOLEAN, serves : SUBSET Members]
    BY Zenon DEF NoRouter
  <2> QED
    BY <1>3, <1>4, <2>1, Zenon
<1>7. ClusterTypes'
  BY <1>1, <1>5, <1>6 DEF KInv, ClusterTypes
<1>8. ASSUME ~overlap
      PROVE  Wrecking'
  <2>1. Wrecking
    BY <1>1, <1>8, Zenon DEF KInv
  <2>2. router'.exists => "router" \in lost'
    BY <1>1, <1>3, <2>1 DEF Wrecking, NoRouter
  <2>3. destroy'.at \in {"member", "failed"} /\ (destroy'.at = "member" => destroy'.todo = DOMAIN members)
    BY <1>2
  <2> QED
    BY <1>1, <2>1, <2>2, <2>3, Zenon DEF Wrecking
<1>9. row = NoRow => DOMAIN members = {}
  BY Zenon DEF KInv, Order
<1> QED
  BY <1>1, <1>5, <1>6, <1>7, <1>8, <1>9, DestroyKeeps, Zenon

LEMMA DestroyRowStep == ASSUME KInv, DestroyRow PROVE KInv'
<1>1. /\ UNCHANGED <<containers, volumes, slots, router, create, prov, overlap, lost>>
      /\ destroy.at = "delete"
  BY Zenon DEF DestroyRow, DestroyStep, docker
<1>2. \/ /\ destroy' = [at |-> "done", todo |-> destroy.todo, router |-> destroy.router,
                        has |-> destroy.has]
         /\ row' = NoRow /\ DOMAIN members' = {} /\ members' \in [{} -> MemberRow]
      \/ /\ destroy' = [at |-> "failed", todo |-> destroy.todo, router |-> destroy.router,
                        has |-> destroy.has]
         /\ row' = row /\ members' = members
  BY ZenonT(30) DEF DestroyRow, Again, rows, KInv, ClusterTypes
<1>3. destroy.router \in BOOLEAN /\ destroy.has \in BOOLEAN /\ destroy.todo \in SUBSET Members
  BY Zenon DEF KInv, ClusterTypes
<1>4. destroy' \in [at : {"done", "failed"}, todo : SUBSET Members, router : BOOLEAN, has : BOOLEAN]
  BY <1>2, <1>3
<1>5. /\ row' \in [status : {"absent", "provisioning", "running", "error", "destroying"},
                   primary : BOOLEAN, router : BOOLEAN]
      /\ members' \in [DOMAIN members' -> MemberRow] /\ DOMAIN members' \subseteq Members
      /\ row'.router => row.router
      /\ row'.status = "running" => row.status = "running"
  <2>1. CASE row' = row /\ members' = members
    BY <2>1, Zenon DEF KInv, ClusterTypes
  <2>2. CASE row' = NoRow /\ DOMAIN members' = {} /\ members' \in [{} -> MemberRow]
    BY <2>2, Zenon DEF NoRow
  <2> QED
    BY <1>2, <2>1, <2>2, Zenon
<1>6. ClusterTypes'
  BY <1>1, <1>4, <1>5 DEF KInv, ClusterTypes
<1>7. ASSUME ~overlap
      PROVE  Wrecking'
  <2>1. /\ DOMAIN members = {} /\ containers = {} /\ volumes = {} /\ slots = {}
        /\ router.exists => "router" \in lost
        /\ "mark" \notin lost => row.status # "running"
    BY <1>1, <1>7, Zenon DEF KInv, Wrecking
  <2>2. destroy'.at \in {"done", "failed"} /\ (destroy'.at = "done" => row' = NoRow)
    BY <1>2
  <2> QED
    BY <1>1, <1>5, <2>1, <2>2, Zenon DEF Wrecking
<1>8. (row' = NoRow => DOMAIN members' = {}) /\ (row' = NoRow \/ row # NoRow)
  BY <1>2, Zenon DEF KInv, Order
<1> QED
  BY <1>1, <1>4, <1>5, <1>6, <1>7, <1>8, DestroyKeeps, Zenon
\* The slots a member's removal leaves are slots that were there.
LEMMA SlotsFewer == ASSUME NEW m PROVE SlotsWithout(m) \subseteq slots
BY Zenon DEF SlotsWithout

\* The member is gone with all it had, or its row stays and Destroy gives up.
LEMMA DestroyMemberStep == ASSUME KInv, DestroyMember PROVE KInv'
<1> DEFINE m == Max(destroy.todo)
           gone(at, todo) == [at |-> at, todo |-> todo, router |-> destroy.router, has |-> destroy.has]
<1>1. UNCHANGED <<router, create, prov, overlap, lost>> /\ destroy.at = "member"
  BY Zenon DEF DestroyMember, DestroyStep
<1>2. \/ /\ destroy.todo = {} /\ destroy' = gone("delete", destroy.todo)
         /\ UNCHANGED <<row, members, containers, volumes, slots>>
      \/ /\ destroy.todo # {} /\ m \in DOMAIN members /\ (m \in containers => members[m].runtime)
         /\ Remove(m) /\ destroy' = gone("member", destroy.todo \ {m}) /\ row' = row
      \/ /\ destroy.todo # {} /\ destroy' = gone("failed", destroy.todo)
         /\ SetStatus("error") \/ row' = row
         /\ SetMember(m, "status", "error")
         /\ containers' \subseteq containers /\ volumes' \subseteq volumes /\ slots' \subseteq slots
  <2> HIDE DEF m
  <2>1. /\ destroy' = Again => destroy' = gone("failed", destroy.todo)
        /\ destroy' = [destroy EXCEPT !.at = "delete"] => destroy' = gone("delete", destroy.todo)
        /\ destroy' = [destroy EXCEPT !.todo = @ \ {m}] => destroy' = gone("member", destroy.todo \ {m})
    BY <1>1 DEF Again, KInv, ClusterTypes
  <2> HIDE DEF gone
  <2>2. SlotsWithout(m) \subseteq slots
    BY SlotsFewer, Zenon
  <2>3. containers \ Recorded(m) \subseteq containers /\ volumes \ {m} \subseteq volumes
    OBVIOUS
  <2> QED
    BY <2>1, <2>2, <2>3, Zenon DEF DestroyMember, rows, m
<1>3. /\ destroy.router \in BOOLEAN /\ destroy.has \in BOOLEAN /\ destroy.todo \in SUBSET Members
      /\ containers \subseteq Members /\ volumes \subseteq Members
      /\ slots \subseteq Members \ {Primary} /\ DOMAIN members \subseteq Members
      /\ row = NoRow => DOMAIN members = {}
  BY Zenon DEF KInv, ClusterTypes, Order
<1>4. ASSUME destroy.todo # {}
      PROVE  m \in destroy.todo
  BY <1>3, <1>4, Greatest, ReplicasAssumption, Zenon DEF Members
<1> HIDE DEF m
<1>5. CASE /\ destroy.todo = {} /\ destroy' = gone("delete", destroy.todo)
           /\ UNCHANGED <<row, members, containers, volumes, slots>>
  <2>1. destroy' \in [at : {"delete"}, todo : SUBSET Members, router : BOOLEAN, has : BOOLEAN]
    BY <1>3, <1>5, Zenon
  <2>2. ClusterTypes'
    BY <1>1, <1>5, <2>1 DEF KInv, ClusterTypes
  <2>3. ASSUME ~overlap
        PROVE  Wrecking'
    BY <1>1, <1>5, <2>1, <2>3, Zenon DEF KInv, Wrecking
  <2> QED
    BY <1>1, <1>3, <1>5, <2>1, <2>2, <2>3, DestroyKeeps, Zenon DEF Order
<1>6. CASE /\ destroy.todo # {} /\ m \in DOMAIN members /\ (m \in containers => members[m].runtime)
           /\ Remove(m) /\ destroy' = gone("member", destroy.todo \ {m}) /\ row' = row
  <2>1. /\ destroy' \in [at : {"member"}, todo : SUBSET Members, router : BOOLEAN, has : BOOLEAN]
        /\ destroy'.todo = destroy.todo \ {m}
    BY <1>3, <1>6, Zenon
  <2>2. /\ DOMAIN members' = DOMAIN members \ {m}
        /\ \A n \in DOMAIN members \ {m} : members'[n] = members[n]
        /\ members' \in [DOMAIN members \ {m} -> MemberRow]
    BY <1>6, Zenon DEF Remove, KInv, ClusterTypes
  <2>3. /\ containers' = containers \ {m} /\ volumes' = volumes \ {m} /\ slots' \subseteq slots
        /\ m = Primary => slots' = {}
    <3>1. m \in containers => Recorded(m) = {m}
      BY <1>6, Zenon DEF Recorded
    <3>2. Recorded(m) \subseteq {m}
      BY Zenon DEF Recorded
    <3>3. SlotsWithout(m) \subseteq slots
      BY SlotsFewer, Zenon
    <3> QED
      BY <1>6, <3>1, <3>2, <3>3, Zenon DEF Remove
  <2>4. ClusterTypes'
    BY <1>1, <1>3, <1>6, <2>1, <2>2, <2>3 DEF KInv, ClusterTypes
  <2>5. ASSUME ~overlap
        PROVE  Wrecking'
    BY <1>1, <1>6, <2>1, <2>2, <2>3, <2>5, Zenon DEF KInv, Wrecking
  <2>6. row # NoRow
    BY <1>3, <1>6, Zenon
  <2> QED
    BY <1>1, <1>6, <2>1, <2>3, <2>4, <2>5, <2>6, DestroyKeeps, Zenon
<1>7. CASE /\ destroy.todo # {} /\ destroy' = gone("failed", destroy.todo)
           /\ SetStatus("error") \/ row' = row
           /\ SetMember(m, "status", "error")
           /\ containers' \subseteq containers /\ volumes' \subseteq volumes /\ slots' \subseteq slots
  <2>1. destroy' \in [at : {"failed"}, todo : SUBSET Members, router : BOOLEAN, has : BOOLEAN]
    BY <1>3, <1>7, Zenon
  <2>2. /\ DOMAIN members' = DOMAIN members /\ members' \in [DOMAIN members -> MemberRow]
        /\ \A n \in DOMAIN members : members'[n].runtime = members[n].runtime
    BY <1>7, StatusSet, Zenon DEF KInv
  <2>3. /\ row' \in [status : {"absent", "provisioning", "running", "error", "destroying"},
                     primary : BOOLEAN, router : BOOLEAN]
        /\ row' = NoRow <=> row = NoRow
        /\ row'.router = row.router
        /\ row'.status = "running" => row.status = "running"
    <3>1. CASE row' = row
      BY <3>1, Zenon DEF KInv, ClusterTypes
    <3>2. CASE SetStatus("error")
      <4>1. row = NoRow => row' = row
        BY <3>2, Zenon DEF SetStatus
      <4> QED
        BY <3>2, <4>1, RowSet, Zenon DEF KInv
    <3> QED
      BY <1>7, <3>1, <3>2, Zenon
  <2>4. ClusterTypes'
    BY <1>1, <1>3, <1>7, <2>1, <2>2, <2>3 DEF KInv, ClusterTypes
  <2>5. ASSUME ~overlap
        PROVE  Wrecking'
    BY <1>1, <1>7, <2>1, <2>2, <2>3, <2>5, Zenon DEF KInv, Wrecking
  <2> QED
    BY <1>1, <1>3, <1>7, <2>1, <2>2, <2>3, <2>4, <2>5, DestroyKeeps, Zenon
<1> QED
  BY <1>2, <1>5, <1>6, <1>7, Zenon
-----------------------------------------------------------------------------
LEMMA KInit == ASSUME ClustersInit PROVE KInv
<1>1. NoRow \in [status : {"absent", "provisioning", "running", "error", "destroying"},
                 primary : BOOLEAN, router : BOOLEAN]
  BY Zenon DEF NoRow
<1>2. Primary \in Members /\ Primary \in Nat
  BY ReplicasAssumption DEF Primary, Members
<1>3. ClusterTypes
  BY <1>1, <1>2, Zenon DEF ClustersInit, ClusterTypes, NoRouter
<1>4. Order
  BY Zenon DEF ClustersInit, Order, NoRow, NoRouter
<1>5. Building
  BY Zenon DEF ClustersInit, Building, NoRow, NoRouter
<1> QED
  BY <1>3, <1>4, <1>5, Zenon DEF KInv, ClustersInit

LEMMA KStutter == ASSUME KInv, UNCHANGED clusters PROVE KInv'
<1>1. UNCHANGED <<row, members, containers, volumes, slots, router, create, prov, destroy,
                  overlap, lost>>
  BY Zenon DEF clusters
<1>2. ClusterTypes' /\ Order'
  BY <1>1 DEF KInv, ClusterTypes, Order
<1>3. destroy.at = "none" => Building'
  BY <1>1, Zenon DEF KInv, Building, Complete, Up
<1>4. destroy.at # "none" /\ ~overlap => Wrecking'
  BY <1>1, Zenon DEF KInv, Wrecking
<1> QED
  BY <1>1, <1>2, <1>3, <1>4, Zenon DEF KInv

LEMMA KNext == ASSUME KInv, [ClustersNext]_clusters PROVE KInv'
BY KStutter, InsertClusterStep, InsertMemberStep, RollbackStep, ProvBeginStep,
   ProvVolumeStep,
   ProvContainerStep, ProvReadyStep, ProvRunningStep,
   UndoContainerStep, UndoVolumeStep, UndoSlotStep, ProvMarkStep,
   CreateRouterStep, RemoveRouterStep,
   SetRouterStep, ProvEndStep, DestroyBeginStep, DestroyRouterStep,
   DestroyMemberStep,
   DestroyRowStep, Zenon
   DEF ClustersNext, Create, Provision, Destroy

LEMMA ClusterInvariant == ClustersSpec => []KInv
BY KInit, KNext, PTL DEF ClustersSpec

\* Types of the clusters' state, and that no member outlives the row of its cluster.
THEOREM ClustersTyped == ClustersSpec => []ClustersTypeOK
<1>1. KInv => ClustersTypeOK
  BY Zenon DEF KInv, ClusterTypes, Order, ClustersTypeOK
<1> QED
  BY <1>1, ClusterInvariant, PTL

\* For any number of replicas and of failing calls, a status of "running" and a
\* connection string are given out only for a cluster all of which serves, whatever
\* Create, Provision and Destroy do in between.
THEOREM ClustersShown == ClustersSpec => []ShownIsComplete
<1>1. KInv => RunningIsComplete
  <2> SUFFICES ASSUME KInv, row.status = "running", ~overlap, "mark" \notin lost
               PROVE  /\ row.primary /\ row.router /\ router = Full
                      /\ containers = Members /\ \A m \in Members : members[m].status = "running"
    BY Zenon DEF RunningIsComplete, Full
  <2>1. destroy.at = "none"
    BY Zenon DEF KInv, Wrecking
  <2> QED
    BY <2>1, Zenon DEF KInv, Building, Complete, Up
<1>2. KInv => ConnectionServes
  BY Zenon DEF KInv, Building, Complete, ConnectionServes, ConnectionDSN, Full
<1> QED
  BY <1>1, <1>2, ClusterInvariant, PTL DEF ShownIsComplete

\* A failed Create, a failed Provision and a Destroy that succeeded leave nothing no
\* row accounts for, however many calls fail: only the failure of the very call
\* that removes or records a thing, whose error is dropped, or a Destroy that ran
\* beside Create or Provision leaves it.
THEOREM ClustersAccounted == ClustersSpec => []NothingOrphaned
<1>1. KInv => CreateAllOrNothing
  BY Zenon DEF KInv, Order, CreateAllOrNothing
<1>2. KInv => ProvisionAccounts
  BY Zenon DEF KInv, Building, Slotted, ProvisionAccounts
<1>3. KInv => DestroyLeavesNothing
  BY Zenon DEF KInv, Order, Wrecking, DestroyLeavesNothing
<1> QED
  BY <1>1, <1>2, <1>3, ClusterInvariant, PTL DEF NothingOrphaned
=============================================================================
