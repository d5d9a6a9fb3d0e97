---------------------------- MODULE SnapshotStore ----------------------------
(***************************************************************************)
(* The prefix snapshots on disk (deepstrix-server/snapshot.rs) as the      *)
(* scheduler uses them: save (write aside, rename into place), the index   *)
(* with its two eviction rules, load after a restart, restore.             *)
(*                                                                         *)
(* A process is its pid, which a restarted container uses again.  Several  *)
(* may live at once: an overlapping restart's old server still saves while *)
(* the new one has loaded.  A directory is whole, torn (its meta.json with *)
(* blobs missing), rest (no meta.json) or absent; kind, used and sess are  *)
(* what its meta.json says, blobs what its blobs were saved as.  A         *)
(* checkpoint ("ckpt") has empty decoder rings.  The hints session_to_hash *)
(* only choose what is probed first: here a request probes any entry of    *)
(* the index.  Formats and fingerprints of other builds, which load skips  *)
(* or deletes, are left out.                                               *)
(***************************************************************************)
EXTENDS Naturals, Sequences, FiniteSets, Functions, SeqFilter

CONSTANTS
  Keys,           \* hashes, ordered
  Pids, Sessions, Nobody, Left,
  CapBytes,       \* cap_bytes
  PerLineage,     \* max_per_lineage
  Worlds          \* what may happen: what each process that runs may save
                  \* (<<key, kind, session>>), do two ever overlap, which faults,
                  \* and a bound on the clock, in seconds

Kinds == {"full", "ckpt"}

\* a file that cannot be written, a rename or a removal that fails, a restore that
\* fails although the snapshot is whole, a process that dies while it removes a
\* directory or between the two renames of a commit
AllFaults == {"write", "aside", "commit", "back", "remove", "touch", "read", "cut", "crashAside"}

ASSUME SnapshotAssumption ==
  /\ Keys \subseteq Nat /\ IsFiniteSet(Keys) /\ CapBytes \in Nat /\ PerLineage \in Nat \ {0}
  /\ Nobody \notin Pids \cup Sessions \cup {Left} /\ Left \notin Pids
  /\ \A w \in Worlds : /\ w.overlap \in BOOLEAN /\ w.faults \subseteq AllFaults /\ w.maxNow \in Nat
                        /\ DOMAIN w.work \subseteq Pids

VARIABLES
  world,          \* the one of Worlds this behaviour is in
  now,            \* unix_now
  disk,           \* the directory under each key
  tmp, old,       \* each process's .tmp- and .old- directory of each key
  alive,          \* live processes
  index,          \* each live process's SnapshotIndex
  pc,             \* what each process is doing
  owner           \* who committed or loaded a snapshot last, Left once it died,
                  \* Nobody if there is none or it was evicted (ghost)

vars == <<world, now, disk, tmp, old, alive, index, pc, owner>>

Fault(f) == f \in world.faults

Bytes(kind) == IF kind = "full" THEN 2 ELSE 1

NoDir == [state |-> "none"]
Rest == [state |-> "rest"]
Dir(kind, used, sess) ==
  [state |-> "whole", kind |-> kind, used |-> used, sess |-> sess, blobs |-> kind]
Whole(d) == d.state = "whole"
HasMeta(d) == d.state \in {"whole", "torn"}
\* what remove_dir_all leaves when it fails or is cut short
Remains(d) == {d, Rest} \cup IF HasMeta(d) THEN {[d EXCEPT !.state = "torn"]} ELSE {}
\* what an attempt to remove d may leave
Removed(d) == {NoDir} \cup IF Fault("remove") /\ d # NoDir THEN Remains(d) ELSE {}

NoEntry == [used |-> 0, sess |-> Nobody, bytes |-> 0]
Entry(kind, used, sess) == [used |-> used, sess |-> sess, bytes |-> Bytes(kind)]
Empty == [ent |-> [k \in Keys |-> NoEntry], byUsed |-> {},
          bySess |-> [s \in Sessions |-> <<>>], bytes |-> 0]
Held(ix) == {k \in Keys : ix.ent[k] # NoEntry}

Idle == [at |-> "idle"]
At(p, where) == p \in alive /\ pc[p].at = where
Goto(p, where) == pc' = [pc EXCEPT ![p].at = where]
Rests(p) == pc' = [pc EXCEPT ![p] = Idle]

Init ==
  /\ world \in Worlds /\ now = 0
  /\ disk = [k \in Keys |-> NoDir]
  /\ tmp = [p \in Pids |-> [k \in Keys |-> NoDir]] /\ old = tmp
  /\ alive = {} /\ index = [p \in Pids |-> Empty] /\ pc = [p \in Pids |-> Idle]
  /\ owner = [k \in Keys |-> Nobody]

Tick == now < world.maxNow /\ now' = now + 1
        /\ UNCHANGED <<world, disk, tmp, old, alive, index, pc, owner>>

-----------------------------------------------------------------------------
(* The index of one process. *)

\* the entry of k leaves every map
Dropped(ix, k) ==
  LET e == ix.ent[k] IN
  IF e = NoEntry THEN ix
  ELSE [ent |-> [ix.ent EXCEPT ![k] = NoEntry],
        byUsed |-> ix.byUsed \ {<<e.used, k>>},
        bySess |-> IF e.sess = Nobody THEN ix.bySess
                   ELSE [ix.bySess EXCEPT ![e.sess] = Without(@, {k})],
        bytes |-> ix.bytes - e.bytes]

BugAdded(ix, k, e) ==
  [ent |-> [ix.ent EXCEPT ![k] = e],
   byUsed |-> ix.byUsed \cup {<<e.used, k>>},
   bySess |-> IF e.sess = Nobody THEN ix.bySess
              ELSE [ix.bySess EXCEPT ![e.sess] = Append(@, k)],
   bytes |-> ix.bytes + e.bytes]

\* insert: a record of the same key is replaced
Added(ix, k, e) ==
  LET x == Dropped(ix, k) IN
  [ent |-> [x.ent EXCEPT ![k] = e],
   byUsed |-> x.byUsed \cup {<<e.used, k>>},
   bySess |-> IF e.sess = Nobody THEN x.bySess
              ELSE [x.bySess EXCEPT ![e.sess] = Append(@, k)],
   bytes |-> x.bytes + e.bytes]

Touched(ix, k) ==
  IF ix.ent[k] = NoEntry THEN ix
  ELSE [ix EXCEPT !.ent[k].used = now,
                  !.byUsed = (@ \ {<<ix.ent[k].used, k>>}) \cup {<<now, k>>}]

BugOldest(ix, s) == LET seq == ix.bySess[s] IN seq[Len(seq)]

\* the least recently used of a lineage, the first of several
Oldest(ix, s) ==
  LET seq == ix.bySess[s]
      first == CHOOSE i \in DOMAIN seq : \A j \in DOMAIN seq :
                 \/ ix.ent[seq[i]].used < ix.ent[seq[j]].used
                 \/ ix.ent[seq[i]].used = ix.ent[seq[j]].used /\ i <= j
  IN seq[first]

\* the first of by_last_used
LeastRecent(ix) ==
  LET first == CHOOSE u \in ix.byUsed : \A v \in ix.byUsed :
                 u[1] < v[1] \/ (u[1] = v[1] /\ u[2] <= v[2])
  IN first[2]

-----------------------------------------------------------------------------
(* save: the files are written aside, then the directory is renamed. *)

StartSave(p, k, kind, s) ==
  /\ At(p, "idle") /\ <<k, kind, s>> \in world.work[p]
  /\ pc' = [pc EXCEPT ![p] = [at |-> "write", key |-> k, kind |-> kind, sess |-> s,
                              used |-> 0, moved |-> FALSE]]
  /\ tmp' = [tmp EXCEPT ![p][k] = Rest]
  /\ UNCHANGED <<world, now, disk, old, alive, index, owner>>

\* meta.json is written last
WriteFiles(p) ==
  /\ At(p, "write")
  /\ LET c == pc[p] IN
     /\ tmp' = [tmp EXCEPT ![p][c.key] = Dir(c.kind, now, c.sess)]
     /\ pc' = [pc EXCEPT ![p].at = "check", ![p].used = now]
  /\ UNCHANGED <<world, now, disk, old, alive, index, owner>>

\* the save is given up
GiveUp(p) ==
  /\ \E left \in Removed(tmp[p][pc[p].key]) : tmp' = [tmp EXCEPT ![p][pc[p].key] = left]
  /\ Rests(p)

WriteFails(p) ==
  /\ Fault("write") /\ At(p, "write") /\ GiveUp(p)
  /\ UNCHANGED <<world, now, disk, old, alive, index, owner>>

\* commit_dir: is there a snapshot to move aside?
CheckDir(p) ==
  /\ At(p, "check")
  /\ IF disk[pc[p].key] = NoDir
     THEN Goto(p, "in") /\ UNCHANGED old
     ELSE /\ Goto(p, "aside")
          /\ \E left \in Removed(old[p][pc[p].key]) : old' = [old EXCEPT ![p][pc[p].key] = left]
  /\ UNCHANGED <<world, now, disk, tmp, alive, index, owner>>

MoveAside(p) ==
  /\ At(p, "aside")
  /\ LET k == pc[p].key IN
     /\ disk[k] # NoDir /\ old[p][k] = NoDir
     /\ old' = [old EXCEPT ![p][k] = disk[k]]
     /\ disk' = [disk EXCEPT ![k] = NoDir]
  /\ pc' = [pc EXCEPT ![p].at = "in", ![p].moved = TRUE]
  /\ UNCHANGED <<world, now, tmp, alive, index, owner>>

\* a rename fails on its own, for want of a source, or because a directory is
\* in the way
AsideFails(p) ==
  /\ At(p, "aside")
  /\ Fault("aside") \/ disk[pc[p].key] = NoDir \/ old[p][pc[p].key] # NoDir
  /\ GiveUp(p)
  /\ UNCHANGED <<world, now, disk, old, alive, index, owner>>

MoveIn(p) ==
  /\ At(p, "in")
  /\ LET k == pc[p].key IN
     /\ disk[k] = NoDir /\ tmp[p][k] # NoDir
     /\ disk' = [disk EXCEPT ![k] = tmp[p][k]]
     /\ tmp' = [tmp EXCEPT ![p][k] = NoDir]
     /\ owner' = [owner EXCEPT ![k] = p]
  /\ Goto(p, IF pc[p].moved THEN "clean" ELSE "insert")
  /\ UNCHANGED <<world, now, old, alive, index>>

InFails(p) ==
  /\ At(p, "in")
  /\ Fault("commit") \/ disk[pc[p].key] # NoDir \/ tmp[p][pc[p].key] = NoDir
  /\ IF pc[p].moved THEN Goto(p, "back") /\ UNCHANGED tmp ELSE GiveUp(p)
  /\ UNCHANGED <<world, now, disk, old, alive, index, owner>>

PutBack(p) ==
  /\ At(p, "back")
  /\ LET k == pc[p].key IN
     \/ /\ disk[k] = NoDir /\ old[p][k] # NoDir
        /\ disk' = [disk EXCEPT ![k] = old[p][k]]
        /\ old' = [old EXCEPT ![p][k] = NoDir]
     \/ /\ Fault("back") \/ disk[k] # NoDir \/ old[p][k] = NoDir
        /\ UNCHANGED <<disk, old>>
  /\ GiveUp(p)
  /\ UNCHANGED <<world, now, alive, index, owner>>

RemoveOld(p) ==
  /\ At(p, "clean")
  /\ \E left \in Removed(old[p][pc[p].key]) : old' = [old EXCEPT ![p][pc[p].key] = left]
  /\ Goto(p, "insert")
  /\ UNCHANGED <<world, now, disk, tmp, alive, index, owner>>

Insert(p) ==
  /\ At(p, "insert")
  /\ LET c == pc[p] IN
     /\ index' = [index EXCEPT ![p] = Added(@, c.key, Entry(c.kind, c.used, c.sess))]
     /\ Goto(p, IF c.sess = Nobody THEN "fit" ELSE "lineage")
  /\ UNCHANGED <<world, now, disk, tmp, old, alive, owner>>

-----------------------------------------------------------------------------
(* Eviction: remove_entry takes an entry out of the maps and deletes its   *)
(* directory.                                                              *)

BugRemoveEntry(p, k) ==
  /\ index' = [index EXCEPT ![p] = Dropped(@, k)]
  /\ owner' = [owner EXCEPT ![k] = Nobody]
  /\ UNCHANGED disk

RemoveEntry(p, k) ==
  /\ index' = [index EXCEPT ![p] = Dropped(@, k)]
  /\ \E left \in Removed(disk[k]) : disk' = [disk EXCEPT ![k] = left]
  /\ owner' = [owner EXCEPT ![k] = Nobody]

\* R1, evict_lineage_overflow
EvictLineage(p) ==
  /\ At(p, "lineage")
  /\ IF Len(index[p].bySess[pc[p].sess]) > PerLineage
     THEN RemoveEntry(p, Oldest(index[p], pc[p].sess)) /\ UNCHANGED pc
     ELSE Goto(p, "fit") /\ UNCHANGED <<index, disk, owner>>
  /\ UNCHANGED <<world, now, tmp, old, alive>>

\* R4, evict_to_fit
EvictToFit(p) ==
  /\ At(p, "fit")
  /\ IF index[p].bytes > CapBytes
     THEN RemoveEntry(p, LeastRecent(index[p])) /\ UNCHANGED pc
     ELSE Rests(p) /\ UNCHANGED <<index, disk, owner>>
  /\ UNCHANGED <<world, now, tmp, old, alive>>

-----------------------------------------------------------------------------
(* start_prefill: a candidate is refused from its meta.json, then read.    *)
(* "long": the suffix to prefill is longer than the replay. Every file is  *)
(* opened by its path, so another server may replace the directory between *)
(* any two of these steps.                                                 *)

ResumeOk(kind, long) == kind = "full" \/ long
\* the blobs hold all that a meta.json of that kind asks for: the decoder
\* layers come last in kv.bin, and a checkpoint asks for no row of theirs
Fits(kind, blobs) == kind = "ckpt" \/ blobs = "full"

Probe(p, k, long) ==
  /\ At(p, "idle") /\ k \in Held(index[p])
  /\ HasMeta(disk[k]) => ResumeOk(disk[k].kind, long)
  /\ pc' = [pc EXCEPT ![p] = [at |-> "restore", key |-> k, long |-> long]]
  /\ UNCHANGED <<world, now, disk, tmp, old, alive, index, owner>>

\* restore_vl, the first file
ReadMeta(p) ==
  /\ At(p, "restore")
  /\ LET c == pc[p] IN
     /\ HasMeta(disk[c.key])
     /\ pc' = [pc EXCEPT ![p] = [at |-> "blobs", key |-> c.key, long |-> c.long,
                                 kind |-> disk[c.key].kind]]
  /\ UNCHANGED <<world, now, disk, tmp, old, alive, index, owner>>

\* Then the blobs: of what they hold only kv.bin depends on the kind, and if
\* any of them is missing the restore fails as if all were.
BlobsFit(p) ==
  LET d == disk[pc[p].key] IN Whole(d) /\ Fits(pc[p].kind, d.blobs)

BugReadBlobs(p) ==
  /\ At(p, "blobs") /\ BlobsFit(p)
  /\ Goto(p, "touch")
  /\ UNCHANGED <<world, now, disk, tmp, old, alive, index, owner>>

ReadBlobs(p) ==
  /\ At(p, "blobs") /\ BlobsFit(p) /\ ResumeOk(pc[p].kind, pc[p].long)
  /\ Goto(p, "touch")
  /\ UNCHANGED <<world, now, disk, tmp, old, alive, index, owner>>

\* read, but not a prefix of the request or not resumable after all
NotResumed(p) ==
  /\ At(p, "blobs") /\ BlobsFit(p) /\ Rests(p)
  /\ UNCHANGED <<world, now, disk, tmp, old, alive, index, owner>>

RestoreFails(p) ==
  /\ \/ At(p, "restore") /\ (Fault("read") \/ ~HasMeta(disk[pc[p].key]))
     \/ At(p, "blobs") /\ (Fault("read") \/ ~BlobsFit(p))
  /\ Goto(p, "evict")
  /\ UNCHANGED <<world, now, disk, tmp, old, alive, index, owner>>

\* The suffix is prefilled onto the restored rows. touch: the entry, then
\* meta.json is read, if it is there
Touch(p) ==
  /\ At(p, "touch")
  /\ LET c == pc[p]
         d == disk[c.key]
     IN /\ index' = [index EXCEPT ![p] = Touched(@, c.key)]
        /\ pc' = [pc EXCEPT ![p] =
             IF HasMeta(d) THEN [at |-> "stamp", key |-> c.key, kind |-> d.kind, sess |-> d.sess,
                                 used |-> now]
             ELSE Idle]
  /\ UNCHANGED <<world, now, disk, tmp, old, alive, owner>>

\* the directory d with the meta.json that c says
WithMeta(d, c) ==
  [state |-> IF Whole(d) THEN "whole" ELSE "torn", kind |-> c.kind,
   used |-> c.used, sess |-> c.sess, blobs |-> IF HasMeta(d) THEN d.blobs ELSE c.kind]

\* ... and written back by way of meta.json.tmp, both by path: into whatever
\* directory is there by now
Stamp(p) ==
  /\ At(p, "stamp")
  /\ LET c == pc[p] IN
     /\ disk[c.key] # NoDir
     /\ disk' = [disk EXCEPT ![c.key] = WithMeta(@, c)]
  /\ Rests(p)
  /\ UNCHANGED <<world, now, tmp, old, alive, index, owner>>

\* The write or the rename fails, also because another server has moved the
\* directory with meta.json.tmp in it, or has renamed that file: nothing is
\* written.
StampFails(p) ==
  /\ At(p, "stamp")
  /\ Fault("touch") \/ world.overlap \/ disk[pc[p].key] = NoDir
  /\ Rests(p)
  /\ UNCHANGED <<world, now, disk, tmp, old, alive, index, owner>>

Evict(p) ==
  /\ At(p, "evict")
  /\ RemoveEntry(p, pc[p].key) /\ Rests(p)
  /\ UNCHANGED <<world, now, tmp, old, alive>>

-----------------------------------------------------------------------------
(* Restarts. *)

BugStale(p, q) == TRUE

\* save_dir_is_stale, of a directory of process q as p loads
Stale(p, q) == q = p \/ q \notin alive

Orders(ks) == {o \in [1 .. Cardinality(ks) -> ks] : \A i, j \in DOMAIN o : o[i] = o[j] => i = j}

BugLoaded(ks, o) ==
  LET mine == {k \in ks : disk[k].sess # Nobody} IN
  [ent |-> [k \in Keys |-> IF k \in mine THEN Entry(disk[k].kind, disk[k].used, disk[k].sess)
                           ELSE NoEntry],
   byUsed |-> {<<disk[k].used, k>> : k \in mine},
   bySess |-> [s \in Sessions |-> Without(o, {k \in ks : disk[k].sess # s})],
   bytes |-> SumFunctionOnSet([k \in mine |-> Bytes(disk[k].kind)], mine)]

\* the index of the directories found, read in some order
Loaded(ks, o) ==
  [ent |-> [k \in Keys |-> IF k \in ks THEN Entry(disk[k].kind, disk[k].used, disk[k].sess)
                           ELSE NoEntry],
   byUsed |-> {<<disk[k].used, k>> : k \in ks},
   bySess |-> [s \in Sessions |-> Without(o, {k \in ks : disk[k].sess # s})],
   bytes |-> SumFunctionOnSet([k \in ks |-> Bytes(disk[k].kind)], ks)]

Load(p) ==
  LET ks == {k \in Keys : HasMeta(disk[k])} IN
  /\ p \in DOMAIN world.work \ alive /\ (alive = {} \/ world.overlap)
  /\ alive' = alive \cup {p}
  /\ \/ /\ tmp' = [q \in Pids |-> IF Stale(p, q) THEN [k \in Keys |-> NoDir] ELSE tmp[q]]
        /\ old' = [q \in Pids |-> IF Stale(p, q) THEN [k \in Keys |-> NoDir] ELSE old[q]]
     \/ Fault("remove") /\ UNCHANGED <<tmp, old>>
  /\ \E o \in Orders(ks) : index' = [index EXCEPT ![p] = Loaded(ks, o)]
  /\ owner' = [k \in Keys |-> IF Whole(disk[k]) THEN p ELSE owner[k]]
  /\ UNCHANGED <<world, now, disk, pc>>

\* what p owned is left to the next process that loads
Orphaned(own, p) == [k \in Keys |-> IF own[k] = p THEN Left ELSE own[k]]

Dies(p) ==
  /\ alive' = alive \ {p}
  /\ index' = [index EXCEPT ![p] = Empty]
  /\ Rests(p)

\* p has moved a snapshot aside and its successor is not in place
BetweenRenames(p) == pc[p].at \in {"in", "back"} /\ pc[p].moved

Crash(p) ==
  /\ p \in alive
  /\ BetweenRenames(p) => Fault("crashAside")
  /\ Dies(p) /\ owner' = Orphaned(owner, p)
  /\ UNCHANGED <<world, now, disk, tmp, old>>

\* the process dies while it deletes the directory of an entry
CrashRemoving(p) ==
  /\ p \in alive /\ Fault("cut")
  /\ \E k \in Keys :
       /\ \/ At(p, "lineage") /\ Len(index[p].bySess[pc[p].sess]) > PerLineage
             /\ k = Oldest(index[p], pc[p].sess)
          \/ At(p, "fit") /\ index[p].bytes > CapBytes /\ k = LeastRecent(index[p])
          \/ At(p, "evict") /\ k = pc[p].key
       /\ \E left \in Remains(disk[k]) : disk' = [disk EXCEPT ![k] = left]
       /\ disk[k] # NoDir
       /\ owner' = Orphaned([owner EXCEPT ![k] = Nobody], p)
  /\ Dies(p)
  /\ UNCHANGED <<world, now, tmp, old>>

-----------------------------------------------------------------------------
Save(p) == \/ WriteFiles(p) \/ WriteFails(p) \/ CheckDir(p) \/ MoveAside(p)
           \/ AsideFails(p) \/ MoveIn(p) \/ InFails(p) \/ PutBack(p)
           \/ RemoveOld(p) \/ Insert(p) \/ EvictLineage(p) \/ EvictToFit(p)

Next ==
  \/ Tick
  \/ \E p \in Pids :
       \/ \E k \in Keys, kind \in Kinds, s \in Sessions \cup {Nobody} : StartSave(p, k, kind, s)
       \/ Save(p)
       \/ \E k \in Keys, long \in BOOLEAN : Probe(p, k, long)
       \/ ReadMeta(p) \/ ReadBlobs(p) \/ NotResumed(p) \/ RestoreFails(p)
       \/ Touch(p) \/ Stamp(p) \/ StampFails(p) \/ Evict(p)
       \/ Load(p) \/ Crash(p) \/ CrashRemoving(p)

Spec == Init /\ [][Next]_vars

-----------------------------------------------------------------------------
\* the kinds that the servers may save a key as
KindsOf(k) ==
  {kind \in Kinds : \E p \in DOMAIN world.work, s \in Sessions \cup {Nobody} :
                      <<k, kind, s>> \in world.work[p]}

\* Only overlapping servers that save a key as snapshot and as checkpoint can
\* leave the meta.json of one over the blobs of the other.
MayMix(k) == world.overlap /\ KindsOf(k) = Kinds

(* A snapshot that was committed and that nobody has evicted is whole      *)
(* under its name, or it is moved aside and not lost yet: the process that *)
(* moved it will rename its successor into place or put it back, or has    *)
(* died and no load has deleted its directory. Whole: all its files are    *)
(* there, and its meta.json is that of its blobs unless MayMix. Whatever   *)
(* fails, whoever else saves or touches the same key, and whenever a       *)
(* process dies.                                                           *)
Durable ==
  \A k \in Keys : owner[k] # Nobody =>
    LET Sound(d) == Whole(d) /\ (d.kind = d.blobs \/ MayMix(k)) IN
    \/ Sound(disk[k])
    \/ \E p \in Pids : /\ Sound(old[p][k])
                       /\ p \in alive => BetweenRenames(p) /\ pc[p].key = k

\* p has committed k and not inserted it yet
Inserting(p, k) == pc[p].at \in {"clean", "insert"} /\ pc[p].key = k

\* one server at a time, and what it removes is gone
Tidy == ~world.overlap /\ world.faults \cap {"remove", "cut"} = {}

(* A snapshot is in the index of the process that saved it, or loaded it   *)
(* after a restart, until that process or an overlapping one evicts it,    *)
(* and so it counts against the cap. In a Tidy world that holds of every   *)
(* directory under a key: whatever else fails, and whenever a process      *)
(* dies, none sits on disk outside the cap's accounting. What a removal    *)
(* leaves that fails, or that a crash cuts short, is counted by nobody:    *)
(* the code logs it and forgets the entry.                                 *)
AccountedFor ==
  \A p \in alive, k \in Keys : ~Inserting(p, k) =>
    /\ owner[k] = p => k \in Held(index[p])
    /\ Tidy /\ disk[k] # NoDir => k \in Held(index[p])

(* The maps of an index never drift apart, through re-saves of a key under *)
(* another lineage, touches, evictions and failed restores.                *)
MapsAgree ==
  \A p \in alive :
    LET ix == index[p] IN
    /\ ix.byUsed = {<<ix.ent[k].used, k>> : k \in Held(ix)}
    /\ ix.bytes = SumFunctionOnSet([k \in Keys |-> ix.ent[k].bytes], Held(ix))
    /\ \A s \in Sessions :
         /\ {ix.bySess[s][i] : i \in DOMAIN ix.bySess[s]} = {k \in Held(ix) : ix.ent[k].sess = s}
         /\ Len(ix.bySess[s]) = Cardinality({k \in Held(ix) : ix.ent[k].sess = s})

(* The evictions an insert causes take the new snapshot last: it goes only *)
(* if everything that is left was used in the same second.                 *)
NewestStays ==
  \A p \in alive : pc[p].at \in {"lineage", "fit"} =>
    \/ pc[p].key \in Held(index[p])
    \/ \A k \in Held(index[p]) : index[p].ent[k].used >= pc[p].used

(* No prefill of a short suffix starts on empty decoder rings, also when   *)
(* the snapshot was replaced by a checkpoint after its meta.json was read. *)
ResumesSound == \A p \in alive : pc[p].at = "touch" => ResumeOk(pc[p].kind, pc[p].long)
=============================================================================
