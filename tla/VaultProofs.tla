------------------------------ MODULE VaultProofs ------------------------------
(* Proofs about VaultReplicas and, in the last section, about VaultUnlock.         *)
(*                                                                                 *)
(* Logical clocks order what they must and no record gives way to an older version *)
(* of itself, for any number of devices and records and any interleaving of edits, *)
(* uploads, pulls and bootstraps that no crash cuts short.  The clock of a device  *)
(* covers its records only between two calls; during a call the covering clock is  *)
(* the one the call will end with.  That no delta is refused needs more: whatever  *)
(* a delta starts from, an earlier delta of the stream ended with.                 *)
(* Agreement of the devices needs none of that and holds whatever crashes.         *)
EXTENDS VaultReplicas, VaultUnlock, TLAPS, FiniteSetTheorems, WellFoundedInduction

---------------------------------------------------------------------------
(* Record precedence.                                                              *)

LEMMA VersionFields ==
  ASSUME NEW v \in Versions
  PROVE  v.clock \in Nat /\ v.time \in Nat /\ v.nonce \in Nat /\ v.deleted \in BOOLEAN
  BY BoundsAssumption DEF Versions

(* compare_record_precedence is a total preorder that never contradicts the clock. *)
LEMMA PrecedesTotal ==
  ASSUME NEW v \in Versions, NEW w \in Versions
  PROVE  /\ Precedes(v, v)
         /\ ~Precedes(v, w) => Precedes(w, v)
         /\ Precedes(v, w) => v.clock <= w.clock
         /\ v.clock < w.clock => Precedes(v, w)
  BY VersionFields DEF Precedes

LEMMA PrecedesTransitive ==
  ASSUME NEW u \in Versions, NEW v \in Versions, NEW w \in Versions, Precedes(u, v), Precedes(v, w)
  PROVE  Precedes(u, w)
  BY VersionFields DEF Precedes

(* Two versions that precede each other are the same: the comparison decides.      *)
LEMMA PrecedesAntisymmetric ==
  ASSUME NEW v \in Versions, NEW w \in Versions, Precedes(v, w), Precedes(w, v)
  PROVE  v = w
<1>1. v.clock = w.clock /\ v.time = w.time
  BY VersionFields DEF Precedes
<1>2. v.nonce = w.nonce /\ (v.deleted <=> w.deleted)
  BY <1>1, VersionFields DEF Precedes
<1>3. v.deleted = w.deleted
  BY <1>2, VersionFields
<1>4. QED BY <1>1, <1>2, <1>3 DEF Versions

(* apply_delta: what it leaves is one of the two versions, and neither is newer.   *)
LEMMA MergedIsNewest ==
  ASSUME NEW v \in Versions, NEW w \in Versions \union {None}
  PROVE  /\ Merged(v, w) \in {v, w} \ ({None} \ {v})
         /\ w # None => Precedes(w, Merged(v, w)) /\ Precedes(v, Merged(v, w))
<1>1. CASE w = None
  BY <1>1 DEF Merged, Newer
<1>2. CASE w # None
  BY <1>2, PrecedesTotal DEF Merged, Newer
<1>3. QED BY <1>1, <1>2

---------------------------------------------------------------------------
(* The greatest clock.                                                             *)

Clocks == 0 .. MaxClock

(* A set of clocks that is not empty has a greatest one.                           *)
LEMMA GreatestClock ==
  ASSUME NEW S \in SUBSET Clocks, S # {}
  PROVE  \E m \in S : \A c \in S : c <= m
<1> DEFINE U == {n \in Nat : \A c \in S : c <= n}
<1>1. MaxClock \in Nat /\ S \subseteq Nat
  BY BoundsAssumption DEF Clocks
<1>2. U # {} /\ U \subseteq Nat
  BY <1>1 DEF Clocks
<1>3. \E m \in U : \A n \in U : ~(<<n, m>> \in OpToRel(<, Nat))
  BY <1>2, WFMin, NatLessThanWellFounded
<1>4. PICK m \in U : \A n \in U : ~(n < m)
  BY <1>2, <1>3 DEF OpToRel
<1>5. m \in S
  <2>1. SUFFICES ASSUME m \notin S PROVE FALSE
    OBVIOUS
  <2>2. \A c \in S : c <= m - 1
    BY <1>1, <2>1
  <2>3. m # 0
    <3>1. PICK c \in S : TRUE
      OBVIOUS
    <3>2. c \in Nat /\ c <= m - 1
      BY <1>1, <2>2
    <3>3. QED BY <3>2
  <2>4. m - 1 \in U
    BY <2>2, <2>3
  <2>5. QED BY <1>4, <2>4
<1>6. QED BY <1>5

Version == [clock : Clocks, time : Times, deleted : BOOLEAN, nonce : Nonces]
Table == [Records -> Version \union {None}]
Call == [kind : {"idle", "write", "apply", "snapshot"}, todo : Table, clock : Clocks, pos : Nat]

(* The clocks of a table are at most n.                                            *)
Within(recs, n) == \A r \in Records : recs[r] # None => recs[r].clock <= n

LEMMA MaxClockOfIsMax ==
  ASSUME NEW recs \in Table, NEW n \in Clocks
  PROVE  /\ MaxClockOf(recs, n) \in Clocks
         /\ n <= MaxClockOf(recs, n)
         /\ Within(recs, MaxClockOf(recs, n))
         /\ Within(recs, n) => MaxClockOf(recs, n) = n
<1> DEFINE clocks == {n} \union {recs[r].clock : r \in {s \in Records : recs[s] # None}}
<1>1. clocks \subseteq Clocks /\ clocks # {}
  BY DEF Table, Version
<1>2. \E m \in clocks : \A c \in clocks : c <= m
  BY <1>1, GreatestClock
<1>3. MaxClockOf(recs, n) = CHOOSE m \in clocks : \A c \in clocks : c <= m
  BY DEF MaxClockOf
<1>4. MaxClockOf(recs, n) \in clocks /\ \A c \in clocks : c <= MaxClockOf(recs, n)
  BY <1>2, <1>3
<1>5. \A c \in clocks : c \in Int
  BY <1>1, BoundsAssumption DEF Clocks
<1>6. Within(recs, n) => \A c \in clocks : c <= n
  BY <1>5 DEF Within
<1>7. MaxClockOf(recs, n) \in Clocks /\ n <= MaxClockOf(recs, n)
  <2>1. n \in clocks
    OBVIOUS
  <2> HIDE DEF clocks
  <2>2. QED BY <1>1, <1>4, <2>1
<1>8. Within(recs, MaxClockOf(recs, n))
  <2>1. \A r \in Records : recs[r] # None => recs[r].clock \in clocks
    OBVIOUS
  <2> HIDE DEF clocks
  <2>2. QED BY <1>4, <2>1 DEF Within
<1>9. Within(recs, n) => MaxClockOf(recs, n) = n
  <2>1. MaxClockOf(recs, n) \in Int /\ n \in Int
    BY <1>4, <1>5
  <2>2. Within(recs, n) => MaxClockOf(recs, n) <= n
    BY <1>4, <1>6
  <2>3. QED BY <1>7, <2>1, <2>2
<1>10. QED BY <1>7, <1>8, <1>9

---------------------------------------------------------------------------
(* The inductive invariant.                                                        *)

(* Types, with every clock within its bound; the header in memory is the one on    *)
(* disk.                                                                           *)
Typed ==
  /\ db \in [Devices -> [clock : Clocks \union {None}, recs : Table]]
  /\ header \in [Devices -> Clocks \union {None}]
  /\ op \in [Devices -> Call]
  /\ pos \in [Devices -> Nat \union {None}]
  /\ sent \in [Devices -> Clocks]
  /\ stream \in Seq([from : Clocks, to : Clocks, recs : Table])
  /\ snapshot \in [clock : Clocks, recs : Table, pos : Nat]
  /\ unused \subseteq Nonces
  /\ crashes \in Nat

HeaderRead ==
  \A d \in Devices :
    /\ header[d] # None => header[d] = db[d].clock
    /\ op[d].kind = "snapshot" => db[d].clock = op[d].clock

(* A delta of stream s ended with clock n or a later one.                          *)
Covered(s, n) == n = 0 \/ \E j \in 1 .. Len(s) : n <= s[j].to

(* The first p deltas of s ended no later than with clock n.                       *)
Follows(s, n, p) == p \in 0 .. Len(s) /\ \A j \in 1 .. p : s[j].to <= n

(* What a device holds is covered by its clock between calls, and by the clock the *)
(* call in progress ends with otherwise; a local edit is newer than all of it.     *)
RecordsCovered(d) ==
  /\ op[d] = Idle /\ header[d] # None => Within(db[d].recs, header[d])
  /\ op[d].kind = "write" =>
       /\ header[d] # None /\ sent[d] < header[d]
       /\ \A r \in Records :
            /\ db[d].recs[r] # None => db[d].recs[r].clock < header[d]
            /\ op[d].todo[r] # None => op[d].todo[r].clock = header[d]
  /\ op[d].kind \in {"apply", "snapshot"} =>
       Within(db[d].recs, op[d].clock) /\ Within(op[d].todo, op[d].clock)
  /\ op[d].kind = "snapshot" => \A r \in Records : op[d].todo[r] # None => db[d].recs[r] = None

(* How far a device has come in the stream.                                        *)
Position(d) ==
  /\ pos[d] # None => header[d] # None /\ Follows(stream, header[d], pos[d])
  /\ op[d].kind = "apply" =>
       /\ header[d] # None /\ header[d] <= op[d].clock
       /\ Follows(stream, op[d].clock, op[d].pos)
       /\ op[d].clock = header[d] \/ Covered(stream, op[d].clock)
  /\ op[d].kind = "snapshot" =>
       /\ header[d] = None
       /\ Follows(stream, op[d].clock, op[d].pos)
       /\ Covered(stream, op[d].clock)

(* Whatever a device exports from is covered; so is its clock, unless it holds     *)
(* something to export.                                                            *)
Exports(d) ==
  /\ Covered(stream, sent[d])
  /\ header[d] # None => sent[d] <= header[d]
  /\ header[d] # None =>
       \/ Covered(stream, header[d])
       \/ op[d].kind = "write"
       \/ \E r \in Records : db[d].recs[r] # None /\ db[d].recs[r].clock > sent[d]

(* A delta starts from the end of an earlier one and ends after its records.       *)
StreamChained ==
  \A k \in 1 .. Len(stream) :
    /\ Within(stream[k].recs, stream[k].to)
    /\ stream[k].from = 0 \/ \E j \in 1 .. k - 1 : stream[k].from <= stream[j].to

SnapshotCovered ==
  /\ Within(snapshot.recs, snapshot.clock)
  /\ Follows(stream, snapshot.clock, snapshot.pos)
  /\ Covered(stream, snapshot.clock)

DeviceOrdered(d) == RecordsCovered(d) /\ Position(d) /\ Exports(d)

Ordered ==
  /\ \A d \in Devices : DeviceOrdered(d)
  /\ StreamChained
  /\ SnapshotCovered

ReplicasInv == Typed /\ HeaderRead /\ (crashes = 0 => Ordered)

Deltas == [from : Clocks, to : Clocks, recs : Table]

LEMMA StreamEntry ==
  ASSUME NEW s \in Seq(Deltas), NEW j \in 1 .. Len(s)
  PROVE  s[j] \in Deltas /\ s[j].to \in Clocks /\ s[j].to \in Nat /\ s[j].from \in Clocks /\ s[j].recs \in Table
<1>1. s[j] \in Deltas
  OBVIOUS
<1>2. QED BY <1>1, BoundsAssumption DEF Deltas, Clocks

(* A later clock follows what an earlier one follows.                              *)
LEMMA FollowsLater ==
  ASSUME NEW s \in Seq(Deltas), NEW m \in Clocks, NEW n \in Clocks, m <= n, NEW p, Follows(s, m, p)
  PROVE  Follows(s, n, p)
<1>1. m \in Nat /\ n \in Nat
  BY BoundsAssumption DEF Clocks
<1>2. p \in 0 .. Len(s) /\ \A j \in 1 .. p : s[j].to <= m /\ j \in 1 .. Len(s)
  BY DEF Follows
<1>3. \A j \in 1 .. p : s[j].to \in Nat
  BY <1>2, StreamEntry
<1>4. QED BY <1>1, <1>2, <1>3 DEF Follows

(* The stream only grows, and what it covers stays covered.                        *)
LEMMA StreamGrows ==
  ASSUME NEW s \in Seq(Deltas), NEW x \in Deltas, NEW n \in Clocks, NEW p \in Nat
  PROVE  /\ Covered(s, n) => Covered(Append(s, x), n)
         /\ Follows(s, n, p) => Follows(Append(s, x), n, p)
         /\ n <= x.to => Covered(Append(s, x), n)
<1>1. Len(s) \in Nat /\ Len(Append(s, x)) = Len(s) + 1 /\ Append(s, x)[Len(s) + 1] = x
      /\ \A j \in 1 .. Len(s) : Append(s, x)[j] = s[j]
  OBVIOUS
<1>2. Covered(s, n) => Covered(Append(s, x), n)
  BY <1>1 DEF Covered
<1>3. Follows(s, n, p) => Follows(Append(s, x), n, p)
  BY <1>1 DEF Follows
<1>4. n <= x.to => Covered(Append(s, x), n)
  BY <1>1 DEF Covered
<1>5. QED BY <1>2, <1>3, <1>4

(* What holds of a device is not disturbed by what another one does.               *)
LEMMA OthersKept ==
  ASSUME Typed, NEW e \in Devices, DeviceOrdered(e),
         db'[e] = db[e], header'[e] = header[e], op'[e] = op[e], pos'[e] = pos[e], sent'[e] = sent[e],
         stream' = stream \/ \E x \in Deltas : stream' = Append(stream, x)
  PROVE  DeviceOrdered(e)'
<1>1. RecordsCovered(e)'
  BY DEF DeviceOrdered, RecordsCovered, Within
<1>a. stream \in Seq(Deltas)
  BY DEF Typed, Deltas
<1>2. \A n \in Clocks : Covered(stream, n) => Covered(stream', n)
  <2>1. ASSUME NEW x \in Deltas, stream' = Append(stream, x), NEW n \in Clocks, Covered(stream, n)
        PROVE  Covered(stream', n)
    BY <1>a, <2>1, StreamGrows, 0 \in Nat
  <2>2. QED BY <2>1
<1>3. \A n \in Clocks, p \in Nat : Follows(stream, n, p) => Follows(stream', n, p)
  <2>1. ASSUME NEW x \in Deltas, stream' = Append(stream, x), NEW n \in Clocks, NEW p \in Nat, Follows(stream, n, p)
        PROVE  Follows(stream', n, p)
    BY <1>a, <2>1, StreamGrows
  <2>2. QED BY <2>1
<1>4. /\ sent[e] \in Clocks /\ op[e].clock \in Clocks /\ op[e].pos \in Nat
      /\ header[e] # None => header[e] \in Clocks
      /\ pos[e] # None => pos[e] \in Nat
  BY DEF Typed, Call
<1>5. Position(e)'
  BY <1>2, <1>3, <1>4 DEF DeviceOrdered, Position
<1>6. Exports(e)'
  BY <1>2, <1>4 DEF DeviceOrdered, Exports
<1>7. QED BY <1>1, <1>5, <1>6 DEF DeviceOrdered

LEMMA SharedKept ==
  ASSUME StreamChained, SnapshotCovered, UNCHANGED <<stream, snapshot>>
  PROVE  StreamChained' /\ SnapshotCovered'
  BY DEF StreamChained, SnapshotCovered, Within

(* A step of one device that leaves stream and snapshot alone.                     *)
LEMMA OneDevice ==
  ASSUME Typed, Ordered, NEW d \in Devices, DeviceOrdered(d)', UNCHANGED <<stream, snapshot>>,
         \A e \in Devices : e # d =>
           db'[e] = db[e] /\ header'[e] = header[e] /\ op'[e] = op[e] /\ pos'[e] = pos[e] /\ sent'[e] = sent[e]
  PROVE  Ordered'
<1>1. \A e \in Devices : DeviceOrdered(e)'
  BY OthersKept DEF Ordered
<1>2. StreamChained' /\ SnapshotCovered'
  BY SharedKept DEF Ordered
<1>3. QED BY <1>1, <1>2 DEF Ordered

LEMMA IdleTyped == Idle \in Call
  BY BoundsAssumption DEF Idle, Empty, Table, Clocks, Call

---------------------------------------------------------------------------
(* Local edits.                                                                    *)

LEMMA BeginWriteStep ==
  ASSUME ReplicasInv, NEW d \in Devices, NEW r \in Records, NEW v \in Versions, v.clock = BumpedClock(d),
         Ready(d), BeginWrite(d, r, v), unused' \subseteq Nonces
  PROVE  ReplicasInv'
<1> DEFINE c == BumpedClock(d)
           todo == [Empty EXCEPT ![r] = v]
           w == [kind |-> "write", todo |-> todo, clock |-> 0, pos |-> 0]
<1>1. Typed /\ HeaderRead
  BY DEF ReplicasInv
<1>2. header[d] \in Clocks /\ header[d] = db[d].clock /\ c = header[d] + 1 /\ c \in Clocks
  BY <1>1, BoundsAssumption DEF Ready, Typed, HeaderRead, BumpedClock, BeginWrite, Clocks
<1>3. v \in Version
  BY <1>2 DEF Versions, Version
<1>4. todo \in Table /\ todo[r] = v /\ \A q \in Records : todo[q] \in {v, None}
  BY <1>3 DEF Empty, Table
<1>5. /\ db' = [db EXCEPT ![d].clock = c]
      /\ header' = [header EXCEPT ![d] = c]
      /\ op' = [op EXCEPT ![d] = w]
      /\ UNCHANGED <<pos, sent, stream, snapshot, crashes>>
  BY DEF BeginWrite
<1> HIDE DEF c, todo
<1>6. 0 \in Clocks /\ w \in Call
  BY <1>4, BoundsAssumption DEF Clocks, Call
<1>7. /\ db'[d].clock = c /\ db'[d].recs = db[d].recs /\ header'[d] = c /\ op'[d] = w
      /\ \A e \in Devices : e # d => db'[e] = db[e] /\ header'[e] = header[e] /\ op'[e] = op[e]
  BY <1>1, <1>5 DEF Typed
<1>8. Typed'
  BY <1>1, <1>2, <1>5, <1>6 DEF Typed
<1>9. HeaderRead'
  BY <1>1, <1>7 DEF HeaderRead
<1>10. ASSUME Ordered PROVE Ordered'
  <2>1. RecordsCovered(d) /\ Position(d) /\ Exports(d)
    BY <1>10 DEF Ordered, DeviceOrdered
  <2>2. c # None /\ op[d] = Idle /\ header[d] # None
    BY <1>2, BoundsAssumption DEF Ready, Clocks
  <2>3. Within(db[d].recs, header[d]) /\ sent[d] <= header[d]
    BY <2>1, <2>2 DEF RecordsCovered, Exports
  <2>4. \A q \in Records : db[d].recs[q] # None => db[d].recs[q].clock \in Nat
    BY <1>1 DEF Typed, Table, Version, Clocks
  <2>5. RecordsCovered(d)'
    <3>1. op'[d] # Idle /\ op'[d].kind = "write" /\ op'[d].todo = todo
      BY <1>7 DEF Idle
    <3>2. sent'[d] < header'[d]
      BY <1>1, <1>2, <1>5, <1>7, <2>3 DEF Typed, Clocks
    <3>3. \A q \in Records : db[d].recs[q] # None => db[d].recs[q].clock < c
      BY <1>2, <2>3, <2>4 DEF Within, Clocks
    <3>4. \A q \in Records : todo[q] # None => todo[q].clock = c
      BY <1>4 DEF c
    <3>5. QED BY <1>7, <2>2, <3>1, <3>2, <3>3, <3>4 DEF RecordsCovered
  <2>6. Position(d)'
    <3>1. pos[d] # None => Follows(stream, header[d], pos[d])
      BY <2>1 DEF Position
    <3>2. stream \in Seq(Deltas) /\ header[d] <= c
      BY <1>1, <1>2, BoundsAssumption DEF Typed, Deltas, Clocks
    <3>3. pos[d] # None => Follows(stream, c, pos[d])
      BY <1>2, <3>1, <3>2, FollowsLater
    <3>4. QED BY <1>5, <1>7, <2>2, <3>3 DEF Position
  <2>7. Exports(d)'
    BY <1>1, <1>2, <1>5, <1>7, <2>1, <2>3 DEF Exports, Typed, Clocks
  <2>8. QED BY <1>1, <1>5, <1>7, <1>10, <2>5, <2>6, <2>7, OneDevice DEF DeviceOrdered
<1>11. QED BY <1>5, <1>8, <1>9, <1>10 DEF ReplicasInv

(* One row of the records table is written.                                        *)
LEMMA RowWritten ==
  ASSUME Typed, NEW d \in Devices, NEW r \in Records, NEW v \in Version \union {None},
         db' = [db EXCEPT ![d].recs[r] = v]
  PROVE  /\ db' \in [Devices -> [clock : Clocks \union {None}, recs : Table]]
         /\ db'[d].clock = db[d].clock
         /\ db'[d].recs[r] = v
         /\ \A q \in Records : q # r => db'[d].recs[q] = db[d].recs[q]
         /\ \A e \in Devices : e # d => db'[e] = db[e]
<1> DEFINE recs == [db[d].recs EXCEPT ![r] = v]
<1>1. recs \in Table /\ recs[r] = v /\ \A q \in Records : q # r => recs[q] = db[d].recs[q]
  BY DEF Typed, Table
<1>2. db' = [db EXCEPT ![d].recs = recs]
  OBVIOUS
<1> HIDE DEF recs
<1>3. db'[d].recs = recs /\ db'[d].clock = db[d].clock /\ \A e \in Devices : e # d => db'[e] = db[e]
  BY <1>2 DEF Typed
<1>4. db' \in [Devices -> [clock : Clocks \union {None}, recs : Table]]
  BY ZenonT(60), <1>1, <1>2 DEF Typed
<1>5. QED BY <1>1, <1>3, <1>4

(* One entry of the call's list is done.                                           *)
LEMMA EntryDone ==
  ASSUME Typed, NEW d \in Devices, NEW r \in Records, op' = [op EXCEPT ![d].todo[r] = None]
  PROVE  /\ op' \in [Devices -> Call]
         /\ op'[d].kind = op[d].kind /\ op'[d].clock = op[d].clock /\ op'[d].pos = op[d].pos
         /\ op'[d].todo[r] = None
         /\ \A q \in Records : q # r => op'[d].todo[q] = op[d].todo[q]
         /\ \A e \in Devices : e # d => op'[e] = op[e]
<1> DEFINE todo == [op[d].todo EXCEPT ![r] = None]
<1>1. todo \in Table /\ todo[r] = None /\ \A q \in Records : q # r => todo[q] = op[d].todo[q]
  BY DEF Typed, Call, Table
<1>2. op' = [op EXCEPT ![d].todo = todo]
  OBVIOUS
<1> HIDE DEF todo
<1>3. /\ op'[d].todo = todo /\ op'[d].kind = op[d].kind /\ op'[d].clock = op[d].clock /\ op'[d].pos = op[d].pos
      /\ \A e \in Devices : e # d => op'[e] = op[e]
  BY <1>2 DEF Typed, Call
<1>4. op' \in [Devices -> Call]
  <2>1. op \in [Devices -> Call]
    BY DEF Typed
  <2>2. [op[d] EXCEPT !.todo = todo] \in Call
    BY <1>1, <2>1 DEF Call
  <2>3. op' = [op EXCEPT ![d] = [op[d] EXCEPT !.todo = todo]]
    BY <1>2
  <2>4. QED BY <2>1, <2>2, <2>3
<1>5. QED BY <1>1, <1>3, <1>4

LEMMA TodoTyped ==
  ASSUME Typed, NEW d \in Devices, NEW r \in Records, op[d].todo[r] # None
  PROVE  op[d].todo[r] \in Version /\ op[d].todo[r].clock \in Clocks
<1>1. op[d].todo \in Table
  BY DEF Typed, Call
<1>2. op[d].todo[r] \in Version
  BY <1>1 DEF Table
<1>3. QED BY <1>2 DEF Version

LEMMA RowTyped ==
  ASSUME Typed, NEW d \in Devices, NEW r \in Records, db[d].recs[r] # None
  PROVE  db[d].recs[r] \in Version /\ db[d].recs[r].clock \in Clocks
<1>1. db[d].recs \in Table
  BY DEF Typed
<1>2. db[d].recs[r] \in Version
  BY <1>1 DEF Table
<1>3. QED BY <1>2 DEF Version

LEMMA WriteRecordStep ==
  ASSUME ReplicasInv, NEW d \in Devices, WriteRecord(d)
  PROVE  ReplicasInv'
<1>1. Typed /\ HeaderRead
  BY DEF ReplicasInv
<1>2. PICK r \in Records : op[d].todo[r] # None /\ db' = [db EXCEPT ![d].recs[r] = op[d].todo[r]]
  BY DEF WriteRecord
<1>3. op[d].kind = "write" /\ op' = [op EXCEPT ![d] = Idle] /\ UNCHANGED <<header, pos, sent, stream, snapshot, unused, crashes>>
  BY DEF WriteRecord
<1> DEFINE v == op[d].todo[r]
<1>4. v \in Version /\ v.clock \in Clocks
  BY <1>1, <1>2, TodoTyped
<1> HIDE DEF v
<1>5. /\ db' \in [Devices -> [clock : Clocks \union {None}, recs : Table]]
      /\ db'[d].clock = db[d].clock
      /\ db'[d].recs[r] = v
      /\ \A q \in Records : q # r => db'[d].recs[q] = db[d].recs[q]
      /\ \A e \in Devices : e # d => db'[e] = db[e]
  BY <1>1, <1>2, <1>4, RowWritten DEF v
<1>6. op'[d] = Idle /\ \A e \in Devices : e # d => op'[e] = op[e]
  BY <1>1, <1>3 DEF Typed
<1>7. Typed'
  BY <1>1, <1>3, <1>5, IdleTyped DEF Typed
<1>8. HeaderRead'
  BY <1>1, <1>3, <1>5, <1>6 DEF HeaderRead, Idle
<1>9. ASSUME Ordered PROVE Ordered'
  <2>1. RecordsCovered(d) /\ Position(d) /\ Exports(d)
    BY <1>9 DEF Ordered, DeviceOrdered
  <2>2. /\ header[d] # None /\ sent[d] < header[d] /\ v.clock = header[d]
        /\ \A q \in Records : db[d].recs[q] # None => db[d].recs[q].clock < header[d]
    BY <1>2, <1>3, <2>1 DEF RecordsCovered, v
  <2>3. header[d] \in Nat
    BY <1>1, <2>2, BoundsAssumption DEF Typed, Clocks
  <2>4. \A q \in Records : db[d].recs[q] # None => db[d].recs[q].clock \in Nat
    BY <1>1, RowTyped, BoundsAssumption DEF Clocks
  <2>5. Within(db[d].recs, header[d])'
    BY <1>3, <1>5, <2>2, <2>3, <2>4 DEF Within
  <2>6. op'[d].kind = "idle"
    BY <1>6 DEF Idle
  <2>7. RecordsCovered(d)'
    BY <2>5, <2>6 DEF RecordsCovered
  <2>8. Position(d)'
    BY <1>3, <2>1, <2>6 DEF Position
  <2>9. Exports(d)'
    BY <1>2, <1>3, <1>5, <2>1, <2>2 DEF Exports, v
  <2>10. QED BY <1>1, <1>3, <1>5, <1>6, <1>9, <2>7, <2>8, <2>9, OneDevice DEF DeviceOrdered
<1>10. QED BY <1>3, <1>7, <1>8, <1>9 DEF ReplicasInv

---------------------------------------------------------------------------
(* Records of deltas and snapshots.                                                *)

LEMMA ApplyRecordStep ==
  ASSUME ReplicasInv, NEW d \in Devices, NEW r \in Records, ApplyRecord(d, r)
  PROVE  ReplicasInv'
<1>1. Typed /\ HeaderRead
  BY DEF ReplicasInv
<1>2. /\ op[d].kind = "apply" /\ op[d].todo[r] # None
      /\ db' = [db EXCEPT ![d].recs[r] = Merged(op[d].todo[r], db[d].recs[r])]
      /\ op' = [op EXCEPT ![d].todo[r] = None]
      /\ UNCHANGED <<header, pos, sent, stream, snapshot, unused, crashes>>
  BY DEF ApplyRecord, NextRecord
<1> DEFINE v == op[d].todo[r]
           w == db[d].recs[r]
           m == Merged(v, w)
<1>3. v \in Version /\ w \in Version \union {None} /\ Version \subseteq Versions
  BY <1>1, <1>2, TodoTyped, RowTyped, BoundsAssumption DEF Version, Versions, Clocks
<1>4. /\ m \in {v, w} /\ m # None
      /\ w # None => Precedes(w, m)
  BY <1>2, <1>3, MergedIsNewest
<1>5. m \in Version /\ (w # None => w.clock <= m.clock)
  BY <1>3, <1>4, PrecedesTotal
<1> HIDE DEF v, w, m
<1>6. /\ db' \in [Devices -> [clock : Clocks \union {None}, recs : Table]]
      /\ db'[d].clock = db[d].clock
      /\ db'[d].recs[r] = m
      /\ \A q \in Records : q # r => db'[d].recs[q] = db[d].recs[q]
      /\ \A e \in Devices : e # d => db'[e] = db[e]
  BY <1>1, <1>2, <1>5, RowWritten DEF v, w, m
<1>7. /\ op' \in [Devices -> Call]
      /\ op'[d].kind = op[d].kind /\ op'[d].clock = op[d].clock /\ op'[d].pos = op[d].pos
      /\ op'[d].todo[r] = None
      /\ \A q \in Records : q # r => op'[d].todo[q] = op[d].todo[q]
      /\ \A e \in Devices : e # d => op'[e] = op[e]
  BY <1>1, <1>2, EntryDone
<1>8. Typed'
  BY <1>1, <1>2, <1>6, <1>7 DEF Typed
<1>9. HeaderRead'
  BY <1>1, <1>2, <1>6, <1>7 DEF HeaderRead
<1>10. ASSUME Ordered PROVE Ordered'
  <2>1. RecordsCovered(d) /\ Position(d) /\ Exports(d)
    BY <1>10 DEF Ordered, DeviceOrdered
  <2>2. Within(db[d].recs, op[d].clock) /\ Within(op[d].todo, op[d].clock)
    BY <1>2, <2>1 DEF RecordsCovered
  <2>3. m.clock <= op[d].clock
    BY <1>2, <1>4, <2>2 DEF Within, v, w
  <2>4. Within(db[d].recs, op[d].clock)' /\ Within(op[d].todo, op[d].clock)'
    BY <1>6, <1>7, <2>2, <2>3 DEF Within
  <2>5. RecordsCovered(d)'
    BY <1>2, <1>7, <2>4 DEF RecordsCovered, Idle
  <2>6. Position(d)'
    BY <1>2, <1>7, <2>1 DEF Position
  <2>7. ASSUME NEW q \in Records, db[d].recs[q] # None, db[d].recs[q].clock > sent[d]
        PROVE  db'[d].recs[q] # None /\ db'[d].recs[q].clock > sent[d]
    <3>1. CASE q # r
      BY <1>6, <2>7, <3>1
    <3>2. CASE q = r
      <4>1. w.clock <= m.clock /\ w.clock > sent[d] /\ w.clock \in Nat /\ m.clock \in Nat /\ sent[d] \in Nat
        BY SMTT(30), <1>1, <1>3, <1>5, <2>7, <3>2, RowTyped, BoundsAssumption DEF w, Version, Typed, Clocks
      <4>2. QED BY <1>4, <1>6, <3>2, <4>1
    <3>3. QED BY <3>1, <3>2
  <2>8. Exports(d)'
    BY <1>2, <1>7, <2>1, <2>7 DEF Exports
  <2>9. QED BY <1>1, <1>2, <1>6, <1>7, <1>10, <2>5, <2>6, <2>8, OneDevice DEF DeviceOrdered
<1>11. QED BY <1>2, <1>8, <1>9, <1>10 DEF ReplicasInv

LEMMA SnapshotRecordStep ==
  ASSUME ReplicasInv, NEW d \in Devices, NEW r \in Records, SnapshotRecord(d, r)
  PROVE  ReplicasInv'
<1>1. Typed /\ HeaderRead
  BY DEF ReplicasInv
<1>2. /\ op[d].kind = "snapshot" /\ op[d].todo[r] # None
      /\ db' = [db EXCEPT ![d].recs[r] = op[d].todo[r]]
      /\ op' = [op EXCEPT ![d].todo[r] = None]
      /\ UNCHANGED <<header, pos, sent, stream, snapshot, unused, crashes>>
  BY DEF SnapshotRecord, NextRecord
<1> DEFINE v == op[d].todo[r]
<1>3. v \in Version
  BY <1>1, <1>2, TodoTyped
<1> HIDE DEF v
<1>6. /\ db' \in [Devices -> [clock : Clocks \union {None}, recs : Table]]
      /\ db'[d].clock = db[d].clock
      /\ db'[d].recs[r] = v
      /\ \A q \in Records : q # r => db'[d].recs[q] = db[d].recs[q]
      /\ \A e \in Devices : e # d => db'[e] = db[e]
  BY <1>1, <1>2, <1>3, RowWritten DEF v
<1>7. /\ op' \in [Devices -> Call]
      /\ op'[d].kind = op[d].kind /\ op'[d].clock = op[d].clock /\ op'[d].pos = op[d].pos
      /\ op'[d].todo[r] = None
      /\ \A q \in Records : q # r => op'[d].todo[q] = op[d].todo[q]
      /\ \A e \in Devices : e # d => op'[e] = op[e]
  BY <1>1, <1>2, EntryDone
<1>8. Typed'
  BY <1>1, <1>2, <1>6, <1>7 DEF Typed
<1>9. HeaderRead'
  BY <1>1, <1>2, <1>6, <1>7 DEF HeaderRead
<1>10. ASSUME Ordered PROVE Ordered'
  <2>1. RecordsCovered(d) /\ Position(d) /\ Exports(d)
    BY <1>10 DEF Ordered, DeviceOrdered
  <2>2. /\ Within(db[d].recs, op[d].clock) /\ Within(op[d].todo, op[d].clock)
        /\ \A q \in Records : op[d].todo[q] # None => db[d].recs[q] = None
        /\ header[d] = None
    BY <1>2, <2>1 DEF RecordsCovered, Position
  <2>3. v.clock <= op[d].clock
    BY <1>2, <2>2 DEF Within, v
  <2>4. Within(db[d].recs, op[d].clock)' /\ Within(op[d].todo, op[d].clock)'
    BY <1>6, <1>7, <2>2, <2>3 DEF Within
  <2>5. RecordsCovered(d)'
    BY <1>2, <1>6, <1>7, <2>2, <2>4 DEF RecordsCovered, Idle
  <2>6. Position(d)'
    BY <1>2, <1>7, <2>1 DEF Position
  <2>8. Exports(d)'
    BY <1>2, <2>1, <2>2 DEF Exports
  <2>9. QED BY <1>1, <1>2, <1>6, <1>7, <1>10, <2>5, <2>6, <2>8, OneDevice DEF DeviceOrdered
<1>11. QED BY <1>2, <1>8, <1>9, <1>10 DEF ReplicasInv

---------------------------------------------------------------------------
(* Uploads.                                                                        *)

(* The delta of a device between two calls.                                        *)
LEMMA ExportTyped ==
  ASSUME Typed, NEW d \in Devices, Ready(d)
  PROVE  /\ ExportDelta(d) \in Deltas
         /\ ExportDelta(d).from = sent[d] /\ ExportDelta(d).to = header[d]
         /\ \A r \in Records : ExportDelta(d).recs[r] \in {db[d].recs[r], None}
         /\ \A r \in Records : db[d].recs[r] # None /\ db[d].recs[r].clock > sent[d] => ExportDelta(d).recs[r] # None
         /\ header[d] \in Clocks /\ header[d] # None /\ op[d] = Idle
<1> DEFINE recs == [r \in Records |->
        IF db[d].recs[r] # None /\ db[d].recs[r].clock > sent[d] THEN db[d].recs[r] ELSE None]
<1>1. header[d] \in Clocks /\ header[d] # None /\ op[d] = Idle /\ sent[d] \in Clocks /\ db[d].recs \in Table
  BY DEF Ready, Typed
<1>2. recs \in Table /\ \A r \in Records : recs[r] \in {db[d].recs[r], None}
  BY <1>1 DEF Table
<1>3. \A r \in Records : db[d].recs[r] # None /\ db[d].recs[r].clock > sent[d] => recs[r] # None
  OBVIOUS
<1>4. ExportDelta(d) = [from |-> sent[d], to |-> header[d], recs |-> recs]
  BY DEF ExportDelta
<1> HIDE DEF recs
<1>5. ExportDelta(d) \in Deltas
  BY <1>1, <1>2, <1>4 DEF Deltas
<1>6. QED BY <1>1, <1>2, <1>3, <1>4, <1>5

LEMMA UploadStep ==
  ASSUME ReplicasInv, NEW d \in Devices, Upload(d)
  PROVE  ReplicasInv'
<1> DEFINE x == ExportDelta(d)
<1>1. Typed /\ HeaderRead /\ stream \in Seq(Deltas)
  BY DEF ReplicasInv, Typed, Deltas
<1>2. /\ Ready(d) /\ stream' = Append(stream, x)
      /\ sent' = [sent EXCEPT ![d] = header[d]]
      /\ UNCHANGED <<db, header, op, pos, snapshot, unused, crashes>>
  BY DEF Upload
<1>3. /\ x \in Deltas /\ x.from = sent[d] /\ x.to = header[d]
      /\ \A r \in Records : x.recs[r] \in {db[d].recs[r], None}
      /\ header[d] \in Clocks /\ header[d] # None /\ op[d] = Idle
  BY <1>1, <1>2, ExportTyped
<1> HIDE DEF x
<1>4. sent'[d] = header[d] /\ \A e \in Devices : e # d => sent'[e] = sent[e]
  BY <1>1, <1>2 DEF Typed
<1>5. Typed'
  <2>1. sent' \in [Devices -> Clocks]
    BY <1>1, <1>2, <1>3 DEF Typed
  <2>2. stream' \in Seq(Deltas)
    BY <1>1, <1>2, <1>3
  <2>3. QED BY <1>1, <1>2, <2>1, <2>2 DEF Typed, Deltas
<1>6. HeaderRead'
  BY <1>1, <1>2 DEF HeaderRead
<1>7. ASSUME Ordered PROVE Ordered'
  <2>1. RecordsCovered(d) /\ Position(d) /\ Exports(d) /\ StreamChained /\ SnapshotCovered
    BY <1>7 DEF Ordered, DeviceOrdered
  <2>2. /\ \A n \in Clocks, p \in Nat : Follows(stream, n, p) => Follows(stream', n, p)
        /\ \A n \in Clocks : Covered(stream, n) => Covered(stream', n)
        /\ Covered(stream', header[d])
    BY <1>1, <1>2, <1>3, StreamGrows, BoundsAssumption, 0 \in Nat DEF Clocks
  <2>3. \A e \in Devices : e # d => DeviceOrdered(e)'
    BY <1>1, <1>2, <1>3, <1>4, <1>7, OthersKept DEF Ordered
  <2>4. DeviceOrdered(d)'
    <3>1. op[d].kind = "idle" /\ (pos[d] # None => pos[d] \in Nat)
      BY <1>1, <1>3 DEF Idle, Typed
    <3>2. RecordsCovered(d)'
      BY <1>2, <2>1, <3>1 DEF RecordsCovered, Within
    <3>3. Position(d)'
      BY <1>2, <1>3, <2>1, <2>2, <3>1 DEF Position
    <3>4. Exports(d)'
      BY <1>2, <1>3, <1>4, <2>2, BoundsAssumption DEF Exports, Clocks
    <3>5. QED BY <3>2, <3>3, <3>4 DEF DeviceOrdered
  <2>5. StreamChained'
    <3>1. /\ Len(stream) \in Nat /\ Len(stream') = Len(stream) + 1 /\ stream'[Len(stream) + 1] = x
          /\ \A j \in 1 .. Len(stream) : stream'[j] = stream[j]
      BY <1>1, <1>2, <1>3
    <3>2. Within(x.recs, x.to)
      BY <1>3, <2>1 DEF RecordsCovered, Within
    <3>3. x.from = 0 \/ \E j \in 1 .. Len(stream) : x.from <= stream[j].to
      BY <1>3, <2>1 DEF Exports, Covered
    <3>4. SUFFICES ASSUME NEW k \in 1 .. Len(stream')
                   PROVE  /\ Within(stream'[k].recs, stream'[k].to)
                          /\ stream'[k].from = 0 \/ \E j \in 1 .. k - 1 : stream'[k].from <= stream'[j].to
      BY DEF StreamChained, Within
    <3>5. CASE k \in 1 .. Len(stream)
      BY <2>1, <3>1, <3>5 DEF StreamChained
    <3>6. CASE k = Len(stream) + 1
      BY <3>1, <3>2, <3>3, <3>6
    <3>7. QED BY <3>1, <3>4, <3>5, <3>6
  <2>6. SnapshotCovered'
    <3>1. snapshot.clock \in Clocks /\ snapshot.pos \in Nat
      BY <1>1 DEF Typed
    <3>2. QED BY <1>2, <2>1, <2>2, <3>1 DEF SnapshotCovered, Within
  <2>7. QED BY <2>3, <2>4, <2>5, <2>6 DEF Ordered
<1>8. QED BY <1>2, <1>5, <1>6, <1>7 DEF ReplicasInv

LEMMA ExportSnapshotStep ==
  ASSUME ReplicasInv, NEW d \in Devices, ExportSnapshot(d)
  PROVE  ReplicasInv'
<1>1. Typed /\ HeaderRead
  BY DEF ReplicasInv
<1>2. /\ Ready(d) /\ pos[d] # None /\ ExportDelta(d).recs = Empty
      /\ snapshot' = [clock |-> header[d], recs |-> db[d].recs, pos |-> pos[d]]
      /\ UNCHANGED <<db, header, op, pos, sent, stream, unused, crashes>>
  BY DEF ExportSnapshot
<1>3. /\ header[d] \in Clocks /\ header[d] # None /\ op[d] = Idle /\ pos[d] \in Nat /\ db[d].recs \in Table
      /\ \A r \in Records : ~(db[d].recs[r] # None /\ db[d].recs[r].clock > sent[d])
  BY <1>1, <1>2, ExportTyped DEF Typed, Empty
<1>4. Typed'
  BY <1>1, <1>2, <1>3 DEF Typed
<1>5. HeaderRead'
  BY <1>1, <1>2 DEF HeaderRead
<1>6. ASSUME Ordered PROVE Ordered'
  <2>1. RecordsCovered(d) /\ Position(d) /\ Exports(d) /\ StreamChained
    BY <1>6 DEF Ordered, DeviceOrdered
  <2>2. /\ Within(db[d].recs, header[d]) /\ Follows(stream, header[d], pos[d]) /\ Covered(stream, header[d])
    BY <1>2, <1>3, <2>1 DEF RecordsCovered, Position, Exports, Idle
  <2>3. SnapshotCovered'
    BY <1>2, <2>2 DEF SnapshotCovered, Within
  <2>4. \A e \in Devices : DeviceOrdered(e)'
    BY <1>1, <1>2, <1>6, OthersKept DEF Ordered
  <2>5. StreamChained'
    BY <1>2, <2>1 DEF StreamChained, Within
  <2>6. QED BY <2>3, <2>4, <2>5 DEF Ordered
<1>7. QED BY <1>2, <1>4, <1>5, <1>6 DEF ReplicasInv

---------------------------------------------------------------------------
(* Applying a delta or a snapshot: the first and the last statement.               *)

LEMMA BeginApplyStep ==
  ASSUME ReplicasInv, NEW d \in Devices, BeginApply(d)
  PROVE  ReplicasInv'
<1> DEFINE x == stream[pos[d] + 1]
           n == Later(header[d], x.to)
           c == MaxClockOf(x.recs, n)
           o == [kind |-> "apply", todo |-> x.recs, clock |-> c, pos |-> pos[d] + 1]
<1>1. Typed /\ HeaderRead /\ stream \in Seq(Deltas)
  BY DEF ReplicasInv, Typed, Deltas
<1>2. /\ Ready(d) /\ pos[d] # None /\ pos[d] < Len(stream) /\ op' = [op EXCEPT ![d] = o]
      /\ UNCHANGED <<db, header, pos, sent, stream, snapshot, unused, crashes>>
  BY DEF BeginApply
<1>3. header[d] \in Clocks /\ header[d] # None /\ op[d] = Idle /\ pos[d] \in Nat /\ pos[d] + 1 \in 1 .. Len(stream)
  BY <1>1, <1>2 DEF Ready, Typed
<1>4. x.to \in Clocks /\ x.recs \in Table
  BY <1>1, <1>3, StreamEntry
<1> HIDE DEF x
<1>5. n \in Clocks /\ header[d] <= n /\ x.to <= n /\ n \in {header[d], x.to}
  BY <1>3, <1>4, BoundsAssumption DEF Later, Clocks
<1> HIDE DEF n
<1>6. c \in Clocks /\ n <= c /\ Within(x.recs, c) /\ (Within(x.recs, n) => c = n)
  BY <1>4, <1>5, MaxClockOfIsMax
<1> HIDE DEF c
<1>7. o \in Call /\ o.kind = "apply" /\ o.todo = x.recs /\ o.clock = c /\ o.pos = pos[d] + 1
  BY <1>3, <1>4, <1>6 DEF Call
<1> HIDE DEF o
<1>8. op'[d] = o /\ \A e \in Devices : e # d => op'[e] = op[e]
  BY <1>1, <1>2 DEF Typed
<1>9. Typed'
  BY <1>1, <1>2, <1>7 DEF Typed
<1>10. HeaderRead'
  BY <1>1, <1>2, <1>7, <1>8 DEF HeaderRead
<1>11. ASSUME Ordered PROVE Ordered'
  <2>1. RecordsCovered(d) /\ Position(d) /\ Exports(d) /\ StreamChained
    BY <1>11 DEF Ordered, DeviceOrdered
  <2>2. Within(x.recs, x.to)
    BY <1>3, <2>1 DEF StreamChained, x
  <2>3. \A m \in Clocks : m \in Nat
    BY BoundsAssumption DEF Clocks
  <2>4. \A r \in Records : x.recs[r] # None => x.recs[r].clock \in Clocks
    BY <1>4 DEF Table, Version
  <2>5. Within(x.recs, n) /\ c = n
    BY <1>4, <1>5, <1>6, <2>2, <2>3, <2>4 DEF Within
  <2>6. Within(db[d].recs, c)
    <3>1. \A r \in Records : db[d].recs[r] # None => db[d].recs[r].clock \in Clocks
      BY <1>1, RowTyped
    <3>2. QED BY <1>3, <1>5, <2>1, <2>3, <2>5, <3>1 DEF RecordsCovered, Within
  <2>7. RecordsCovered(d)'
    BY <1>2, <1>6, <1>7, <1>8, <2>6 DEF RecordsCovered, Within, Idle
  <2>8. Follows(stream, c, pos[d] + 1)
    <3>1. Follows(stream, c, pos[d])
      BY <1>1, <1>2, <1>3, <1>5, <2>1, <2>5, FollowsLater DEF Position
    <3>2. \A j \in 1 .. (pos[d] + 1) : j \in 1 .. pos[d] \/ j = pos[d] + 1
      BY <1>3
    <3>3. QED BY <1>3, <1>5, <2>5, <3>1, <3>2 DEF Follows, x
  <2>9. c = header[d] \/ Covered(stream, c)
    BY <1>3, <1>4, <1>5, <2>3, <2>5 DEF Covered, x
  <2>10. Position(d)'
    BY <1>2, <1>3, <1>5, <1>7, <1>8, <2>1, <2>5, <2>8, <2>9 DEF Position
  <2>11. Exports(d)'
    BY <1>2, <1>3, <2>1 DEF Exports, Idle
  <2>12. QED BY <1>1, <1>2, <1>8, <1>11, <2>7, <2>10, <2>11, OneDevice DEF DeviceOrdered
<1>12. QED BY <1>2, <1>9, <1>10, <1>11 DEF ReplicasInv

LEMMA FinishApplyStep ==
  ASSUME ReplicasInv, NEW d \in Devices, FinishApply(d)
  PROVE  ReplicasInv'
<1> DEFINE c == op[d].clock
<1>1. Typed /\ HeaderRead /\ stream \in Seq(Deltas)
  BY DEF ReplicasInv, Typed, Deltas
<1>2. /\ op[d].kind = "apply"
      /\ db' = [db EXCEPT ![d].clock = c]
      /\ header' = [header EXCEPT ![d] = c]
      /\ pos' = [pos EXCEPT ![d] = op[d].pos]
      /\ op' = [op EXCEPT ![d] = Idle]
      /\ UNCHANGED <<sent, stream, snapshot, unused, crashes>>
  BY DEF FinishApply, NewCursor
<1>3. c \in Clocks /\ op[d].pos \in Nat
  BY <1>1 DEF Typed, Call
<1> HIDE DEF c
<1>4. /\ db'[d].clock = c /\ db'[d].recs = db[d].recs /\ header'[d] = c /\ pos'[d] = op[d].pos /\ op'[d] = Idle
      /\ \A e \in Devices : e # d => db'[e] = db[e] /\ header'[e] = header[e] /\ pos'[e] = pos[e] /\ op'[e] = op[e]
  BY <1>1, <1>2 DEF Typed
<1>5. Typed'
  BY <1>1, <1>2, <1>3, IdleTyped DEF Typed
<1>6. HeaderRead'
  BY <1>1, <1>4 DEF HeaderRead, Idle
<1>7. ASSUME Ordered PROVE Ordered'
  <2>1. RecordsCovered(d) /\ Position(d) /\ Exports(d)
    BY <1>7 DEF Ordered, DeviceOrdered
  <2>2. /\ Within(db[d].recs, c) /\ header[d] # None /\ header[d] <= c /\ Follows(stream, c, op[d].pos)
        /\ c = header[d] \/ Covered(stream, c)
    BY <1>2, <2>1 DEF RecordsCovered, Position, c
  <2>3. RecordsCovered(d)'
    BY <1>4, <2>2 DEF RecordsCovered, Idle
  <2>4. c # None /\ c \in Nat /\ header[d] \in Nat /\ sent[d] \in Nat
    BY <1>1, <1>3, <2>2, BoundsAssumption DEF Typed, Clocks
  <2>5. Position(d)'
    BY <1>2, <1>4, <2>2, <2>4 DEF Position, Idle
  <2>6. Exports(d)'
    <3>1. sent[d] <= c
      BY <2>1, <2>2, <2>4 DEF Exports
    <3>2. QED BY <1>2, <1>4, <2>1, <2>2, <3>1 DEF Exports
  <2>7. QED BY <1>1, <1>2, <1>4, <1>7, <2>3, <2>5, <2>6, OneDevice DEF DeviceOrdered
<1>8. QED BY <1>2, <1>5, <1>6, <1>7 DEF ReplicasInv

LEMMA BeginSnapshotStep ==
  ASSUME ReplicasInv, NEW d \in Devices, BeginSnapshot(d)
  PROVE  ReplicasInv'
<1> DEFINE c == MaxClockOf(snapshot.recs, snapshot.clock)
           o == [kind |-> "snapshot", todo |-> snapshot.recs, clock |-> c, pos |-> snapshot.pos]
<1>1. Typed /\ HeaderRead
  BY DEF ReplicasInv
<1>2. /\ op[d] = Idle /\ header[d] = None /\ db[d].recs = Empty
      /\ op' = [op EXCEPT ![d] = o]
      /\ db' = [db EXCEPT ![d].clock = op'[d].clock]
      /\ UNCHANGED <<header, pos, sent, stream, snapshot, unused, crashes>>
  BY DEF BeginSnapshot
<1>3. snapshot.clock \in Clocks /\ snapshot.recs \in Table /\ snapshot.pos \in Nat
  BY <1>1 DEF Typed
<1>4. c \in Clocks /\ Within(snapshot.recs, c) /\ (Within(snapshot.recs, snapshot.clock) => c = snapshot.clock)
  BY <1>3, MaxClockOfIsMax
<1> HIDE DEF c
<1>5. o \in Call /\ o.kind = "snapshot" /\ o.todo = snapshot.recs /\ o.clock = c /\ o.pos = snapshot.pos
  BY <1>3, <1>4 DEF Call
<1> HIDE DEF o
<1>6. op'[d] = o /\ \A e \in Devices : e # d => op'[e] = op[e]
  BY <1>1, <1>2 DEF Typed
<1>7. db' = [db EXCEPT ![d].clock = c]
  BY <1>2, <1>5, <1>6
<1>8. db'[d].clock = c /\ db'[d].recs = Empty /\ \A e \in Devices : e # d => db'[e] = db[e]
  BY <1>1, <1>2, <1>7 DEF Typed
<1>9. Typed'
  BY <1>1, <1>2, <1>4, <1>5, <1>7 DEF Typed
<1>10. HeaderRead'
  BY <1>1, <1>2, <1>5, <1>6, <1>8 DEF HeaderRead
<1>11. ASSUME Ordered PROVE Ordered'
  <2>1. RecordsCovered(d) /\ Position(d) /\ Exports(d) /\ SnapshotCovered
    BY <1>11 DEF Ordered, DeviceOrdered
  <2>2. c = snapshot.clock /\ Follows(stream, c, snapshot.pos) /\ Covered(stream, c)
    BY <1>4, <2>1 DEF SnapshotCovered
  <2>3. \A r \in Records : db'[d].recs[r] = None
    BY <1>8 DEF Empty
  <2>4. RecordsCovered(d)'
    BY <1>4, <1>5, <1>6, <2>3 DEF RecordsCovered, Within, Idle
  <2>5. Position(d)'
    BY <1>2, <1>5, <1>6, <2>1, <2>2 DEF Position
  <2>6. Exports(d)'
    BY <1>2, <2>1 DEF Exports
  <2>7. QED BY <1>1, <1>2, <1>6, <1>8, <1>11, <2>4, <2>5, <2>6, OneDevice DEF DeviceOrdered
<1>12. QED BY <1>2, <1>9, <1>10, <1>11 DEF ReplicasInv

LEMMA FinishSnapshotStep ==
  ASSUME ReplicasInv, NEW d \in Devices, FinishSnapshot(d)
  PROVE  ReplicasInv'
<1> DEFINE c == op[d].clock
<1>1. Typed /\ HeaderRead
  BY DEF ReplicasInv
<1>2. /\ op[d].kind = "snapshot"
      /\ header' = [header EXCEPT ![d] = c]
      /\ pos' = [pos EXCEPT ![d] = op[d].pos]
      /\ sent' = [sent EXCEPT ![d] = c]
      /\ op' = [op EXCEPT ![d] = Idle]
      /\ UNCHANGED <<db, stream, snapshot, unused, crashes>>
  BY DEF FinishSnapshot
<1>3. c \in Clocks /\ op[d].pos \in Nat /\ db[d].clock = c
  BY <1>1, <1>2 DEF Typed, Call, HeaderRead
<1> HIDE DEF c
<1>4. /\ header'[d] = c /\ pos'[d] = op[d].pos /\ sent'[d] = c /\ op'[d] = Idle
      /\ \A e \in Devices : e # d => header'[e] = header[e] /\ pos'[e] = pos[e] /\ sent'[e] = sent[e] /\ op'[e] = op[e]
  BY <1>1, <1>2 DEF Typed
<1>5. Typed'
  BY <1>1, <1>2, <1>3, IdleTyped DEF Typed
<1>6. HeaderRead'
  BY <1>1, <1>2, <1>3, <1>4 DEF HeaderRead, Idle
<1>7. ASSUME Ordered PROVE Ordered'
  <2>1. RecordsCovered(d) /\ Position(d)
    BY <1>7 DEF Ordered, DeviceOrdered
  <2>2. Within(db[d].recs, c) /\ Follows(stream, c, op[d].pos) /\ Covered(stream, c)
    BY <1>2, <2>1 DEF RecordsCovered, Position, c
  <2>3. RecordsCovered(d)'
    BY <1>2, <1>4, <2>2 DEF RecordsCovered, Idle
  <2>4. c # None /\ c <= c
    BY <1>3, BoundsAssumption DEF Clocks
  <2>5. Position(d)'
    BY <1>2, <1>4, <2>2, <2>4 DEF Position, Idle
  <2>6. Exports(d)'
    BY <1>2, <1>4, <2>2, <2>4 DEF Exports
  <2>7. QED BY <1>1, <1>2, <1>4, <1>7, <2>3, <2>5, <2>6, OneDevice DEF DeviceOrdered
<1>8. QED BY <1>2, <1>5, <1>6, <1>7 DEF ReplicasInv

LEMMA CrashStep ==
  ASSUME ReplicasInv, NEW d \in Devices, Crash(d)
  PROVE  ReplicasInv'
<1>1. Typed /\ HeaderRead
  BY DEF ReplicasInv
<1>2. /\ crashes' = crashes + 1
      /\ header' = [header EXCEPT ![d] = db[d].clock]
      /\ op' = [op EXCEPT ![d] = Idle]
      /\ UNCHANGED <<db, pos, sent, stream, snapshot, unused>>
  BY DEF Crash
<1>3. crashes' \in Nat /\ crashes' # 0
  BY <1>1, <1>2 DEF Typed
<1>4. db[d].clock \in Clocks \union {None}
  BY <1>1 DEF Typed
<1>5. Typed'
  BY <1>1, <1>2, <1>3, <1>4, IdleTyped DEF Typed
<1>6. HeaderRead'
  BY <1>1, <1>2 DEF HeaderRead, Idle, Typed
<1>7. QED BY <1>3, <1>5, <1>6 DEF ReplicasInv

---------------------------------------------------------------------------
LEMMA ReplicasInitInv == Init => ReplicasInv
<1> SUFFICES ASSUME Init PROVE ReplicasInv
  OBVIOUS
<1>1. Empty \in Table /\ 0 \in Clocks /\ 0 # None /\ \A r \in Records : Empty[r] = None
  BY BoundsAssumption DEF Empty, Table, Clocks
<1>2. stream = <<>> /\ Len(stream) = 0
  BY DEF Init
<1>3. Typed
  <2>1. db \in [Devices -> [clock : Clocks \union {None}, recs : Table]]
    BY <1>1 DEF Init
  <2>2. stream \in Seq([from : Clocks, to : Clocks, recs : Table])
    BY <1>2
  <2>3. QED BY <1>1, <2>1, <2>2, IdleTyped DEF Init, Typed
<1>4. HeaderRead
  BY DEF Init, HeaderRead, Idle
<1>5. Follows(stream, 0, 0) /\ Covered(stream, 0)
  BY <1>2 DEF Follows, Covered
<1>6. ASSUME NEW d \in Devices PROVE DeviceOrdered(d)
  <2>1. op[d] = Idle /\ op[d].kind = "idle" /\ header[d] \in {0, None} /\ sent[d] = 0 /\ db[d].recs = Empty
        /\ (header[d] # None => pos[d] = 0) /\ (pos[d] # None => pos[d] = 0 /\ header[d] = 0)
    BY <1>1 DEF Init, Idle
  <2>2. RecordsCovered(d)
    BY <1>1, <2>1 DEF RecordsCovered, Within
  <2>3. Position(d)
    BY <1>1, <1>5, <2>1 DEF Position
  <2>4. Exports(d)
    BY <1>1, <1>5, <2>1 DEF Exports
  <2>5. QED BY <2>2, <2>3, <2>4 DEF DeviceOrdered
<1>7. SnapshotCovered
  BY <1>1, <1>5 DEF Init, SnapshotCovered, Within
<1>8. StreamChained
  BY <1>2 DEF StreamChained
<1>9. QED BY <1>3, <1>4, <1>6, <1>7, <1>8 DEF ReplicasInv, Ordered

LEMMA StoreStep ==
  ASSUME ReplicasInv, NEW d \in Devices, NEW r \in Records, Store(d, r) \/ Delete(d, r)
  PROVE  ReplicasInv'
<1>1. Typed /\ HeaderRead
  BY DEF ReplicasInv
<1>2. Ready(d) => BumpedClock(d) \in Nat
  BY <1>1, BoundsAssumption DEF Ready, Typed, HeaderRead, BumpedClock, Clocks
<1>3. CASE Store(d, r)
  <2>1. PICK t \in Times, n \in unused :
          /\ BeginWrite(d, r, [clock |-> BumpedClock(d), time |-> t, deleted |-> FALSE, nonce |-> n])
          /\ unused' = unused \ {n}
    BY <1>3 DEF Store
  <2>2. Ready(d) /\ unused' \subseteq Nonces /\ n \in Nonces
    BY <1>1, <1>3, <2>1 DEF Store, Typed
  <2> DEFINE v == [clock |-> BumpedClock(d), time |-> t, deleted |-> FALSE, nonce |-> n]
  <2>3. v \in Versions /\ v.clock = BumpedClock(d)
    BY <1>2, <2>2 DEF Versions
  <2> HIDE DEF v
  <2>4. BeginWrite(d, r, v)
    BY <2>1 DEF v
  <2>5. QED BY <2>2, <2>3, <2>4, BeginWriteStep
<1>4. CASE Delete(d, r)
  <2>1. Ready(d) /\ db[d].recs[r] # None /\ UNCHANGED unused
    BY <1>4 DEF Delete
  <2>2. PICK t \in Times :
          BeginWrite(d, r, [clock |-> BumpedClock(d), time |-> t, deleted |-> TRUE, nonce |-> db[d].recs[r].nonce])
    BY <1>4 DEF Delete
  <2>3. db[d].recs[r].nonce \in Nonces
    BY <1>1, <2>1, RowTyped DEF Version
  <2> DEFINE v == [clock |-> BumpedClock(d), time |-> t, deleted |-> TRUE, nonce |-> db[d].recs[r].nonce]
  <2>4. v \in Versions /\ v.clock = BumpedClock(d)
    BY <1>2, <2>1, <2>3 DEF Versions
  <2> HIDE DEF v
  <2>5. BeginWrite(d, r, v) /\ unused' \subseteq Nonces
    BY <1>1, <2>1, <2>2 DEF v, Typed
  <2>6. QED BY <2>1, <2>4, <2>5, BeginWriteStep
<1>5. QED BY <1>3, <1>4

LEMMA ReplicasInvStep == ReplicasInv /\ [Next]_vars => ReplicasInv'
<1>1. ASSUME ReplicasInv, Next PROVE ReplicasInv'
  <2>1. PICK d \in Devices :
          \/ \E r \in Records : Store(d, r) \/ Delete(d, r) \/ ApplyRecord(d, r) \/ SnapshotRecord(d, r)
          \/ WriteRecord(d) \/ Upload(d) \/ BeginApply(d) \/ FinishApply(d)
          \/ ExportSnapshot(d) \/ BeginSnapshot(d) \/ FinishSnapshot(d) \/ Crash(d)
    BY <1>1 DEF Next
  <2>2. QED
    BY <1>1, <2>1, StoreStep, ApplyRecordStep, SnapshotRecordStep, WriteRecordStep, UploadStep, BeginApplyStep,
       FinishApplyStep, ExportSnapshotStep, BeginSnapshotStep, FinishSnapshotStep, CrashStep
<1>2. ASSUME ReplicasInv, UNCHANGED vars PROVE ReplicasInv'
  BY <1>2 DEF vars, ReplicasInv, Typed, HeaderRead, Ordered, DeviceOrdered, RecordsCovered, Position, Exports,
              StreamChained, SnapshotCovered, Within
<1>3. QED BY <1>1, <1>2

LEMMA ReplicasInvariant == Spec => []ReplicasInv
  BY ReplicasInitInv, ReplicasInvStep, PTL DEF Spec

LEMMA SeqGrows ==
  ASSUME NEW S, NEW T, S \subseteq T, NEW s \in Seq(S)
  PROVE  s \in Seq(T)
  OBVIOUS

(* bump_logical_clock, export_delta and apply_delta: unless a crash cut a call     *)
(* short, a device's next edit is newer than all it holds, and no device that      *)
(* follows the stream meets a delta that apply_delta refuses as out of order.      *)
THEOREM ReplicaClocksInOrder == Spec => []ClocksInOrder
<1>1. ReplicasInv => TypeOK
  <2>1. Clocks \subseteq Nat /\ Table \subseteq Tables
    BY BoundsAssumption DEF Clocks, Table, Tables, Version, Versions
  <2>2. ASSUME Typed PROVE TypeOK
    <3>1. db \in [Devices -> [clock : Nat \union {None}, recs : Tables]]
      BY <2>1, <2>2 DEF Typed
    <3>2. op \in [Devices -> [kind : {"idle", "write", "apply", "snapshot"}, todo : Tables, clock : Nat, pos : Nat]]
      BY <2>1, <2>2 DEF Typed, Call
    <3>3. stream \in Seq([from : Nat, to : Nat, recs : Tables])
      <4>1. [from : Clocks, to : Clocks, recs : Table] \subseteq [from : Nat, to : Nat, recs : Tables]
        BY <2>1
      <4>2. QED BY ZenonT(60), <2>2, <4>1, SeqGrows DEF Typed
    <3>4. QED BY <2>1, <2>2, <3>1, <3>2, <3>3 DEF Typed, TypeOK
  <2>3. QED BY <2>2 DEF ReplicasInv
<1>2. ReplicasInv => ClockCoversRecords
  BY DEF ReplicasInv, Ordered, DeviceOrdered, RecordsCovered, Within, ClockCoversRecords, Ready
<1>3. ReplicasInv => StreamNeverOutOfOrder
  <2> SUFFICES ASSUME ReplicasInv, crashes = 0, NEW d \in Devices, Ready(d), pos[d] # None, pos[d] < Len(stream)
               PROVE  header[d] >= stream[pos[d] + 1].from
    BY DEF StreamNeverOutOfOrder, InOrder
  <2>1. stream \in Seq(Deltas) /\ pos[d] \in Nat /\ pos[d] + 1 \in 1 .. Len(stream) /\ header[d] \in Nat
    BY SMTT(30), BoundsAssumption DEF ReplicasInv, Typed, Deltas, Ready, Clocks
  <2>2. Follows(stream, header[d], pos[d]) /\ StreamChained
    BY DEF ReplicasInv, Ordered, DeviceOrdered, Position
  <2>3. CASE stream[pos[d] + 1].from = 0
    BY <2>1, <2>3
  <2>4. ASSUME NEW j \in 1 .. (pos[d] + 1) - 1, stream[pos[d] + 1].from <= stream[j].to
        PROVE  header[d] >= stream[pos[d] + 1].from
    <3>1. stream[j].to <= header[d] /\ j \in 1 .. Len(stream)
      BY <2>1, <2>2 DEF Follows
    <3>2. stream[j].to \in Nat /\ stream[pos[d] + 1].from \in Nat
      BY SMTT(30), <2>1, <3>1, StreamEntry, BoundsAssumption DEF Clocks
    <3>3. QED BY SMTT(30), <2>1, <2>4, <3>1, <3>2
  <2>5. QED BY <2>1, <2>2, <2>3, <2>4 DEF StreamChained
<1>4. QED BY <1>1, <1>2, <1>3, ReplicasInvariant, PTL DEF ClocksInOrder

---------------------------------------------------------------------------
(* The records of one device after a step of its own or of another's.              *)
LEMMA RowKept ==
  ASSUME Typed, NEW d \in Devices, NEW r \in Records, db[d].recs[r] # None, db'[d].recs[r] = db[d].recs[r]
  PROVE  db'[d].recs[r] # None /\ Precedes(db[d].recs[r], db'[d].recs[r])
  BY RowTyped, PrecedesTotal, BoundsAssumption DEF Version, Versions, Clocks

LEMMA RowNoRegress ==
  ASSUME Typed, NEW d \in Devices, NEW r \in Records, NEW v \in Version \union {None}, v # None,
         db' = [db EXCEPT ![d].recs[r] = v],
         NEW e \in Devices, NEW q \in Records, db[e].recs[q] # None,
         e = d /\ q = r => Precedes(db[e].recs[q], v)
  PROVE  db'[e].recs[q] # None /\ Precedes(db[e].recs[q], db'[e].recs[q])
<1>1. /\ db' \in [Devices -> [clock : Clocks \union {None}, recs : Table]]
      /\ db'[d].clock = db[d].clock
      /\ db'[d].recs[r] = v
      /\ \A s \in Records : s # r => db'[d].recs[s] = db[d].recs[s]
      /\ \A f \in Devices : f # d => db'[f] = db[f]
  BY RowWritten
<1>2. CASE e = d /\ q = r
  BY <1>1, <1>2
<1>3. CASE e # d \/ q # r
  BY <1>1, <1>3, RowKept
<1>4. QED BY <1>2, <1>3

LEMMA NoRegressStep ==
  ASSUME ReplicasInv, [Next]_vars, crashes = 0
  PROVE  NoRegress
<1>1. Typed /\ Ordered /\ Version \subseteq Versions
  BY BoundsAssumption DEF ReplicasInv, Version, Versions, Clocks
<1> SUFFICES ASSUME NEW e \in Devices, NEW q \in Records, db[e].recs[q] # None
             PROVE  db'[e].recs[q] # None /\ Precedes(db[e].recs[q], db'[e].recs[q])
  BY DEF NoRegress
<1>2. db[e].recs[q] \in Version
  BY <1>1, RowTyped
<1>3. ASSUME NEW d \in Devices, NEW r \in Records, NEW v \in Version \union {None}, db' = [db EXCEPT ![d].recs[r] = v],
             v # None, e = d /\ q = r => Precedes(db[e].recs[q], v)
      PROVE  db'[e].recs[q] # None /\ Precedes(db[e].recs[q], db'[e].recs[q])
  BY <1>1, <1>3, RowNoRegress
<1>4. ASSUME NEW d \in Devices, WriteRecord(d)
      PROVE  db'[e].recs[q] # None /\ Precedes(db[e].recs[q], db'[e].recs[q])
  <2>1. PICK r \in Records : op[d].todo[r] # None /\ db' = [db EXCEPT ![d].recs[r] = op[d].todo[r]]
    BY <1>4 DEF WriteRecord
  <2>2. op[d].todo[r] \in Version
    BY <1>1, <2>1, TodoTyped
  <2>3. ASSUME e = d, q = r PROVE Precedes(db[e].recs[q], op[d].todo[r])
    <3>1. db[e].recs[q].clock < op[d].todo[r].clock
      BY <1>1, <1>4, <2>1, <2>3 DEF WriteRecord, Ordered, DeviceOrdered, RecordsCovered
    <3>2. QED BY <1>1, <1>2, <2>2, <3>1, PrecedesTotal
  <2>4. QED BY <1>3, <2>1, <2>2, <2>3
<1>5. ASSUME NEW d \in Devices, NEW r \in Records, ApplyRecord(d, r)
      PROVE  db'[e].recs[q] # None /\ Precedes(db[e].recs[q], db'[e].recs[q])
  <2> DEFINE v == op[d].todo[r]
             w == db[d].recs[r]
             m == Merged(v, w)
  <2>1. v # None /\ db' = [db EXCEPT ![d].recs[r] = m]
    BY <1>5 DEF ApplyRecord, NextRecord
  <2>2. v \in Version /\ w \in Version \union {None}
    <3>1. v \in Version
      BY <1>1, <2>1, TodoTyped
    <3>2. w \in Version \union {None}
      BY <1>1, RowTyped
    <3>3. QED BY <3>1, <3>2
  <2>3. m \in {v, w} /\ m # None /\ (w # None => Precedes(w, m))
    BY <1>1, <2>1, <2>2, MergedIsNewest
  <2> HIDE DEF v, w, m
  <2>4. m \in Version
    BY <2>2, <2>3
  <2>5. e = d /\ q = r => Precedes(db[e].recs[q], m)
    BY <2>3 DEF w
  <2>6. QED BY <1>3, <2>1, <2>3, <2>4, <2>5
<1>6. ASSUME NEW d \in Devices, NEW r \in Records, SnapshotRecord(d, r)
      PROVE  db'[e].recs[q] # None /\ Precedes(db[e].recs[q], db'[e].recs[q])
  <2>1. op[d].todo[r] # None /\ op[d].kind = "snapshot" /\ db' = [db EXCEPT ![d].recs[r] = op[d].todo[r]]
    BY <1>6 DEF SnapshotRecord, NextRecord
  <2>2. op[d].todo[r] \in Version /\ db[d].recs[r] = None
    BY <1>1, <2>1, TodoTyped DEF Ordered, DeviceOrdered, RecordsCovered
  <2>3. QED BY <1>3, <2>1, <2>2
<1>7. ASSUME db'[e].recs = db[e].recs
      PROVE  db'[e].recs[q] # None /\ Precedes(db[e].recs[q], db'[e].recs[q])
  BY <1>1, <1>7, RowKept
<1>8. ASSUME NEW d \in Devices, NEW c, db' = [db EXCEPT ![d].clock = c]
      PROVE  db'[e].recs = db[e].recs
  BY <1>1, <1>8 DEF Typed
<1>9. ASSUME NEW d \in Devices, NEW r \in Records, Store(d, r) \/ Delete(d, r)
      PROVE  db'[e].recs = db[e].recs
  BY <1>8, <1>9 DEF Store, Delete, BeginWrite
<1>10. ASSUME NEW d \in Devices, FinishApply(d) \/ BeginSnapshot(d)
       PROVE  db'[e].recs = db[e].recs
  BY <1>8, <1>10 DEF FinishApply, BeginSnapshot
<1>11. ASSUME NEW d \in Devices,
              Upload(d) \/ BeginApply(d) \/ ExportSnapshot(d) \/ FinishSnapshot(d) \/ Crash(d)
       PROVE  db'[e].recs = db[e].recs
  BY <1>11 DEF Upload, BeginApply, ExportSnapshot, FinishSnapshot, Crash
<1>12. CASE UNCHANGED vars
  BY <1>7, <1>12 DEF vars
<1>13. QED BY <1>4, <1>5, <1>6, <1>7, <1>9, <1>10, <1>11, <1>12 DEF Next

(* store_record, delete_record and apply_delta: unless a crash cut a call short, no*)
(* record disappears and none gives way to a version that precedes it.             *)
THEOREM ReplicaRecordsNeverRegress == Spec => RecordsNeverRegress
<1>1. ReplicasInv /\ [Next]_vars => [crashes = 0 => NoRegress]_vars
  BY NoRegressStep
<1>2. QED BY <1>1, ReplicasInvariant, PTL DEF Spec, RecordsNeverRegress
---------------------------------------------------------------------------
(* Agreement.  Crashes included: a crash can make a device give up a record it has *)
(* half received, but the position of its client then still precedes that delta.   *)

(* Version w is v or takes precedence over it.                                     *)
Overtakes(w, v) == v # None => w # None /\ Precedes(v, w)

(* The table has every version of the first p deltas of s, or a later one.         *)
Holds(s, p, recs) == p \in 0 .. Len(s) /\ \A k \in 1 .. p, r \in Records : Overtakes(recs[r], s[k].recs[r])

(* Clock n is at least that of every version in the first p deltas of s.           *)
Bounds(s, p, n) == \A k \in 1 .. p : Within(s[k].recs, n)

Published(s, r, v) == \E k \in 1 .. Len(s) : s[k].recs[r] = v

(* A device that follows the stream holds what it has applied, and holds nothing   *)
(* that it will not export and that is not in the stream.                          *)
Merging(d) ==
  pos[d] # None =>
    /\ header[d] # None /\ sent[d] <= header[d]
    /\ Holds(stream, pos[d], db[d].recs)
    /\ Bounds(stream, pos[d], header[d])
    /\ \A r \in Records : db[d].recs[r] # None =>
         db[d].recs[r].clock > sent[d] \/ Published(stream, r, db[d].recs[r])

(* The edit in progress is newer than all the deltas applied.                      *)
Writing(d) ==
  op[d].kind = "write" /\ pos[d] # None => \A r \in Records : op[d].todo[r] # None =>
    /\ op[d].todo[r].clock > sent[d]
    /\ \A k \in 1 .. pos[d] : stream[k].recs[r] # None => stream[k].recs[r].clock < op[d].todo[r].clock

(* A delta is the next one of the stream, and what is not to do any more is done.  *)
Applying(d) ==
  op[d].kind = "apply" =>
    /\ pos[d] # None /\ op[d].pos = pos[d] + 1 /\ op[d].pos <= Len(stream)
    /\ header[d] <= op[d].clock /\ Within(stream[op[d].pos].recs, op[d].clock)
    /\ \A r \in Records :
         /\ op[d].todo[r] # None => op[d].todo[r] = stream[op[d].pos].recs[r]
         /\ op[d].todo[r] = None => Overtakes(db[d].recs[r], stream[op[d].pos].recs[r])

(* A snapshot and the records taken from it hold what its position claims.         *)
Joining(d) ==
  op[d].kind = "snapshot" =>
    /\ pos[d] = None /\ op[d].pos \in 0 .. Len(stream) /\ Bounds(stream, op[d].pos, op[d].clock)
    /\ \A r \in Records :
         /\ op[d].todo[r] # None => Published(stream, r, op[d].todo[r])
         /\ db[d].recs[r] # None => Published(stream, r, db[d].recs[r])
         /\ \A k \in 1 .. op[d].pos :
              /\ op[d].todo[r] # None => Overtakes(op[d].todo[r], stream[k].recs[r])
              /\ op[d].todo[r] = None => Overtakes(db[d].recs[r], stream[k].recs[r])

SnapshotHolds ==
  /\ Holds(stream, snapshot.pos, snapshot.recs)
  /\ Bounds(stream, snapshot.pos, snapshot.clock)
  /\ \A r \in Records : snapshot.recs[r] # None => Published(stream, r, snapshot.recs[r])

DeviceAgrees(d) == Merging(d) /\ Writing(d) /\ Applying(d) /\ Joining(d)

Agreeing == (\A d \in Devices : DeviceAgrees(d)) /\ SnapshotHolds

AgreementInv == ReplicasInv /\ Agreeing

(* What is in the stream, and at which place, does not change when it grows.       *)
LEMMA Grown ==
  ASSUME NEW s \in Seq(Deltas), NEW t, t = s \/ \E x \in Deltas : t = Append(s, x)
  PROVE  /\ Len(s) \in Nat /\ Len(t) \in Nat /\ Len(s) <= Len(t)
         /\ \A k \in 1 .. Len(s) : t[k] = s[k]
         /\ \A r, v : Published(s, r, v) => Published(t, r, v)
         /\ \A p, recs : Holds(s, p, recs) => Holds(t, p, recs)
         /\ \A p \in 0 .. Len(s) : \A n : Bounds(s, p, n) => Bounds(t, p, n)
<1>1. Len(s) \in Nat /\ Len(t) \in Nat /\ Len(s) <= Len(t) /\ \A k \in 1 .. Len(s) : t[k] = s[k]
  OBVIOUS
<1>2. \A r, v : Published(s, r, v) => Published(t, r, v)
  BY <1>1 DEF Published
<1>3. \A p, recs : Holds(s, p, recs) => Holds(t, p, recs)
  BY <1>1 DEF Holds
<1>4. \A p \in 0 .. Len(s) : \A n : Bounds(s, p, n) => Bounds(t, p, n)
  <2>1. ASSUME NEW p \in 0 .. Len(s), NEW n, Bounds(s, p, n), NEW k \in 1 .. p PROVE Within(t[k].recs, n)
    <3>1. k \in 1 .. Len(s) /\ Within(s[k].recs, n)
      BY <1>1, <2>1 DEF Bounds
    <3>2. QED BY <1>1, <3>1
  <2>2. QED BY <2>1 DEF Bounds
<1>5. QED BY <1>1, <1>2, <1>3, <1>4

LEMMA OthersAgree ==
  ASSUME Typed, NEW e \in Devices, DeviceAgrees(e),
         db'[e] = db[e], header'[e] = header[e], op'[e] = op[e], pos'[e] = pos[e], sent'[e] = sent[e],
         stream' = stream \/ \E x \in Deltas : stream' = Append(stream, x)
  PROVE  DeviceAgrees(e)'
<1>1. stream \in Seq(Deltas) /\ op[e].pos \in Nat /\ (pos[e] # None => pos[e] \in Nat)
  BY DEF Typed, Deltas, Call
<1>2. /\ Len(stream) \in Nat /\ Len(stream') \in Nat /\ Len(stream) <= Len(stream')
      /\ \A k \in 1 .. Len(stream) : stream'[k] = stream[k]
      /\ \A r, v : Published(stream, r, v) => Published(stream', r, v)
      /\ \A p, recs : Holds(stream, p, recs) => Holds(stream', p, recs)
      /\ \A p \in 0 .. Len(stream) : \A n : Bounds(stream, p, n) => Bounds(stream', p, n)
  BY <1>1, Grown
<1>3. Merging(e)'
  BY <1>2 DEF DeviceAgrees, Merging, Holds
<1>4. Writing(e)'
  BY <1>1, <1>2 DEF DeviceAgrees, Writing, Merging, Holds
<1>5. Applying(e)'
  <2>1. op[e].kind = "apply" => op[e].pos \in 1 .. Len(stream)
    BY <1>1, <1>2 DEF DeviceAgrees, Applying
  <2>2. op[e].kind = "apply" => stream'[op[e].pos] = stream[op[e].pos]
    BY <1>2, <2>1
  <2>3. QED BY <1>1, <1>2, <2>1, <2>2 DEF DeviceAgrees, Applying, Within
<1>6. Joining(e)'
  <2>1. op[e].kind = "snapshot" => op[e].pos \in 0 .. Len(stream') /\ Bounds(stream', op[e].pos, op[e].clock)
    BY <1>1, <1>2 DEF DeviceAgrees, Joining
  <2>2. op[e].kind = "snapshot" => \A k \in 1 .. op[e].pos : stream'[k] = stream[k]
    BY <1>1, <1>2 DEF DeviceAgrees, Joining
  <2>3. QED BY <1>1, <1>2, <2>1, <2>2 DEF DeviceAgrees, Joining
<1>7. QED BY <1>3, <1>4, <1>5, <1>6 DEF DeviceAgrees

(* A step of one device that leaves stream and snapshot alone.                     *)
LEMMA OneAgrees ==
  ASSUME Typed, Agreeing, NEW d \in Devices, DeviceAgrees(d)', UNCHANGED <<stream, snapshot>>,
         \A e \in Devices : e # d =>
           db'[e] = db[e] /\ header'[e] = header[e] /\ op'[e] = op[e] /\ pos'[e] = pos[e] /\ sent'[e] = sent[e]
  PROVE  Agreeing'
<1>1. \A e \in Devices : DeviceAgrees(e)'
  BY OthersAgree DEF Agreeing
<1>2. SnapshotHolds'
  BY DEF Agreeing, SnapshotHolds, Holds, Bounds, Within, Overtakes, Published
<1>3. QED BY <1>1, <1>2 DEF Agreeing

(* Idle devices have nothing in progress.                                          *)
LEMMA IdleAgrees ==
  ASSUME NEW d \in Devices, op'[d] = Idle, Merging(d)'
  PROVE  DeviceAgrees(d)'
<1>1. op'[d].kind = "idle"
  BY DEF Idle
<1>2. QED BY <1>1 DEF DeviceAgrees, Writing, Applying, Joining

LEMMA BeginWriteAgrees ==
  ASSUME AgreementInv, NEW d \in Devices, NEW r \in Records, NEW v, v.clock = BumpedClock(d),
         Ready(d), BeginWrite(d, r, v)
  PROVE  Agreeing'
<1> DEFINE c == BumpedClock(d)
           todo == [Empty EXCEPT ![r] = v]
           w == [kind |-> "write", todo |-> todo, clock |-> 0, pos |-> 0]
<1>1. Typed /\ HeaderRead /\ Agreeing /\ DeviceAgrees(d)
  BY DEF ReplicasInv, AgreementInv, Agreeing
<1>2. header[d] \in Clocks /\ header[d] = db[d].clock /\ c = header[d] + 1 /\ sent[d] \in Nat
      /\ header[d] \in Nat /\ \A n \in Clocks : n \in Nat
  BY <1>1, BoundsAssumption DEF Ready, Typed, HeaderRead, BumpedClock, Clocks
<1>3. \A q \in Records : todo[q] # None => todo[q].clock = c
  BY DEF Empty
<1>4. /\ db' = [db EXCEPT ![d].clock = c]
      /\ header' = [header EXCEPT ![d] = c]
      /\ op' = [op EXCEPT ![d] = w]
      /\ UNCHANGED <<pos, sent, stream, snapshot>>
  BY DEF BeginWrite
<1> HIDE DEF c, todo
<1>5. /\ db'[d].recs = db[d].recs /\ header'[d] = c /\ op'[d] = w
      /\ \A e \in Devices : e # d => db'[e] = db[e] /\ header'[e] = header[e] /\ op'[e] = op[e]
  BY <1>1, <1>4 DEF Typed
<1>6. ASSUME pos[d] # None
      PROVE  /\ sent[d] < c
             /\ \A k \in 1 .. pos[d], q \in Records : stream[k].recs[q] # None =>
                  stream[k].recs[q].clock < c /\ stream[k].recs[q].clock <= c
  <2>1. sent[d] <= header[d] /\ Bounds(stream, pos[d], header[d]) /\ pos[d] \in 0 .. Len(stream) /\ stream \in Seq(Deltas)
    BY <1>1, <1>6 DEF DeviceAgrees, Merging, Holds, Typed, Deltas
  <2>2. ASSUME NEW k \in 1 .. pos[d], NEW q \in Records, stream[k].recs[q] # None
        PROVE  stream[k].recs[q].clock < c /\ stream[k].recs[q].clock <= c
    <3>1. k \in 1 .. Len(stream) /\ stream[k].recs[q].clock <= header[d]
      BY <2>1, <2>2 DEF Bounds, Within
    <3>2. stream[k].recs \in Table
      BY <2>1, <3>1, StreamEntry
    <3>3. stream[k].recs[q].clock \in Nat
      BY <1>2, <2>2, <3>2 DEF Table, Version
    <3> HIDE DEF c
    <3>4. \A m \in Nat : m <= header[d] => m < header[d] + 1 /\ m <= header[d] + 1
      BY <1>2
    <3>5. QED BY <1>2, <3>1, <3>3, <3>4
  <2>3. QED BY <1>2, <2>1, <2>2
<1>7. c # None /\ c \in Nat
  BY <1>2, BoundsAssumption
<1>8. Merging(d)'
  <2>1. ASSUME pos[d] # None PROVE sent[d] <= c /\ Bounds(stream, pos[d], c)
    <3>1. \A k \in 1 .. pos[d], q \in Records : stream[k].recs[q] # None => stream[k].recs[q].clock <= c
      BY <1>6, <2>1
    <3>2. QED BY <1>2, <1>6, <1>7, <2>1, <3>1 DEF Bounds, Within
  <2>2. QED BY <1>1, <1>4, <1>5, <1>7, <2>1 DEF DeviceAgrees, Merging
<1>9. op'[d].kind = "write" /\ op'[d].todo = todo
  BY <1>5
<1>10. Writing(d)'
  BY <1>2, <1>3, <1>4, <1>6, <1>7, <1>9 DEF Writing
<1>11. Applying(d)' /\ Joining(d)'
  BY <1>9 DEF Applying, Joining
<1>12. DeviceAgrees(d)'
  BY <1>8, <1>10, <1>11 DEF DeviceAgrees
<1>13. QED BY <1>1, <1>4, <1>5, <1>12, OneAgrees

LEMMA WriteRecordAgrees ==
  ASSUME AgreementInv, NEW d \in Devices, WriteRecord(d)
  PROVE  Agreeing'
<1>1. Typed /\ Agreeing /\ Merging(d) /\ Writing(d) /\ Version \subseteq Versions /\ stream \in Seq(Deltas)
  BY BoundsAssumption DEF ReplicasInv, AgreementInv, Agreeing, DeviceAgrees, Version, Versions, Clocks, Typed, Deltas
<1>2. PICK r \in Records : op[d].todo[r] # None /\ db' = [db EXCEPT ![d].recs[r] = op[d].todo[r]]
  BY DEF WriteRecord
<1>3. op[d].kind = "write" /\ op' = [op EXCEPT ![d] = Idle] /\ UNCHANGED <<header, pos, sent, stream, snapshot>>
  BY DEF WriteRecord
<1> DEFINE v == op[d].todo[r]
<1>4. v \in Version /\ v # None
  BY <1>1, <1>2, TodoTyped
<1> HIDE DEF v
<1>5. /\ db' \in [Devices -> [clock : Clocks \union {None}, recs : Table]]
      /\ db'[d].clock = db[d].clock
      /\ db'[d].recs[r] = v
      /\ \A q \in Records : q # r => db'[d].recs[q] = db[d].recs[q]
      /\ \A e \in Devices : e # d => db'[e] = db[e]
  BY <1>1, <1>2, <1>4, RowWritten DEF v
<1>6. op'[d] = Idle /\ \A e \in Devices : e # d => op'[e] = op[e]
  BY <1>1, <1>3 DEF Typed
<1>7. ASSUME pos[d] # None PROVE v.clock > sent[d] /\ Holds(stream, pos[d], db'[d].recs)
  <2>1. /\ Holds(stream, pos[d], db[d].recs) /\ v.clock > sent[d]
        /\ \A k \in 1 .. pos[d] : stream[k].recs[r] # None => stream[k].recs[r].clock < v.clock
    BY <1>1, <1>2, <1>3, <1>7 DEF Merging, Writing, v
  <2>2. ASSUME NEW k \in 1 .. pos[d], NEW q \in Records PROVE Overtakes(db'[d].recs[q], stream[k].recs[q])
    <3>1. CASE q # r
      BY <1>5, <2>1, <3>1 DEF Holds
    <3>2. CASE q = r /\ stream[k].recs[r] # None
      <4>1. k \in 1 .. Len(stream)
        BY <2>1 DEF Holds
      <4>2. stream[k].recs \in Table
        BY <1>1, <4>1, StreamEntry
      <4>3. stream[k].recs[r] \in Version
        BY <3>2, <4>2 DEF Table
      <4>4. Precedes(stream[k].recs[r], v)
        BY <1>1, <1>4, <2>1, <3>2, <4>3, PrecedesTotal
      <4>5. QED BY <1>4, <1>5, <3>2, <4>4 DEF Overtakes
    <3>3. QED BY <3>1, <3>2 DEF Overtakes
  <2>3. QED BY <2>1, <2>2 DEF Holds
<1>8. Merging(d)'
  BY <1>1, <1>3, <1>5, <1>7 DEF Merging
<1>9. DeviceAgrees(d)'
  BY <1>6, <1>8, IdleAgrees
<1>10. QED BY <1>1, <1>3, <1>5, <1>6, <1>9, OneAgrees

LEMMA StoreAgrees ==
  ASSUME AgreementInv, NEW d \in Devices, NEW r \in Records, Store(d, r) \/ Delete(d, r)
  PROVE  Agreeing'
<1>1. Ready(d) /\ \E v : v.clock = BumpedClock(d) /\ BeginWrite(d, r, v)
  <2>1. CASE Store(d, r)
    <3>1. PICK t \in Times, n \in unused :
            BeginWrite(d, r, [clock |-> BumpedClock(d), time |-> t, deleted |-> FALSE, nonce |-> n])
      BY <2>1 DEF Store
    <3> DEFINE v == [clock |-> BumpedClock(d), time |-> t, deleted |-> FALSE, nonce |-> n]
    <3>2. v.clock = BumpedClock(d) /\ BeginWrite(d, r, v)
      BY <3>1
    <3> HIDE DEF v
    <3>3. QED BY <2>1, <3>2 DEF Store
  <2>2. CASE Delete(d, r)
    <3>1. PICK t \in Times :
            BeginWrite(d, r, [clock |-> BumpedClock(d), time |-> t, deleted |-> TRUE, nonce |-> db[d].recs[r].nonce])
      BY <2>2 DEF Delete
    <3> DEFINE v == [clock |-> BumpedClock(d), time |-> t, deleted |-> TRUE, nonce |-> db[d].recs[r].nonce]
    <3>2. v.clock = BumpedClock(d) /\ BeginWrite(d, r, v)
      BY <3>1
    <3> HIDE DEF v
    <3>3. QED BY <2>2, <3>2 DEF Delete
  <2>3. QED BY <2>1, <2>2
<1>2. QED BY <1>1, BeginWriteAgrees

LEMMA ApplyRecordAgrees ==
  ASSUME AgreementInv, NEW d \in Devices, NEW r \in Records, ApplyRecord(d, r)
  PROVE  Agreeing'
<1>1. Typed /\ Agreeing /\ Merging(d) /\ Applying(d) /\ Version \subseteq Versions /\ stream \in Seq(Deltas)
  BY BoundsAssumption DEF ReplicasInv, AgreementInv, Agreeing, DeviceAgrees, Version, Versions, Clocks, Typed, Deltas
<1>2. /\ op[d].kind = "apply" /\ op[d].todo[r] # None
      /\ db' = [db EXCEPT ![d].recs[r] = Merged(op[d].todo[r], db[d].recs[r])]
      /\ op' = [op EXCEPT ![d].todo[r] = None]
      /\ UNCHANGED <<header, pos, sent, stream, snapshot>>
  BY DEF ApplyRecord, NextRecord
<1> DEFINE v == op[d].todo[r]
           w == db[d].recs[r]
           m == Merged(v, w)
<1>3. v \in Version /\ w \in Version \union {None}
  BY <1>1, <1>2, TodoTyped, RowTyped
<1>4. /\ m \in {v, w} /\ m # None
      /\ w # None => Precedes(w, m) /\ Precedes(v, m)
  BY <1>1, <1>2, <1>3, MergedIsNewest
<1>5. m \in Version /\ Precedes(v, m)
  BY <1>1, <1>3, <1>4, PrecedesTotal
<1> HIDE DEF v, w, m
<1>6. /\ db' \in [Devices -> [clock : Clocks \union {None}, recs : Table]]
      /\ db'[d].clock = db[d].clock
      /\ db'[d].recs[r] = m
      /\ \A q \in Records : q # r => db'[d].recs[q] = db[d].recs[q]
      /\ \A e \in Devices : e # d => db'[e] = db[e]
  BY <1>1, <1>2, <1>5, RowWritten DEF v, w, m
<1>7. /\ op' \in [Devices -> Call]
      /\ op'[d].kind = op[d].kind /\ op'[d].clock = op[d].clock /\ op'[d].pos = op[d].pos
      /\ op'[d].todo[r] = None
      /\ \A q \in Records : q # r => op'[d].todo[q] = op[d].todo[q]
      /\ \A e \in Devices : e # d => op'[e] = op[e]
  BY <1>1, <1>2, EntryDone
<1>8. /\ pos[d] # None /\ op[d].pos = pos[d] + 1 /\ op[d].pos \in 1 .. Len(stream)
      /\ v = stream[op[d].pos].recs[r]
      /\ Holds(stream, pos[d], db[d].recs)
  BY <1>1, <1>2 DEF Applying, Merging, Typed, v
<1>9. Published(stream, r, v)
  BY <1>8 DEF Published
<1>10. Holds(stream, pos[d], db'[d].recs)
  <2>1. ASSUME NEW k \in 1 .. pos[d], NEW q \in Records PROVE Overtakes(db'[d].recs[q], stream[k].recs[q])
    <3>1. CASE q # r
      BY <1>6, <1>8, <3>1 DEF Holds
    <3>2. CASE q = r /\ stream[k].recs[r] # None
      <4>1. k \in 1 .. Len(stream) /\ Overtakes(w, stream[k].recs[r])
        BY <1>8 DEF Holds, w
      <4>2. stream[k].recs \in Table
        BY <1>1, <4>1, StreamEntry
      <4>3. stream[k].recs[r] \in Version /\ w # None /\ Precedes(stream[k].recs[r], w)
        BY <3>2, <4>1, <4>2 DEF Table, Overtakes
      <4>4. Precedes(w, m) /\ w \in Versions /\ m \in Versions /\ stream[k].recs[r] \in Versions
        BY <1>1, <1>3, <1>4, <1>5, <4>3
      <4>5. Precedes(stream[k].recs[r], m)
        BY <4>3, <4>4, PrecedesTransitive
      <4>6. QED BY <1>4, <1>6, <3>2, <4>5 DEF Overtakes
    <3>3. QED BY <3>1, <3>2 DEF Overtakes
  <2>2. QED BY <1>8, <2>1 DEF Holds
<1>11. m.clock > sent[d] \/ Published(stream, r, m)
  BY <1>1, <1>4, <1>8, <1>9 DEF Merging, w
<1>12. Merging(d)'
  BY SMTT(30), <1>1, <1>2, <1>6, <1>10, <1>11 DEF Merging
<1>13. Applying(d)'
  <2>1. Overtakes(db'[d].recs[r], stream[op[d].pos].recs[r])
    BY <1>4, <1>5, <1>6, <1>8 DEF Overtakes
  <2>2. QED BY <1>1, <1>2, <1>6, <1>7, <2>1 DEF Applying, Within
<1>14. Writing(d)' /\ Joining(d)'
  BY <1>2, <1>7 DEF Writing, Joining
<1>15. DeviceAgrees(d)'
  BY <1>12, <1>13, <1>14 DEF DeviceAgrees
<1>16. QED BY <1>1, <1>2, <1>6, <1>7, <1>15, OneAgrees

LEMMA SnapshotRecordAgrees ==
  ASSUME AgreementInv, NEW d \in Devices, NEW r \in Records, SnapshotRecord(d, r)
  PROVE  Agreeing'
<1>1. Typed /\ Agreeing /\ Joining(d)
  BY DEF ReplicasInv, AgreementInv, Agreeing, DeviceAgrees
<1>2. /\ op[d].kind = "snapshot" /\ op[d].todo[r] # None
      /\ db' = [db EXCEPT ![d].recs[r] = op[d].todo[r]]
      /\ op' = [op EXCEPT ![d].todo[r] = None]
      /\ UNCHANGED <<header, pos, sent, stream, snapshot>>
  BY DEF SnapshotRecord, NextRecord
<1> DEFINE v == op[d].todo[r]
<1>3. v \in Version
  BY <1>1, <1>2, TodoTyped
<1> HIDE DEF v
<1>6. /\ db' \in [Devices -> [clock : Clocks \union {None}, recs : Table]]
      /\ db'[d].clock = db[d].clock
      /\ db'[d].recs[r] = v
      /\ \A q \in Records : q # r => db'[d].recs[q] = db[d].recs[q]
      /\ \A e \in Devices : e # d => db'[e] = db[e]
  BY <1>1, <1>2, <1>3, RowWritten DEF v
<1>7. /\ op' \in [Devices -> Call]
      /\ op'[d].kind = op[d].kind /\ op'[d].clock = op[d].clock /\ op'[d].pos = op[d].pos
      /\ op'[d].todo[r] = None
      /\ \A q \in Records : q # r => op'[d].todo[q] = op[d].todo[q]
      /\ \A e \in Devices : e # d => op'[e] = op[e]
  BY <1>1, <1>2, EntryDone
<1>8. Joining(d)'
  <2>1. /\ pos[d] = None /\ op[d].pos \in 0 .. Len(stream) /\ Bounds(stream, op[d].pos, op[d].clock)
        /\ Published(stream, r, v) /\ \A k \in 1 .. op[d].pos : Overtakes(v, stream[k].recs[r])
    BY <1>1, <1>2 DEF Joining, v
  <2>2. ASSUME NEW q \in Records
        PROVE  /\ op'[d].todo[q] # None => Published(stream, q, op'[d].todo[q])
               /\ db'[d].recs[q] # None => Published(stream, q, db'[d].recs[q])
               /\ \A k \in 1 .. op[d].pos :
                    /\ op'[d].todo[q] # None => Overtakes(op'[d].todo[q], stream[k].recs[q])
                    /\ op'[d].todo[q] = None => Overtakes(db'[d].recs[q], stream[k].recs[q])
    <3>1. CASE q = r
      BY <1>6, <1>7, <2>1, <3>1
    <3>2. CASE q # r
      BY <1>1, <1>2, <1>6, <1>7, <3>2 DEF Joining
    <3>3. QED BY <3>1, <3>2
  <2>3. QED BY <1>2, <1>7, <2>1, <2>2 DEF Joining
<1>9. Merging(d)' /\ Writing(d)' /\ Applying(d)'
  BY <1>1, <1>2, <1>7 DEF Merging, Writing, Applying, Joining
<1>10. QED BY <1>1, <1>2, <1>6, <1>7, <1>8, <1>9, OneAgrees DEF DeviceAgrees

LEMMA UploadAgrees ==
  ASSUME AgreementInv, NEW d \in Devices, Upload(d)
  PROVE  Agreeing'
<1> DEFINE x == ExportDelta(d)
<1>1. Typed /\ Agreeing /\ Merging(d) /\ stream \in Seq(Deltas)
  BY DEF ReplicasInv, AgreementInv, Agreeing, DeviceAgrees, Typed, Deltas
<1>2. /\ Ready(d) /\ stream' = Append(stream, x)
      /\ sent' = [sent EXCEPT ![d] = header[d]]
      /\ UNCHANGED <<db, header, op, pos, snapshot>>
  BY DEF Upload
<1>3. /\ x \in Deltas /\ header[d] \in Clocks /\ op[d] = Idle
      /\ \A r \in Records : x.recs[r] \in {db[d].recs[r], None}
      /\ \A r \in Records : db[d].recs[r] # None /\ db[d].recs[r].clock > sent[d] => x.recs[r] # None
  BY <1>1, <1>2, ExportTyped
<1> HIDE DEF x
<1>4. sent'[d] = header[d] /\ \A e \in Devices : e # d => sent'[e] = sent[e]
  BY <1>1, <1>2 DEF Typed
<1>5. /\ Len(stream) \in Nat /\ Len(stream') \in Nat /\ Len(stream) <= Len(stream')
      /\ \A k \in 1 .. Len(stream) : stream'[k] = stream[k]
      /\ \A r, v : Published(stream, r, v) => Published(stream', r, v)
      /\ \A p, recs : Holds(stream, p, recs) => Holds(stream', p, recs)
      /\ \A p \in 0 .. Len(stream) : \A n : Bounds(stream, p, n) => Bounds(stream', p, n)
  BY <1>1, <1>2, <1>3, Grown
<1>6. ASSUME NEW r \in Records, db[d].recs[r] # None, pos[d] # None
      PROVE  Published(stream', r, db[d].recs[r])
  <2>1. CASE Published(stream, r, db[d].recs[r])
    BY <1>5, <2>1
  <2>2. CASE db[d].recs[r].clock > sent[d]
    <3>1. x.recs[r] = db[d].recs[r]
      BY <1>3, <1>6, <2>2
    <3>2. stream'[Len(stream) + 1] = x /\ Len(stream') = Len(stream) + 1
      BY <1>1, <1>2, <1>3
    <3>3. Len(stream) + 1 \in 1 .. Len(stream')
      BY <1>5, <3>2
    <3>4. QED BY <3>1, <3>2, <3>3 DEF Published
  <2>3. QED BY <1>1, <1>6, <2>1, <2>2 DEF Merging
<1>7. Merging(d)'
  <2>1. header[d] <= header[d]
    BY <1>3, BoundsAssumption DEF Clocks
  <2>2. pos[d] # None => Holds(stream', pos[d], db[d].recs) /\ Bounds(stream', pos[d], header[d])
    BY <1>1, <1>5 DEF Merging, Holds
  <2>3. QED BY <1>1, <1>2, <1>4, <1>6, <2>1, <2>2 DEF Merging
<1>8. DeviceAgrees(d)'
  BY <1>2, <1>3, <1>7, IdleAgrees
<1>9. \A e \in Devices : e # d => DeviceAgrees(e)'
  BY <1>1, <1>2, <1>3, <1>4, OthersAgree DEF Agreeing
<1>10. SnapshotHolds'
  BY <1>1, <1>2, <1>5 DEF Agreeing, SnapshotHolds, Holds
<1>11. QED BY <1>8, <1>9, <1>10 DEF Agreeing

LEMMA ExportSnapshotAgrees ==
  ASSUME AgreementInv, NEW d \in Devices, ExportSnapshot(d)
  PROVE  Agreeing'
<1>1. Typed /\ Agreeing /\ Merging(d)
  BY DEF ReplicasInv, AgreementInv, Agreeing, DeviceAgrees
<1>2. /\ Ready(d) /\ pos[d] # None /\ ExportDelta(d).recs = Empty
      /\ snapshot' = [clock |-> header[d], recs |-> db[d].recs, pos |-> pos[d]]
      /\ UNCHANGED <<db, header, op, pos, sent, stream>>
  BY DEF ExportSnapshot
<1>3. \A r \in Records : ~(db[d].recs[r] # None /\ db[d].recs[r].clock > sent[d])
  BY <1>1, <1>2, ExportTyped DEF Empty
<1>4. /\ Holds(stream, pos[d], db[d].recs) /\ Bounds(stream, pos[d], header[d])
      /\ \A r \in Records : db[d].recs[r] # None => Published(stream, r, db[d].recs[r])
  BY <1>1, <1>2, <1>3 DEF Merging
<1>5. SnapshotHolds'
  BY <1>2, <1>4 DEF SnapshotHolds
<1>6. \A e \in Devices : DeviceAgrees(e)'
  BY <1>1, <1>2, OthersAgree DEF Agreeing
<1>7. QED BY <1>5, <1>6 DEF Agreeing

LEMMA BeginApplyAgrees ==
  ASSUME AgreementInv, NEW d \in Devices, BeginApply(d)
  PROVE  Agreeing'
<1> DEFINE x == stream[pos[d] + 1]
           n == Later(header[d], x.to)
           c == MaxClockOf(x.recs, n)
           o == [kind |-> "apply", todo |-> x.recs, clock |-> c, pos |-> pos[d] + 1]
<1>1. Typed /\ Agreeing /\ Merging(d) /\ stream \in Seq(Deltas)
  BY DEF ReplicasInv, AgreementInv, Agreeing, DeviceAgrees, Typed, Deltas
<1>2. /\ Ready(d) /\ pos[d] # None /\ pos[d] < Len(stream) /\ op' = [op EXCEPT ![d] = o]
      /\ UNCHANGED <<db, header, pos, sent, stream, snapshot>>
  BY DEF BeginApply
<1>3. header[d] \in Clocks /\ pos[d] \in Nat /\ pos[d] + 1 \in 1 .. Len(stream)
  BY <1>1, <1>2 DEF Ready, Typed
<1>4. x.to \in Clocks /\ x.recs \in Table
  BY <1>1, <1>3, StreamEntry
<1> HIDE DEF x
<1>5. n \in Clocks /\ header[d] <= n
  BY <1>3, <1>4, BoundsAssumption DEF Later, Clocks
<1> HIDE DEF n
<1>6. c \in Clocks /\ n <= c /\ Within(x.recs, c)
  BY <1>4, <1>5, MaxClockOfIsMax
<1>7. header[d] <= c
  BY <1>3, <1>5, <1>6, BoundsAssumption DEF Clocks
<1> HIDE DEF c
<1>8. o.kind = "apply" /\ o.todo = x.recs /\ o.clock = c /\ o.pos = pos[d] + 1
  OBVIOUS
<1> HIDE DEF o
<1>9. op'[d] = o /\ \A e \in Devices : e # d => op'[e] = op[e]
  BY <1>1, <1>2 DEF Typed
<1>10. Applying(d)'
  <2>1. \A r \in Records : x.recs[r] = None => Overtakes(db[d].recs[r], x.recs[r])
    BY DEF Overtakes
  <2>2. stream'[op'[d].pos] = x /\ op'[d].pos <= Len(stream')
    BY <1>2, <1>3, <1>8, <1>9 DEF x
  <2>3. QED BY <1>2, <1>6, <1>7, <1>8, <1>9, <2>1, <2>2 DEF Applying
<1>11. Merging(d)' /\ Writing(d)' /\ Joining(d)'
  BY <1>1, <1>2, <1>8, <1>9 DEF Merging, Writing, Joining
<1>12. QED BY <1>1, <1>2, <1>9, <1>10, <1>11, OneAgrees DEF DeviceAgrees

LEMMA FinishApplyAgrees ==
  ASSUME AgreementInv, NEW d \in Devices, FinishApply(d)
  PROVE  Agreeing'
<1> DEFINE c == op[d].clock
<1>1. Typed /\ Agreeing /\ Merging(d) /\ Applying(d) /\ stream \in Seq(Deltas)
  BY DEF ReplicasInv, AgreementInv, Agreeing, DeviceAgrees, Typed, Deltas
<1>2. /\ op[d].kind = "apply" /\ op[d].todo = Empty
      /\ db' = [db EXCEPT ![d].clock = c]
      /\ header' = [header EXCEPT ![d] = c]
      /\ pos' = [pos EXCEPT ![d] = op[d].pos]
      /\ op' = [op EXCEPT ![d] = Idle]
      /\ UNCHANGED <<sent, stream, snapshot>>
  BY DEF FinishApply, NewCursor
<1>3. c \in Clocks
  BY <1>1 DEF Typed, Call
<1> HIDE DEF c
<1>4. /\ db'[d].recs = db[d].recs /\ header'[d] = c /\ pos'[d] = op[d].pos /\ op'[d] = Idle
      /\ \A e \in Devices : e # d => db'[e] = db[e] /\ header'[e] = header[e] /\ pos'[e] = pos[e] /\ op'[e] = op[e]
  BY <1>1, <1>2 DEF Typed
<1>5. /\ pos[d] # None /\ op[d].pos = pos[d] + 1 /\ op[d].pos <= Len(stream)
      /\ header[d] <= c /\ Within(stream[op[d].pos].recs, c)
      /\ \A r \in Records : Overtakes(db[d].recs[r], stream[op[d].pos].recs[r])
  BY <1>1, <1>2 DEF Applying, Empty, c
<1>6. header[d] # None /\ sent[d] <= header[d] /\ Holds(stream, pos[d], db[d].recs) /\ Bounds(stream, pos[d], header[d])
  BY <1>1, <1>5 DEF Merging
<1>7. header[d] \in Nat /\ c \in Nat /\ c # None /\ sent[d] \in Nat /\ pos[d] \in Nat
  BY <1>1, <1>3, <1>5, <1>6, BoundsAssumption DEF Typed, Clocks
<1>8. \A k \in 1 .. op[d].pos : k \in 1 .. pos[d] \/ k = op[d].pos
  BY <1>5, <1>7
<1>9. Holds(stream, op[d].pos, db[d].recs)
  BY <1>5, <1>6, <1>7, <1>8 DEF Holds
<1>10. Bounds(stream, op[d].pos, c)
  <2>1. SUFFICES ASSUME NEW k \in 1 .. op[d].pos, NEW r \in Records, stream[k].recs[r] # None
                 PROVE  stream[k].recs[r].clock <= c
    BY DEF Bounds, Within
  <2>2. CASE k = op[d].pos
    BY <1>5, <2>1, <2>2 DEF Within
  <2>3. CASE k \in 1 .. pos[d]
    <3>1. stream[k].recs[r].clock <= header[d]
      BY <1>6, <2>1, <2>3 DEF Bounds, Within
    <3>2. k \in 1 .. Len(stream)
      BY <1>6, <2>3 DEF Holds
    <3>3. stream[k].recs \in Table
      BY <1>1, <3>2, StreamEntry
    <3>4. stream[k].recs[r].clock \in Nat
      BY <2>1, <3>3, BoundsAssumption DEF Table, Version, Clocks
    <3>5. \A l \in Nat : l <= header[d] => l <= c
      BY <1>5, <1>7
    <3>6. QED BY <3>1, <3>4, <3>5
  <2>4. QED BY <1>8, <2>2, <2>3
<1>11. Merging(d)'
  <2>1. sent[d] <= c
    BY <1>5, <1>6, <1>7
  <2>2. QED BY <1>1, <1>2, <1>4, <1>5, <1>7, <1>9, <1>10, <2>1 DEF Merging
<1>12. DeviceAgrees(d)'
  BY <1>4, <1>11, IdleAgrees
<1>13. QED BY <1>1, <1>2, <1>4, <1>12, OneAgrees

LEMMA BeginSnapshotAgrees ==
  ASSUME AgreementInv, NEW d \in Devices, BeginSnapshot(d)
  PROVE  Agreeing'
<1> DEFINE c == MaxClockOf(snapshot.recs, snapshot.clock)
           o == [kind |-> "snapshot", todo |-> snapshot.recs, clock |-> c, pos |-> snapshot.pos]
<1>1. Typed /\ Agreeing /\ Merging(d) /\ SnapshotHolds /\ stream \in Seq(Deltas)
  BY DEF ReplicasInv, AgreementInv, Agreeing, DeviceAgrees, Typed, Deltas
<1>2. /\ header[d] = None /\ db[d].recs = Empty
      /\ op' = [op EXCEPT ![d] = o]
      /\ db' = [db EXCEPT ![d].clock = op'[d].clock]
      /\ UNCHANGED <<header, pos, sent, stream, snapshot>>
  BY DEF BeginSnapshot
<1>3. snapshot.clock \in Clocks /\ snapshot.recs \in Table /\ snapshot.pos \in Nat
  BY <1>1 DEF Typed
<1>4. c \in Clocks /\ snapshot.clock <= c
  BY <1>3, MaxClockOfIsMax
<1> HIDE DEF c
<1>5. o.kind = "snapshot" /\ o.todo = snapshot.recs /\ o.clock = c /\ o.pos = snapshot.pos
  OBVIOUS
<1> HIDE DEF o
<1>6. op'[d] = o /\ \A e \in Devices : e # d => op'[e] = op[e]
  BY <1>1, <1>2 DEF Typed
<1>7. db' = [db EXCEPT ![d].clock = c]
  BY <1>2, <1>5, <1>6
<1>8. db'[d].recs = Empty /\ \A e \in Devices : e # d => db'[e] = db[e]
  BY <1>1, <1>2, <1>7 DEF Typed
<1>9. snapshot.pos \in 0 .. Len(stream) /\ Holds(stream, snapshot.pos, snapshot.recs)
  BY <1>1 DEF SnapshotHolds, Holds
<1>10. Bounds(stream, snapshot.pos, c)
  <2>1. SUFFICES ASSUME NEW k \in 1 .. snapshot.pos, NEW r \in Records, stream[k].recs[r] # None
                 PROVE  stream[k].recs[r].clock <= c
    BY DEF Bounds, Within
  <2>2. stream[k].recs[r].clock <= snapshot.clock
    BY <1>1, <2>1 DEF SnapshotHolds, Bounds, Within
  <2>3. k \in 1 .. Len(stream)
    BY <1>9
  <2>4. stream[k].recs \in Table
    BY <1>1, <2>3, StreamEntry
  <2>5. stream[k].recs[r].clock \in Nat
    BY <2>1, <2>4, BoundsAssumption DEF Table, Version, Clocks
  <2>6. \A l \in Nat : l <= snapshot.clock => l <= c
    BY <1>3, <1>4, BoundsAssumption DEF Clocks
  <2>7. QED BY <2>2, <2>5, <2>6
<1>11. pos[d] = None
  BY <1>1, <1>2 DEF Merging
<1>12. Joining(d)'
  <2>1. \A r \in Records : snapshot.recs[r] # None => Published(stream, r, snapshot.recs[r])
    BY <1>1 DEF SnapshotHolds
  <2>2. \A r \in Records : db'[d].recs[r] = None
    BY <1>8 DEF Empty
  <2>3. \A r \in Records, k \in 1 .. snapshot.pos : Overtakes(snapshot.recs[r], stream[k].recs[r])
    BY <1>9 DEF Holds
  <2>4. \A r \in Records, k \in 1 .. snapshot.pos :
          snapshot.recs[r] = None => Overtakes(db'[d].recs[r], stream[k].recs[r])
    BY <2>3 DEF Overtakes
  <2>5. QED BY <1>2, <1>5, <1>6, <1>9, <1>10, <1>11, <2>1, <2>2, <2>3, <2>4 DEF Joining
<1>13. Merging(d)' /\ Writing(d)' /\ Applying(d)'
  BY <1>2, <1>5, <1>6, <1>11 DEF Merging, Writing, Applying
<1>14. QED BY <1>1, <1>2, <1>6, <1>8, <1>12, <1>13, OneAgrees DEF DeviceAgrees

LEMMA FinishSnapshotAgrees ==
  ASSUME AgreementInv, NEW d \in Devices, FinishSnapshot(d)
  PROVE  Agreeing'
<1> DEFINE c == op[d].clock
<1>1. Typed /\ Agreeing /\ Joining(d)
  BY DEF ReplicasInv, AgreementInv, Agreeing, DeviceAgrees
<1>2. /\ op[d].kind = "snapshot" /\ op[d].todo = Empty
      /\ header' = [header EXCEPT ![d] = c]
      /\ pos' = [pos EXCEPT ![d] = op[d].pos]
      /\ sent' = [sent EXCEPT ![d] = c]
      /\ op' = [op EXCEPT ![d] = Idle]
      /\ UNCHANGED <<db, stream, snapshot>>
  BY DEF FinishSnapshot
<1>3. c \in Clocks /\ c # None /\ c <= c
  BY <1>1, BoundsAssumption DEF Typed, Call, Clocks
<1> HIDE DEF c
<1>4. /\ header'[d] = c /\ pos'[d] = op[d].pos /\ sent'[d] = c /\ op'[d] = Idle
      /\ \A e \in Devices : e # d => header'[e] = header[e] /\ pos'[e] = pos[e] /\ sent'[e] = sent[e] /\ op'[e] = op[e]
  BY <1>1, <1>2 DEF Typed
<1>5. /\ op[d].pos \in 0 .. Len(stream) /\ Bounds(stream, op[d].pos, c)
      /\ \A r \in Records :
           /\ db[d].recs[r] # None => Published(stream, r, db[d].recs[r])
           /\ \A k \in 1 .. op[d].pos : Overtakes(db[d].recs[r], stream[k].recs[r])
  BY <1>1, <1>2 DEF Joining, Empty, c
<1>6. Holds(stream, op[d].pos, db[d].recs)
  BY <1>5 DEF Holds
<1>7. Merging(d)'
  BY <1>2, <1>3, <1>4, <1>5, <1>6 DEF Merging
<1>8. DeviceAgrees(d)'
  BY <1>4, <1>7, IdleAgrees
<1>9. QED BY <1>1, <1>2, <1>4, <1>8, OneAgrees

(* A crash gives up the call, and the header read back is the one that was loaded. *)
LEMMA CrashAgrees ==
  ASSUME AgreementInv, NEW d \in Devices, Crash(d)
  PROVE  Agreeing'
<1>1. Typed /\ HeaderRead /\ Agreeing /\ Merging(d)
  BY DEF ReplicasInv, AgreementInv, Agreeing, DeviceAgrees
<1>2. /\ header' = [header EXCEPT ![d] = db[d].clock]
      /\ op' = [op EXCEPT ![d] = Idle]
      /\ UNCHANGED <<db, pos, sent, stream, snapshot>>
  BY DEF Crash
<1>3. /\ header'[d] = db[d].clock /\ op'[d] = Idle
      /\ \A e \in Devices : e # d => header'[e] = header[e] /\ op'[e] = op[e]
  BY <1>1, <1>2 DEF Typed
<1>4. pos[d] # None => header'[d] = header[d]
  BY <1>1, <1>3 DEF Merging, HeaderRead
<1>5. Merging(d)'
  BY <1>1, <1>2, <1>4 DEF Merging
<1>6. DeviceAgrees(d)'
  BY <1>3, <1>5, IdleAgrees
<1>7. QED BY <1>1, <1>2, <1>3, <1>6, OneAgrees

LEMMA AgreementInit == Init => Agreeing
<1> SUFFICES ASSUME Init PROVE Agreeing
  OBVIOUS
<1>1. stream = <<>> /\ Len(stream) = 0 /\ 0 # None /\ \A r \in Records : Empty[r] = None
  BY BoundsAssumption DEF Init, Empty
<1>2. Holds(stream, 0, Empty) /\ Bounds(stream, 0, 0)
  BY <1>1 DEF Holds, Bounds
<1>3. ASSUME NEW d \in Devices PROVE DeviceAgrees(d)
  <2>1. op[d].kind = "idle" /\ sent[d] = 0 /\ db[d].recs = Empty /\ (pos[d] # None => pos[d] = 0 /\ header[d] = 0)
    BY <1>1 DEF Init, Idle
  <2>2. Merging(d)
    BY <1>1, <1>2, <2>1 DEF Merging
  <2>3. QED BY <2>1, <2>2 DEF DeviceAgrees, Writing, Applying, Joining
<1>4. SnapshotHolds
  BY <1>1, <1>2 DEF Init, SnapshotHolds
<1>5. QED BY <1>3, <1>4 DEF Agreeing

LEMMA AgreementInvariant == Spec => []AgreementInv
<1>1. Init => AgreementInv
  BY ReplicasInitInv, AgreementInit DEF AgreementInv
<1>2. ASSUME AgreementInv, Next PROVE Agreeing'
  <2>1. PICK d \in Devices :
          \/ \E r \in Records : Store(d, r) \/ Delete(d, r) \/ ApplyRecord(d, r) \/ SnapshotRecord(d, r)
          \/ WriteRecord(d) \/ Upload(d) \/ BeginApply(d) \/ FinishApply(d)
          \/ ExportSnapshot(d) \/ BeginSnapshot(d) \/ FinishSnapshot(d) \/ Crash(d)
    BY <1>2 DEF Next
  <2>2. QED
    BY <1>2, <2>1, StoreAgrees, ApplyRecordAgrees, SnapshotRecordAgrees, WriteRecordAgrees, UploadAgrees,
       BeginApplyAgrees, FinishApplyAgrees, ExportSnapshotAgrees, BeginSnapshotAgrees, FinishSnapshotAgrees,
       CrashAgrees
<1>3. ASSUME AgreementInv, UNCHANGED vars PROVE Agreeing'
  <2>1. Typed /\ Agreeing /\ UNCHANGED <<db, header, op, pos, sent, stream, snapshot>>
    BY <1>3 DEF AgreementInv, ReplicasInv, vars
  <2>2. \A e \in Devices : DeviceAgrees(e)'
    BY <2>1, OthersAgree DEF Agreeing
  <2>3. SnapshotHolds'
    BY <2>1 DEF Agreeing, SnapshotHolds, Holds, Bounds, Within, Overtakes, Published
  <2>4. QED BY <2>2, <2>3 DEF Agreeing
<1>4. AgreementInv /\ [Next]_vars => AgreementInv'
  BY <1>2, <1>3, ReplicasInvStep DEF AgreementInv
<1>5. QED BY <1>1, <1>4, PTL DEF Spec

(* apply_delta and apply_snapshot: devices that have applied the whole stream and  *)
(* have nothing new to upload hold the same records, for any number of devices,    *)
(* edits, deletions at equal clocks and crashes between two statements.  What one  *)
(* of them holds is in the stream, so the other holds it or a later version; the   *)
(* comparison of versions is antisymmetric.                                        *)
THEOREM ReplicasAgreeWhenQuiet == Spec => []QuiescentAgreement
<1>1. ASSUME AgreementInv, Quiescent, NEW d \in Joined, NEW e \in Joined, NEW r \in Records, db[d].recs[r] # None
      PROVE  Overtakes(db[e].recs[r], db[d].recs[r])
  <2>1. /\ d \in Devices /\ e \in Devices /\ pos[d] # None /\ pos[e] # None /\ Typed /\ Merging(d) /\ Merging(e)
        /\ Ready(d) /\ pos[e] = Len(stream) /\ stream \in Seq(Deltas)
        /\ ExportDelta(d).recs[r] # None => InStream(r, ExportDelta(d).recs[r])
    BY <1>1 DEF AgreementInv, ReplicasInv, Agreeing, DeviceAgrees, Joined, Quiescent, Typed, Deltas
  <2>2. Published(stream, r, db[d].recs[r])
    <3>1. CASE db[d].recs[r].clock > sent[d]
      <4>1. ExportDelta(d).recs[r] = db[d].recs[r]
        BY <1>1, <2>1, <3>1, ExportTyped
      <4>2. DOMAIN stream = 1 .. Len(stream)
        BY <2>1
      <4>3. QED BY <1>1, <2>1, <4>1, <4>2 DEF InStream, Published
    <3>2. QED BY <1>1, <2>1, <3>1 DEF Merging
  <2>3. Holds(stream, Len(stream), db[e].recs)
    BY <2>1 DEF Merging
  <2>4. QED BY <2>2, <2>3 DEF Holds, Published
<1>2. ASSUME AgreementInv, Quiescent, NEW d \in Joined, NEW e \in Joined
      PROVE  db[d].recs = db[e].recs
  <2>1. d \in Devices /\ e \in Devices /\ Typed /\ Version \subseteq Versions
    BY <1>2, BoundsAssumption DEF AgreementInv, ReplicasInv, Joined, Version, Versions, Clocks
  <2>2. ASSUME NEW r \in Records PROVE db[d].recs[r] = db[e].recs[r]
    <3>1. CASE db[d].recs[r] = None /\ db[e].recs[r] = None
      BY <3>1
    <3>2. CASE db[d].recs[r] # None \/ db[e].recs[r] # None
      <4>1. /\ db[d].recs[r] # None /\ db[e].recs[r] # None
            /\ Precedes(db[d].recs[r], db[e].recs[r]) /\ Precedes(db[e].recs[r], db[d].recs[r])
        BY <1>1, <1>2, <3>2 DEF Overtakes
      <4>2. db[d].recs[r] \in Versions /\ db[e].recs[r] \in Versions
        BY <2>1, <4>1, RowTyped
      <4>3. QED BY <4>1, <4>2, PrecedesAntisymmetric
    <3>3. QED BY <3>1, <3>2
  <2>3. db[d].recs \in Table /\ db[e].recs \in Table
    BY <2>1 DEF Typed
  <2>4. QED BY <2>2, <2>3 DEF Table
<1>3. AgreementInv => QuiescentAgreement
  BY <1>2 DEF QuiescentAgreement
<1>4. QED BY <1>3, AgreementInvariant, PTL


---------------------------------------------------------------------------
(* The keys (VaultUnlock).                                                         *)
(*                                                                                 *)
(* A confirmed passphrase opens the vault until a rotation replaces it or is cut   *)
(* short between its two statements, and device unlock is offered only when it     *)
(* works, for any passphrases and device keys and any number of failures and       *)
(* crashes.  Neither is inductive: what holds between two calls depends on how far *)
(* the statements of the call in progress have come, so the invariant says, for    *)
(* every statement a call can stop before, what disk and key store hold.           *)

(* The calls in progress and the statements they can be at.                        *)
Creating == [call : {"create"}, at : {"header", "delete", "insert", "finish"}, pass : Passphrases, key : {Absent}]
Rotating == [call : {"rotate"}, at : {"delete", "insert", "finish"}, pass : Passphrases, key : {Absent}]
Enrolling == [call : {"enroll"}, at : {"keyring", "warn"}, pass : {Absent}, key : {Absent}]
             \union [call : {"enroll"}, at : {"row", "message", "warn"}, pass : {Absent}, key : DeviceKeys]

OpTyped == doing \in {NoCall} \union Creating \union Rotating \union Enrolling

(* A confirmed passphrase is the bundle's, of a loaded vault, or gave way to one a *)
(* rotation was asked for; there is none only where a rotation left none.          *)
Confirmed ==
  acked # Absent =>
    /\ loaded /\ headerRow
    /\ bundle \in {acked} \union tried \/ torn \/ BetweenBundles

(* While create runs no passphrase is confirmed, a rotation is one the user asked  *)
(* for, and the bundle is gone between the deletion and the insertion.             *)
Replacing ==
  /\ loaded => headerRow
  /\ doing.call = "create" => ~loaded /\ acked = Absent /\ (doing.at # "header" => headerRow)
  /\ doing.call = "rotate" => loaded /\ doing.pass \in tried
  /\ doing.call \in {"create", "rotate"} /\ doing.at = "insert" => bundle = Absent
  /\ doing.call \in {"create", "rotate"} /\ doing.at = "finish" => bundle = doing.pass

(* The key store holds the key of the enrollment in progress from the first step   *)
(* on, the row from the second on.                                                 *)
EnrollingKeys ==
  /\ doing.call = "enroll" => loaded
  /\ doing.call = "enroll" /\ doing.at \in {"row", "message"} => keyring = doing.key
  /\ doing.call = "enroll" /\ doing.at = "message" => enrollment = doing.key /\ ~unnoticed

(* Unless a call in progress is between the two, or one left them apart unnoticed, *)
(* or a failure is recorded, the key store and the row agree.                      *)
StoresAgree ==
  ~BetweenStores /\ ~unnoticed /\ ~message /\ enrollment # Absent => keyring = enrollment

UnlockInv ==
  /\ UnlockTypeOK /\ deaths \in Nat /\ faults \in Nat
  /\ OpTyped /\ Confirmed /\ Replacing /\ EnrollingKeys /\ StoresAgree

LEMMA UnlockInitInv == UnlockInit => UnlockInv
<1> SUFFICES ASSUME UnlockInit PROVE UnlockInv
  OBVIOUS
<1>1. UnlockTypeOK /\ OpTyped
  BY DEF UnlockInit, NoCall, UnlockTypeOK, OpTyped
<1>2. deaths \in Nat /\ faults \in Nat
  BY DEF UnlockInit
<1>3. Confirmed /\ Replacing /\ EnrollingKeys /\ StoresAgree
  BY DEF UnlockInit, NoCall, Confirmed, Replacing, EnrollingKeys, StoresAgree
<1>4. QED BY <1>1, <1>2, <1>3 DEF UnlockInv

(* The actions of create and rotate.                                               *)
LEMMA ReplaceStep ==
  ASSUME UnlockInv,
         \/ \E p \in Passphrases : BeginCreate(p)
         \/ \E p \in Passphrases : \E q \in Passphrases : BeginRotate(p, q)
         \/ InsertHeader \/ HeaderExists \/ DeleteBundles \/ InsertBundle
         \/ FinishCreate \/ FinishRotate \/ StatementFails
  PROVE  UnlockInv'
<1> USE KeysAssumption DEF UnlockInv, OpTyped, Creating, Rotating, Enrolling, NoCall, disk, Goto,
                                        promises, BetweenBundles, BetweenStores, Persist
<1>1. ASSUME NEW p \in Passphrases, BeginCreate(p) PROVE UnlockInv'
  BY <1>1 DEF BeginCreate, UnlockTypeOK, Confirmed, Replacing, EnrollingKeys, StoresAgree
<1>2. ASSUME NEW p \in Passphrases, NEW q \in Passphrases, BeginRotate(p, q) PROVE UnlockInv'
  BY <1>2 DEF BeginRotate, UnlockTypeOK, Confirmed, Replacing, EnrollingKeys, StoresAgree
<1>3. CASE InsertHeader
  BY <1>3 DEF InsertHeader, UnlockTypeOK, Confirmed, Replacing, EnrollingKeys, StoresAgree
<1>4. CASE HeaderExists
  BY <1>4 DEF HeaderExists, UnlockTypeOK, Confirmed, Replacing, EnrollingKeys, StoresAgree
<1>5. CASE DeleteBundles
  BY <1>5 DEF DeleteBundles, BundleAfterDelete, UnlockTypeOK, Confirmed, Replacing, EnrollingKeys, StoresAgree
<1>6. CASE InsertBundle
  BY <1>6 DEF InsertBundle, UnlockTypeOK, Confirmed, Replacing, EnrollingKeys, StoresAgree
<1>7. CASE FinishCreate
  BY <1>7 DEF FinishCreate, UnlockTypeOK, Confirmed, Replacing, EnrollingKeys, StoresAgree
<1>8. CASE FinishRotate
  BY <1>8 DEF FinishRotate, UnlockTypeOK, Confirmed, Replacing, EnrollingKeys, StoresAgree
<1>9. CASE StatementFails
  BY <1>9 DEF StatementFails, UnlockTypeOK, Confirmed, Replacing, EnrollingKeys, StoresAgree
<1>10. QED BY <1>1, <1>2, <1>3, <1>4, <1>5, <1>6, <1>7, <1>8, <1>9

(* The enrollment that has put its key into the key store.                         *)
LEMMA SetSecretOp ==
  ASSUME OpTyped, NEW k, SetSecret(k)
  PROVE  doing' = [call |-> "enroll", at |-> "row", pass |-> Absent, key |-> k]
<1>1. doing = [call |-> "enroll", at |-> "keyring", pass |-> Absent, key |-> Absent]
  BY DEF OpTyped, SetSecret, Creating, Rotating, Enrolling, NoCall
<1>2. doing' = [doing EXCEPT !.at = "row", !.key = k]
  BY DEF SetSecret
<1>3. QED BY <1>1, <1>2

(* The enrollment that has rewritten the row.                                      *)
LEMMA UpsertOp ==
  ASSUME OpTyped, UpsertEnrollment
  PROVE  /\ doing.key \in DeviceKeys /\ doing.at = "row" /\ doing.call = "enroll"
         /\ doing' = [call |-> "enroll", at |-> "message", pass |-> Absent, key |-> doing.key]
<1>1. doing \in [call : {"enroll"}, at : {"row"}, pass : {Absent}, key : DeviceKeys]
  BY DEF OpTyped, UpsertEnrollment, Creating, Rotating, Enrolling, NoCall
<1>2. doing' = [doing EXCEPT !.at = "message"]
  BY DEF UpsertEnrollment, Goto
<1>3. QED BY <1>1, <1>2

(* A message that is to be stored or deleted is, or stays what it was.             *)
LEMMA PersistEffect ==
  ASSUME NEW m, NEW f \in Nat, Persist(m, f)
  PROVE  message' \in {message, m} /\ faults' \in Nat /\ (message' = m \/ faults' # f)
  BY DEF Persist

(* The actions that unlock, lock, enroll and reopen.                               *)
LEMMA UnlockStep ==
  ASSUME UnlockInv,
         \/ \E p \in Passphrases : UnlockWithPassphrase(p)
         \/ \E k \in DeviceKeys : SetSecret(k)
         \/ UnlockWithDevice \/ DeviceKeyMismatch \/ DeviceKeyUnavailable \/ Lock
         \/ UpsertEnrollment \/ ClearMessage \/ EnrollmentFails \/ StoreWarning \/ Reopen
  PROVE  UnlockInv'
<1> USE KeysAssumption, FaultsAssumption DEF UnlockInv, OpTyped, Creating, Rotating, Enrolling, NoCall, disk, Goto,
                                        promises, BetweenBundles, BetweenStores
<1>1. ASSUME NEW p \in Passphrases, UnlockWithPassphrase(p) PROVE UnlockInv'
  BY <1>1 DEF UnlockWithPassphrase, UnlockTypeOK, Confirmed, Replacing, EnrollingKeys, StoresAgree
<1>2. ASSUME NEW k \in DeviceKeys, SetSecret(k) PROVE UnlockInv'
  BY <1>2, SetSecretOp DEF SetSecret, UnlockTypeOK, Confirmed, Replacing, EnrollingKeys, StoresAgree
<1>3. CASE UnlockWithDevice
  <2>1. message' \in {message, FALSE} /\ faults' \in Nat
    BY <1>3, PersistEffect DEF UnlockWithDevice
  <2>2. /\ keyring = enrollment /\ unlocked' = TRUE
        /\ UNCHANGED <<headerRow, bundle, enrollment, keyring, fresh, loaded, doing, promises, deaths>>
    BY <1>3 DEF UnlockWithDevice
  <2>3. UnlockTypeOK' /\ OpTyped'
    BY <2>1, <2>2 DEF UnlockTypeOK
  <2>4. Confirmed' /\ Replacing' /\ EnrollingKeys' /\ StoresAgree'
    BY <2>2 DEF Confirmed, Replacing, EnrollingKeys, StoresAgree
  <2>5. QED BY <2>1, <2>2, <2>3, <2>4
<1>4. CASE DeviceKeyMismatch
  <2>1. message' \in {message, TRUE} /\ faults' \in Nat
    <3>1. Persist(TRUE, faults)
      BY <1>4 DEF DeviceKeyMismatch
    <3>2. QED BY <3>1, PersistEffect
  <2>2. UNCHANGED <<headerRow, bundle, enrollment, keyring, fresh, loaded, unlocked, doing, promises, deaths>>
    BY <1>4 DEF DeviceKeyMismatch
  <2>3. UnlockTypeOK' /\ OpTyped'
    BY <2>1, <2>2 DEF UnlockTypeOK
  <2>4. Confirmed' /\ Replacing' /\ EnrollingKeys'
    BY <2>2 DEF Confirmed, Replacing, EnrollingKeys
  <2>5. StoresAgree'
    <3>1. CASE message' = message
      BY <2>2, <3>1 DEF StoresAgree
    <3>2. CASE message' = TRUE
      BY <3>2 DEF StoresAgree
    <3>3. QED BY <2>1, <3>1, <3>2
  <2>6. QED BY <2>1, <2>2, <2>3, <2>4, <2>5
<1>5. CASE DeviceKeyUnavailable
  <2>1. message' \in {message, TRUE} /\ faults' \in Nat
    <3>1. Persist(TRUE, faults + 1)
      BY <1>5 DEF DeviceKeyUnavailable
    <3>2. faults + 1 \in Nat
      OBVIOUS
    <3>3. QED BY <3>1, <3>2, PersistEffect
  <2>2. UNCHANGED <<headerRow, bundle, enrollment, keyring, fresh, loaded, unlocked, doing, promises, deaths>>
    BY <1>5 DEF DeviceKeyUnavailable
  <2>3. UnlockTypeOK' /\ OpTyped'
    BY <2>1, <2>2 DEF UnlockTypeOK
  <2>4. Confirmed' /\ Replacing' /\ EnrollingKeys'
    BY <2>2 DEF Confirmed, Replacing, EnrollingKeys
  <2>5. StoresAgree'
    <3>1. CASE message' = message
      BY <2>2, <3>1 DEF StoresAgree
    <3>2. CASE message' = TRUE
      BY <3>2 DEF StoresAgree
    <3>3. QED BY <2>1, <3>1, <3>2
  <2>6. QED BY <2>1, <2>2, <2>3, <2>4, <2>5
<1>6. CASE Lock
  BY <1>6 DEF Lock, UnlockTypeOK, Confirmed, Replacing, EnrollingKeys, StoresAgree
<1>7. CASE UpsertEnrollment
  <2>1. /\ doing.key \in DeviceKeys /\ doing.at = "row" /\ doing.call = "enroll"
        /\ doing' = [call |-> "enroll", at |-> "message", pass |-> Absent, key |-> doing.key]
    BY <1>7, UpsertOp
  <2>2. enrollment' = doing.key /\ keyring' = doing.key /\ unnoticed' = FALSE
    BY <1>7, <2>1 DEF UpsertEnrollment, UpsertedEnrollment, EnrollingKeys
  <2>3. UNCHANGED <<headerRow, bundle, message, keyring, fresh, loaded, unlocked, acked, tried, torn, deaths, faults>>
    BY <1>7 DEF UpsertEnrollment
  <2>4. UnlockTypeOK' /\ OpTyped'
    BY <2>1, <2>2, <2>3 DEF UnlockTypeOK
  <2>5. Confirmed' /\ Replacing'
    BY <2>1, <2>3 DEF Confirmed, Replacing
  <2>6. EnrollingKeys' /\ StoresAgree'
    BY <2>1, <2>2, <2>3 DEF EnrollingKeys, StoresAgree
  <2>7. QED BY <2>3, <2>4, <2>5, <2>6
<1>8. CASE ClearMessage
  <2>1. message' \in {message, FALSE} /\ faults' \in Nat
    BY <1>8, PersistEffect DEF ClearMessage
  <2>2. keyring = enrollment
    BY <1>8 DEF ClearMessage, EnrollingKeys
  <2>3. QED BY <1>8, <2>1, <2>2 DEF ClearMessage, UnlockTypeOK, Confirmed, Replacing, EnrollingKeys, StoresAgree
<1>12. CASE StoreWarning
  <2>1. message' \in {message, TRUE} /\ faults' \in Nat /\ (message' = TRUE \/ faults' # faults)
    BY <1>12, PersistEffect DEF StoreWarning, EnrollmentFailureMessage
  <2>2. /\ doing' = NoCall
        /\ unnoticed' = (unnoticed \/ (faults' # faults /\ doing.key # Absent))
        /\ UNCHANGED <<headerRow, bundle, enrollment, keyring, fresh, loaded, unlocked, acked, tried, torn, deaths>>
    BY <1>12 DEF StoreWarning
  <2>3. doing.call = "enroll" /\ doing.at = "warn"
    BY <1>12 DEF StoreWarning
  <2>4. StoresAgree'
    <3>1. CASE message'
      BY <3>1 DEF StoresAgree
    <3>2. CASE unnoticed'
      BY <3>2 DEF StoresAgree
    <3>3. CASE ~message' /\ ~unnoticed'
      <4>3. faults' # faults /\ message' = message
        BY <2>1, <3>3
      <4>4. ~(unnoticed \/ (faults' # faults /\ doing.key # Absent))
        BY <2>2, <3>3
      <4>1. ~message /\ ~unnoticed /\ doing.key = Absent
        BY <3>3, <4>3, <4>4
      <4>2. QED BY <2>2, <2>3, <4>1 DEF StoresAgree
    <3>4. QED BY <3>1, <3>2, <3>3
  <2>5. UnlockTypeOK' /\ Confirmed' /\ Replacing' /\ EnrollingKeys'
    BY <2>1, <2>2, <2>3 DEF UnlockTypeOK, Confirmed, Replacing, EnrollingKeys
  <2>6. QED BY <2>1, <2>2, <2>4, <2>5
<1>9. CASE EnrollmentFails
  BY <1>9 DEF EnrollmentFails, UnlockTypeOK, Confirmed, Replacing, EnrollingKeys, StoresAgree
<1>10. CASE Reopen
  <2>1. deaths' \in Nat
    BY <1>10 DEF Reopen
  <2>2. QED BY <1>10, <2>1 DEF Reopen, UnlockTypeOK, Confirmed, Replacing, EnrollingKeys, StoresAgree
<1>11. QED BY <1>1, <1>2, <1>3, <1>4, <1>5, <1>6, <1>7, <1>8, <1>9, <1>10, <1>12

LEMMA UnlockInvStep == UnlockInv /\ [UnlockNext]_unlockVars => UnlockInv'
<1>1. ASSUME UnlockInv, UnlockNext PROVE UnlockInv'
  BY <1>1, ReplaceStep, UnlockStep DEF UnlockNext
<1>2. ASSUME UnlockInv, UNCHANGED unlockVars PROVE UnlockInv'
  BY <1>2 DEF unlockVars, promises, UnlockInv, UnlockTypeOK, OpTyped, Confirmed, Replacing, EnrollingKeys,
              StoresAgree, BetweenBundles, BetweenStores
<1>3. QED BY <1>1, <1>2

LEMMA UnlockInvariant == UnlockSpec => []UnlockInv
  BY UnlockInitInv, UnlockInvStep, PTL DEF UnlockSpec

(* create_vault and rotate_passphrase: a confirmed passphrase, or one of a rotation *)
(* begun after it, opens the vault, whatever statement fails and wherever the      *)
(* process dies, other than between the two statements of insert_recovery_bundle.  *)
THEOREM ConfirmedPassphraseOpens == UnlockSpec => []AckedPassphraseOpens
<1>1. UnlockInv => AckedPassphraseOpens
  BY DEF UnlockInv, Confirmed, AckedPassphraseOpens
<1>2. QED BY <1>1, UnlockInvariant, PTL

(* status().device_unlock_available: through any restarts and failures, device     *)
(* unlock is offered only if the key store holds the key that wrapped the master   *)
(* key, until an enrollment is cut short between the two or cannot store its       *)
(* warning; disk, key store and store are well-typed.                              *)
THEOREM OfferedUnlockIsHonest == UnlockSpec => []DeviceUnlockHonest
<1>1. UnlockInv => DeviceUnlockHonest
  BY DEF UnlockInv, StoresAgree, DeviceUnlockHonest, OfferedDeviceUnlockWorks, Available, NoCall, BetweenStores
<1>2. QED BY <1>1, UnlockInvariant, PTL

(* unlock_with_passphrase: the enrollment it runs, if no call fails, leaves device *)
(* unlock offered and working, whatever an earlier crash left on disk.             *)
THEOREM UninterruptedEnrollmentWorks == UnlockSpec => PassphraseUnlockReenrolls
<1>1. ASSUME UnlockInv, [UnlockNext]_unlockVars, doing.call = "enroll", doing.at # "warn", doing' = NoCall,
             deaths' = deaths, faults' = faults
      PROVE  Available' /\ keyring' = enrollment'
  <2>1. CASE ClearMessage
    BY <1>1, <2>1, KeysAssumption
    DEF ClearMessage, Persist, Available, UnlockInv, OpTyped, Creating, Rotating, Enrolling, NoCall, EnrollingKeys
  <2>2. CASE EnrollmentFails
    BY <1>1, <2>2 DEF EnrollmentFails, UnlockInv
  <2>13. CASE StoreWarning
    BY <1>1, <2>13 DEF StoreWarning
  <2>3. CASE Reopen
    BY <1>1, <2>3 DEF Reopen, UnlockInv
  <2>4. doing # NoCall /\ doing.call \notin {"create", "rotate"}
    BY <1>1 DEF NoCall
  <2>5. ASSUME NEW p \in Passphrases, BeginCreate(p) \/ UnlockWithPassphrase(p) PROVE FALSE
    BY <2>4, <2>5 DEF BeginCreate, UnlockWithPassphrase
  <2>6. ASSUME NEW p, NEW q, BeginRotate(p, q) PROVE FALSE
    BY <2>4, <2>6 DEF BeginRotate
  <2>7. ASSUME NEW k, SetSecret(k) PROVE FALSE
    BY <1>1, <2>7, SetSecretOp DEF UnlockInv, NoCall
  <2>8. ASSUME UpsertEnrollment PROVE FALSE
    BY <1>1, <2>8 DEF UpsertEnrollment, Goto, NoCall, UnlockInv, OpTyped, Creating, Rotating, Enrolling
  <2>9. ~(InsertHeader \/ HeaderExists \/ DeleteBundles \/ InsertBundle \/ FinishCreate \/ FinishRotate \/ StatementFails)
    BY <2>4 DEF InsertHeader, HeaderExists, DeleteBundles, InsertBundle, FinishCreate, FinishRotate, StatementFails
  <2>10. ~(UnlockWithDevice \/ DeviceKeyMismatch \/ DeviceKeyUnavailable \/ Lock)
    BY <2>4 DEF UnlockWithDevice, DeviceKeyMismatch, DeviceKeyUnavailable, Lock
  <2>11. CASE UNCHANGED unlockVars
    BY <1>1, <2>4, <2>11 DEF unlockVars
  <2>12. QED BY <1>1, <2>1, <2>2, <2>3, <2>5, <2>6, <2>7, <2>8, <2>9, <2>10, <2>11, <2>13 DEF UnlockNext
<1>2. UnlockInv /\ [UnlockNext]_unlockVars =>
        [doing.call = "enroll" /\ doing.at # "warn" /\ doing' = NoCall
            /\ deaths' = deaths /\ faults' = faults
          => Available' /\ keyring' = enrollment']_unlockVars
  BY <1>1
<1>3. QED BY <1>2, UnlockInvariant, PTL DEF UnlockSpec, PassphraseUnlockReenrolls
=============================================================================
