---------------------------- MODULE SegmentProofs ----------------------------
(***************************************************************************)
(* The segment store keeps its promise for any number of observations, of  *)
(* files and of frames per file.  Readers and a deletion next to the       *)
(* writer take nothing from other sessions, a deletion leaves nothing of   *)
(* its own, and a reader misses nothing, for any number of readers.        *)
(*                                                                         *)
(* The claims are bounded by assumptions, each of which the runs show to   *)
(* be needed: no write stops half-way while the process lives, and the     *)
(* process always ends the same way, by a kill or by a power loss.  What   *)
(* is said of the next open and of storing once needs in addition that no  *)
(* write of a header, or no sync of a frame, fails in a living process.    *)
(* What is said of readers and deletions needs that no deletion overlaps   *)
(* with a start of the daemon, no deletion or read with a rotation, and no *)
(* end of a read with a write: the run reader_truncates and the README     *)
(* show what happens otherwise.                                            *)
(***************************************************************************)
EXTENDS SegmentAccess, FiniteSetTheorems, TLAPS

(* The writer *)

NoTornWrites == "write" \notin Faults

OneCrashKind == Crashes # {"kill", "power"}

Opening == {"lock", "magic", "magicSync", "recover"}

Rolling == {"seal", "rename", "create", "header", "headerSync"}

Appending == Rolling \cup {"write", "sync"}

\* Where the directory entries and the handle point at each step.  After an
\* error in a rotation the handle is on a full file that is not the active one.
Layout ==
    /\ active \notin sealed
    /\ pc # "down" => fd \in Inodes
    /\ pc \in Opening \cup {"write", "sync"} => fd = active
    /\ pc \in Rolling => Full
    /\ pc = "idle" => fd = active \/ Full
    /\ pc \in {"header", "headerSync"} => replacement = active /\ active \in Inodes
    /\ pc \in {"header", "headerSync"} => frames[active] = <<>>
    /\ pc \in Appending => req \in Ids

\* A tear is always the last thing in a file, and the file that is being
\* written has none.
TearsAtTail ==
    /\ \A i \in Inodes : TornOnlyAtTail(i)
    /\ pc \in {"idle"} \cup Appending => Intact(fd, Len(frames[fd]))
    /\ pc = "sync" => Len(frames[fd]) > 0 /\ frames[fd][Len(frames[fd])] = req

\* Nothing unsynced is left by a power loss, so `open` reads only what stays.
SyncedPrefix ==
    /\ \A i \in Inodes : synced[i] <= Len(frames[i])
    /\ "power" \in Crashes /\ pc \in {"down"} \cup Opening =>
          \A i \in Inodes : synced[i] = Len(frames[i])

\* What makes AckedDurable inductive: a retry is answered from `seen`.
SeenDurable == seen \subseteq Durable

DiskInv == TypeOK /\ Layout /\ TearsAtTail /\ SyncedPrefix

IndInv == DiskInv /\ SeenDurable /\ AckedDurable

\* What a step must do to the listed files to lose no durable frame.
KeepsFrames ==
    /\ Named \subseteq Named'
    /\ \A i \in Named : \A k \in 1..DurableLength(i) :
          Intact(i, k) => k <= DurableLength(i)' /\ frames'[i][k] = frames[i][k]
-----------------------------------------------------------------------------
(* Sequences of frames *)

\* Append keeps every element where it was.
LEMMA AppendKeeps ==
    ASSUME NEW s \in Seq(Ids \cup {Torn}), NEW e \in Ids \cup {Torn}
    PROVE  /\ Append(s, e) \in Seq(Ids \cup {Torn})
           /\ Len(Append(s, e)) = Len(s) + 1
           /\ \A k \in 1..Len(s) : Append(s, e)[k] = s[k]
           /\ Append(s, e)[Len(s) + 1] = e
  OBVIOUS

\* A prefix is made of the first elements.
LEMMA PrefixKeeps ==
    ASSUME NEW s \in Seq(Ids \cup {Torn}), NEW n \in 0..Len(s)
    PROVE  /\ SubSeq(s, 1, n) \in Seq(Ids \cup {Torn})
           /\ Len(SubSeq(s, 1, n)) = n
           /\ \A k \in 1..n : SubSeq(s, 1, n)[k] = s[k]
  OBVIOUS

\* Writing one frame, whole or torn, changes one file, at its end.
LEMMA FrameWritten ==
    ASSUME TypeOK, NEW i \in Inodes, NEW e \in Ids \cup {Torn},
           frames' = [frames EXCEPT ![i] = Append(@, e)]
    PROVE  /\ frames' \in [Inodes -> Seq(Ids \cup {Torn})]
           /\ \A j \in Inodes \ {i} : frames'[j] = frames[j]
           /\ Len(frames'[i]) = Len(frames[i]) + 1
           /\ \A k \in 1..Len(frames[i]) : frames'[i][k] = frames[i][k]
           /\ frames'[i][Len(frames[i]) + 1] = e
  <1> DEFINE longer == Append(frames[i], e)
  <1>1. /\ longer \in Seq(Ids \cup {Torn})
        /\ Len(longer) = Len(frames[i]) + 1
        /\ \A k \in 1..Len(frames[i]) : longer[k] = frames[i][k]
        /\ longer[Len(frames[i]) + 1] = e
    BY AppendKeeps DEF TypeOK
  <1>2. frames' = [frames EXCEPT ![i] = longer]
    OBVIOUS
  <1> HIDE DEF longer
  <1> QED
    BY <1>1, <1>2 DEF TypeOK

\* Truncating one file leaves a prefix of it and the other files alone.
LEMMA FileTruncated ==
    ASSUME TypeOK, NEW i \in Inodes, NEW n \in 0..Len(frames[i]),
           frames' = [frames EXCEPT ![i] = SubSeq(@, 1, n)]
    PROVE  /\ frames' \in [Inodes -> Seq(Ids \cup {Torn})]
           /\ \A j \in Inodes \ {i} : frames'[j] = frames[j]
           /\ Len(frames'[i]) = n
           /\ \A k \in 1..n : frames'[i][k] = frames[i][k]
  <1> DEFINE shorter == SubSeq(frames[i], 1, n)
  <1>1. /\ shorter \in Seq(Ids \cup {Torn})
        /\ Len(shorter) = n
        /\ \A k \in 1..n : shorter[k] = frames[i][k]
    BY PrefixKeeps DEF TypeOK
  <1>2. frames' = [frames EXCEPT ![i] = shorter]
    OBVIOUS
  <1> HIDE DEF shorter
  <1> QED
    BY <1>1, <1>2 DEF TypeOK

\* A complete frame is an observation id.
LEMMA StoredAreIds == TypeOK => Stored \subseteq Ids
  <1> SUFFICES ASSUME TypeOK, NEW i \in Named, NEW k \in 1..Len(frames[i]), Intact(i, k)
               PROVE  frames[i][k] \in Ids
    BY DEF Stored, IdsUpTo
  <1>1. i \in Inodes
    BY DEF Named, TypeOK
  <1> QED
    BY <1>1 DEF TypeOK, Intact

\* What a power loss leaves of a file: a prefix that covers the synced frames,
\* perhaps followed by one tear.
LEMMA PowerLossKeeps ==
    ASSUME TypeOK, PowerLoss, NEW i \in Inodes
    PROVE  /\ frames'[i] \in Seq(Ids \cup {Torn})
           /\ synced'[i] = Len(frames'[i])
           /\ \/ frames'[i] = frames[i]
              \/ \E n \in 0..Len(frames[i]) :
                    /\ synced[i] <= n
                    /\ n <= Len(frames'[i])
                    /\ \A k \in 1..n : frames'[i][k] = frames[i][k]
                    /\ Len(frames'[i]) = n \/ (Len(frames'[i]) = n + 1 /\ n < Len(frames[i]) /\ frames'[i][n + 1] = Torn)
  <1>1. PICK keep \in [DirtyFrames -> 0..SegmentLimit], tear \in SUBSET DirtyFrames :
          /\ \A j \in DirtyFrames :
                /\ synced[j] <= keep[j]
                /\ keep[j] <= Len(frames[j])
                /\ j \in tear => keep[j] < Len(frames[j])
          /\ frames' = [j \in Inodes |->
                IF j \in tear THEN Append(SubSeq(frames[j], 1, keep[j]), Torn)
                ELSE IF j \in DirtyFrames THEN SubSeq(frames[j], 1, keep[j])
                ELSE frames[j]]
          /\ synced' = [j \in Inodes |-> Len(frames'[j])]
    BY DEF PowerLoss
  <1>2. CASE i \notin DirtyFrames
    BY <1>1, <1>2 DEF TypeOK
  <1>3. CASE i \in DirtyFrames
    <2> DEFINE prefix == SubSeq(frames[i], 1, keep[i])
    <2>1. /\ keep[i] \in 0..Len(frames[i])
          /\ synced[i] <= keep[i]
      BY <1>1, <1>3, SegmentAssumptions DEF TypeOK
    <2>2. /\ prefix \in Seq(Ids \cup {Torn})
          /\ Len(prefix) = keep[i]
          /\ \A k \in 1..keep[i] : prefix[k] = frames[i][k]
      BY <2>1, PrefixKeeps DEF TypeOK
    <2>3. \/ frames'[i] = prefix
          \/ frames'[i] = Append(prefix, Torn) /\ keep[i] < Len(frames[i])
      BY <1>1, <1>3
    <2> HIDE DEF prefix
    <2>4. synced'[i] = Len(frames'[i])
      BY <1>1
    <2>5. CASE frames'[i] = prefix
      BY <2>1, <2>2, <2>4, <2>5
    <2>6. CASE frames'[i] = Append(prefix, Torn) /\ keep[i] < Len(frames[i])
      <3> DEFINE torn == Append(prefix, Torn)
      <3>1. /\ torn \in Seq(Ids \cup {Torn})
            /\ Len(torn) = keep[i] + 1
            /\ \A k \in 1..keep[i] : torn[k] = frames[i][k]
            /\ torn[keep[i] + 1] = Torn
        BY <2>2, AppendKeeps
      <3>2. frames'[i] = torn
        BY <2>6
      <3> HIDE DEF torn
      <3> QED
        <4>1. /\ keep[i] \in 0..Len(frames[i])
              /\ synced[i] <= keep[i]
          BY <2>1
        <4>2. /\ keep[i] <= Len(torn)
              /\ Len(torn) = keep[i] + 1 /\ keep[i] < Len(frames[i])
          BY <2>1, <2>6, <3>1
        <4> QED
          BY <4>1, <4>2, <2>4, <3>1, <3>2, Zenon
    <2> QED
      BY <2>3, <2>5, <2>6
  <1> QED
    BY <1>2, <1>3

-----------------------------------------------------------------------------
(* Types *)

\* TypeOK and Layout are inductive together: the request of an append in
\* progress is an id because of Layout.
LEMMA TypeStep == TypeOK /\ Layout /\ [Next]_vars => TypeOK' /\ Layout'
  <1> USE SegmentAssumptions DEF Opening, Appending, Rolling
  <1> SUFFICES ASSUME TypeOK, Layout, [Next]_vars PROVE TypeOK' /\ Layout'
    OBVIOUS
  <1>0. UNCHANGED <<frames, fd>> => (Full' <=> Full)
    BY DEF Full
  <1>1. CASE OpenActive
    BY <1>1 DEF OpenActive, TypeOK, Layout, Named, Fresh, disk
  <1>2. CASE LockActive
    BY <1>0, <1>2 DEF LockActive, TypeOK, Layout, Named, disk, names
  <1>3. CASE WriteMagic
    BY <1>0, <1>3 DEF WriteMagic, TypeOK, Layout, Named, names, Stop
  <1>4. CASE SyncMagic
    BY <1>0, <1>4 DEF SyncMagic, TypeOK, Layout, Named, names
  <1>5. CASE Recover
    <2>1. active \in Inodes
      BY <1>5 DEF Recover, TypeOK, Layout, Named
    <2>2. PICK n \in 0..Len(frames[active]) :
             /\ frames' = [frames EXCEPT ![active] = SubSeq(@, 1, n)]
             /\ synced' = [synced EXCEPT ![active] = IF @ > n THEN n ELSE @]
      BY <1>5 DEF Recover, TruncateActive
    <2>3. /\ frames' \in [Inodes -> Seq(Ids \cup {Torn})]
          /\ synced' \in [Inodes -> Nat]
      BY <2>1, <2>2, FileTruncated DEF TypeOK
    <2> QED
      BY <1>5, <2>3, StoredAreIds DEF Recover, TypeOK, Layout, Named, names
  <1>6. CASE RecoverFails
    BY <1>6 DEF RecoverFails, Stop, TypeOK, Layout, Named, disk, names
  <1>7. ASSUME NEW o \in Ids, AppendDuplicate(o) PROVE TypeOK' /\ Layout'
    BY <1>0, <1>7 DEF AppendDuplicate, TypeOK, Layout, Named, disk, names, writer
  <1>8. ASSUME NEW o \in Ids, AppendBegin(o) PROVE TypeOK' /\ Layout'
    BY <1>0, <1>8 DEF AppendBegin, TypeOK, Layout, Named, disk, names
  <1>9. CASE SealSync
    <2>1. fd \in Inodes /\ Len(frames[fd]) \in Nat
      BY <1>9 DEF SealSync, TypeOK, Layout
    <2>2. TypeOK'
      BY <1>9, <2>1, ZenonT(30) DEF SealSync, Fail, TypeOK, Layout, names
    <2>3. Layout'
      BY <1>0, <1>9 DEF SealSync, Fail, Layout, names
    <2> QED
      BY <2>2, <2>3
  <1>10. CASE SealRename
    <2>1. /\ pc = "rename" /\ Full' /\ fd' = fd /\ fd \in Inodes
          /\ pc' \in {"create", "idle"}
      BY <1>0, <1>10 DEF SealRename, Fail, disk, Layout
    <2> QED
      BY <1>10, <2>1 DEF SealRename, Fail, TypeOK, Layout, disk, names
  <1>11. CASE CreateReplacement
    BY <1>0, <1>11 DEF CreateReplacement, Fresh, Fail, TypeOK, Layout, Named, disk
  <1>12. CASE WriteReplacementMagic
    BY <1>0, <1>12 DEF WriteReplacementMagic, Fail, TypeOK, Layout, Named, names
  <1>13. CASE InstallReplacement
    BY <1>0, <1>13 DEF InstallReplacement, Fail, TypeOK, Layout, Named, names
  <1>14. CASE WriteFrame
    <2>1. fd \in Inodes /\ req \in Ids
      BY <1>14 DEF WriteFrame, TypeOK, Layout, Named
    <2>2. \/ frames' = frames
          \/ \E e \in Ids \cup {Torn} : frames' = [frames EXCEPT ![fd] = Append(@, e)]
      BY <1>14, <2>1 DEF WriteFrame
    <2>3. frames' \in [Inodes -> Seq(Ids \cup {Torn})]
      BY <2>1, <2>2, FrameWritten DEF TypeOK
    <2> QED
      <3>1. /\ fd' = fd /\ fd = active /\ active' = active /\ sealed' = sealed
            /\ pc' \in {"sync", "idle"} /\ (pc' = "sync" => req' = req)
        BY <1>14 DEF WriteFrame, Fail, Layout, names
      <3>2. TypeOK'
        BY <1>14, <2>3 DEF WriteFrame, Fail, TypeOK, names
      <3> QED
        BY <2>1, <3>1, <3>2 DEF Layout
  <1>15. CASE SyncFrame
    <2>1. fd \in Inodes /\ Len(frames[fd]) \in Nat
      BY <1>15 DEF SyncFrame, TypeOK, Layout
    <2>2. TypeOK'
      BY <1>15, <2>1 DEF SyncFrame, Fail, TypeOK, Layout, names
    <2>3. Layout'
      BY <1>0, <1>15 DEF SyncFrame, Fail, Layout, names
    <2> QED
      BY <2>2, <2>3
  <1>16. CASE Kill
    <2>1. frames' = frames \/ (fd \in Inodes /\ frames' = [frames EXCEPT ![fd] = Append(@, Torn)])
      BY <1>16 DEF Kill, TypeOK, Layout, Named
    <2>2. frames' \in [Inodes -> Seq(Ids \cup {Torn})]
      BY <2>1, FrameWritten DEF TypeOK
    <2> QED
      BY <1>16, <2>2 DEF Kill, Stop, TypeOK, Layout, Named, names
  <1>17. CASE PowerLoss
    <2>1. /\ frames' \in [Inodes -> Seq(Ids \cup {Torn})]
          /\ synced' \in [Inodes -> Nat]
          /\ header' \in [Inodes -> {"absent", "torn", "unsynced", "synced"}]
      <3>1. \A i \in Inodes : frames'[i] \in Seq(Ids \cup {Torn}) /\ synced'[i] \in Nat
        BY <1>17, PowerLossKeeps
      <3> QED
        BY <1>17, <3>1 DEF PowerLoss, TypeOK
    <2> QED
      BY <1>17, <2>1 DEF PowerLoss, Stop, TypeOK, Layout, Named, names
  <1>18. CASE UNCHANGED vars
    BY <1>0, <1>18 DEF vars, disk, names, writer, TypeOK, Layout, Named
  <1> QED
    BY <1>1, <1>2, <1>3, <1>4, <1>5, <1>6, <1>7, <1>8, <1>9, <1>10, <1>11, <1>12,
       <1>13, <1>14, <1>15, <1>16, <1>17, <1>18
       DEF Next, Open, AppendStep, Rotate

\* TypeOK holds in every state, whatever the crashes and the faults.
THEOREM TypeCorrect == Spec => [](TypeOK /\ Layout)
  <1>1. Init => TypeOK /\ Layout
    BY SegmentAssumptions DEF Init, TypeOK, Layout, Opening, Appending, Rolling
  <1> QED
    BY <1>1, TypeStep, PTL DEF Spec
-----------------------------------------------------------------------------
(* Frames *)

\* The steps that touch no file keep what is known of the files.
LEMMA DiskUntouched ==
    ASSUME DiskInv, UNCHANGED <<frames, synced>>, Named \subseteq Named',
           pc' \in {"idle"} \cup Appending => fd' = fd /\ pc \in {"idle"} \cup Appending,
           pc' # "sync",
           pc' \in {"down"} \cup Opening => pc \in {"down"} \cup Opening \/ "power" \notin Crashes
    PROVE  TearsAtTail' /\ SyncedPrefix' /\ KeepsFrames
  <1>1. TearsAtTail'
    BY DEF DiskInv, TearsAtTail, TornOnlyAtTail, Intact
  <1>2. SyncedPrefix'
    BY DEF DiskInv, SyncedPrefix
  <1>3. KeepsFrames
    BY DEF DiskInv, TypeOK, Named, KeepsFrames, DurableLength, Intact
  <1> QED
    BY <1>1, <1>2, <1>3

\* `open` truncates the tail it cannot read and nothing else.
LEMMA RecoverStep ==
    ASSUME DiskInv, Recover
    PROVE  /\ TearsAtTail' /\ SyncedPrefix' /\ KeepsFrames
           /\ Stored \subseteq Durable'
  <1> USE DEF DiskInv
  <1>1. active \in Inodes /\ fd = active
    BY DEF Recover, Layout, Named, Opening, TypeOK
  <1>2. PICK n \in 0..Len(frames[active]) :
           /\ ValidEnd(active, n)
           /\ frames' = [frames EXCEPT ![active] = SubSeq(@, 1, n)]
           /\ synced' = [synced EXCEPT ![active] = IF @ > n THEN n ELSE @]
    BY DEF Recover, TruncateActive
  <1>3. /\ frames' \in [Inodes -> Seq(Ids \cup {Torn})]
        /\ \A j \in Inodes \ {active} : frames'[j] = frames[j]
        /\ Len(frames'[active]) = n
        /\ \A k \in 1..n : frames'[active][k] = frames[active][k]
    BY <1>1, <1>2, FileTruncated
  <1>4. /\ \A j \in Inodes \ {active} : synced'[j] = synced[j]
        /\ synced'[active] = IF synced[active] > n THEN n ELSE synced[active]
    BY <1>1, <1>2 DEF TypeOK
  <1>5. /\ \A k \in 1..n : frames[active][k] # Torn
        /\ n < Len(frames[active]) => frames[active][n + 1] = Torn
    BY <1>2 DEF ValidEnd, Intact
  <1>6. TearsAtTail'
    <2>1. ASSUME NEW j \in Inodes PROVE TornOnlyAtTail(j)'
      BY <1>1, <1>3, <1>5 DEF TearsAtTail, TornOnlyAtTail, Intact
    <2>2. fd' = active /\ pc' = "idle"
      BY <1>1 DEF Recover
    <2>3. Intact(fd, Len(frames[fd]))'
      BY <2>2, <1>3, <1>5 DEF Intact
    <2> QED
      BY <2>1, <2>2, <2>3 DEF TearsAtTail
  <1>7. SyncedPrefix'
    <2>1. ASSUME NEW j \in Inodes PROVE synced'[j] <= Len(frames'[j])
      <3>1. CASE j = active
        BY <1>3, <1>4, <3>1 DEF TypeOK
      <3>2. CASE j # active
        BY <1>3, <1>4, <3>2 DEF SyncedPrefix
      <3> QED
        BY <3>1, <3>2
    <2>2. pc' = "idle"
      BY DEF Recover
    <2> QED
      BY <2>1, <2>2 DEF SyncedPrefix, Opening
  <1>8. ASSUME NEW i \in Named, NEW k \in 1..Len(frames[i]), Intact(i, k)
        PROVE  /\ k \in 1..DurableLength(i)'
               /\ \A j \in 1..k : frames'[i][j] = frames[i][j]
    <2>1. i \in Inodes
      BY DEF Named, TypeOK
    <2>2. k <= Len(frames'[i]) /\ \A j \in 1..k : frames'[i][j] = frames[i][j]
      <3>1. CASE i # active
        BY <2>1, <3>1, <1>3
      <3>2. CASE i = active
        <4>1. k <= n
          BY <1>5, <1>8, <3>2 DEF Intact
        <4> QED
          BY <4>1, <3>2, <1>3
      <3> QED
        BY <3>1, <3>2
    <2>3. "power" \in Crashes => synced'[i] = Len(frames'[i])
      <3>1. "power" \in Crashes => synced[i] = Len(frames[i])
        BY <2>1 DEF SyncedPrefix, Recover, Opening
      <3>2. CASE i # active
        BY <2>1, <3>1, <3>2, <1>3, <1>4
      <3>3. CASE i = active
        BY <3>1, <3>3, <1>3, <1>4
      <3> QED
        BY <3>2, <3>3
    <2> QED
      BY <2>1, <2>2, <2>3, <1>3 DEF DurableLength
  <1>9. Named' = Named
    BY DEF Recover, names, Named
  <1>10. KeepsFrames
    <2> SUFFICES ASSUME NEW i \in Named, NEW k \in 1..DurableLength(i), Intact(i, k)
                 PROVE  k <= DurableLength(i)' /\ frames'[i][k] = frames[i][k]
      BY <1>9 DEF KeepsFrames
    <2>1. k \in 1..Len(frames[i])
      BY DEF DurableLength, SyncedPrefix, Named, TypeOK
    <2> QED
      BY <2>1, <1>8
  <1>11. Stored \subseteq Durable'
    <2> SUFFICES ASSUME NEW i \in Named, NEW k \in 1..Len(frames[i]), Intact(i, k)
                 PROVE  frames[i][k] \in Durable'
      BY DEF Stored, IdsUpTo
    <2>1. k \in 1..DurableLength(i)' /\ \A j \in 1..k : frames'[i][j] = frames[i][j]
      BY <1>8
    <2>2. Intact(i, k)' /\ frames'[i][k] = frames[i][k]
      BY <2>1 DEF Intact
    <2>3. i \in Named'
      BY <1>9
    <2> QED
      BY <2>1, <2>2, <2>3 DEF Durable, IdsUpTo
  <1> QED
    BY <1>6, <1>7, <1>10, <1>11

\* Writing at the end of the file that is being written.
LEMMA WriteStep ==
    ASSUME DiskInv, NoTornWrites, OneCrashKind, WriteFrame \/ Kill
    PROVE  TearsAtTail' /\ SyncedPrefix' /\ KeepsFrames
  <1> USE SegmentAssumptions DEF DiskInv
  <1>1. Named' = Named /\ synced' = synced
    BY DEF WriteFrame, Kill, names, Named
  <1>2. CASE frames' = frames
    <2>1. CASE Kill
      <3>1. pc' = "down" /\ "power" \notin Crashes
        BY <2>1 DEF Kill, Stop, OneCrashKind
      <3> QED
        BY <1>1, <1>2, <3>1, DiskUntouched DEF Opening, Appending, Rolling
    <2>2. CASE WriteFrame
      <3>1. fd \in Inodes /\ req \in Ids
        BY <2>2 DEF WriteFrame, Layout, Named, TypeOK, Appending, Rolling
      <3>2. frames' # frames
        <4>1. frames' = [frames EXCEPT ![fd] = Append(@, req)]
          BY <2>2 DEF WriteFrame, NoTornWrites
        <4> QED
          BY <3>1, <4>1, FrameWritten DEF TypeOK
      <3> QED
        BY <1>2, <3>2
    <2> QED
      BY <2>1, <2>2
  <1>3. CASE frames' # frames
    <2>1. /\ fd \in Inodes /\ fd \in Named
          /\ Intact(fd, Len(frames[fd]))
          /\ pc \in Appending
      BY <1>3 DEF WriteFrame, Kill, Layout, Named, TypeOK, Appending, Rolling, TearsAtTail
    <2>2. PICK e \in Ids \cup {Torn} :
             /\ frames' = [frames EXCEPT ![fd] = Append(@, e)]
             /\ e = Torn => pc' = "down" /\ "power" \notin Crashes
             /\ e # Torn => pc' = "sync" /\ fd' = fd /\ req' = e
      BY <1>3, <2>1 DEF WriteFrame, Kill, Stop, NoTornWrites, OneCrashKind, Layout, Appending, Rolling
    <2>3. /\ frames' \in [Inodes -> Seq(Ids \cup {Torn})]
          /\ \A j \in Inodes \ {fd} : frames'[j] = frames[j]
          /\ Len(frames'[fd]) = Len(frames[fd]) + 1
          /\ \A k \in 1..Len(frames[fd]) : frames'[fd][k] = frames[fd][k]
          /\ frames'[fd][Len(frames[fd]) + 1] = e
      BY <2>1, <2>2, FrameWritten
    <2>4. \A k \in 1..Len(frames[fd]) : frames'[fd][k] # Torn
      BY <2>1, <2>3 DEF Intact
    <2>5. TearsAtTail'
      <3>1. ASSUME NEW j \in Inodes PROVE TornOnlyAtTail(j)'
        <4>1. CASE j = fd
          BY <4>1, <2>3, <2>4 DEF TornOnlyAtTail, Intact, TypeOK
        <4>2. CASE j # fd
          BY <4>2, <2>3 DEF TearsAtTail, TornOnlyAtTail, Intact
        <4> QED
          BY <4>1, <4>2
      <3>2. CASE e = Torn
        BY <3>1, <3>2, <2>2 DEF TearsAtTail, Appending, Rolling
      <3>3. CASE e # Torn
        <4>1. Intact(fd, Len(frames[fd]))'
          BY <3>3, <2>2, <2>3, <2>4 DEF Intact, TypeOK
        <4>2. (Len(frames[fd]) > 0 /\ frames[fd][Len(frames[fd])] = req)'
          BY <3>3, <2>2, <2>3, <2>1 DEF TypeOK
        <4> QED
          BY <3>1, <4>1, <4>2 DEF TearsAtTail
      <3> QED
        BY <3>2, <3>3
    <2>6. SyncedPrefix'
      <3>1. ASSUME NEW j \in Inodes PROVE synced'[j] <= Len(frames'[j])
        <4>1. synced'[j] \in Nat /\ synced'[j] <= Len(frames[j]) /\ Len(frames[j]) \in Nat
          BY <1>1 DEF SyncedPrefix, TypeOK
        <4>2. Len(frames'[j]) \in {Len(frames[j]), Len(frames[j]) + 1}
          BY <2>3
        <4> QED
          BY <4>1, <4>2
      <3> QED
        BY <3>1, <2>2 DEF SyncedPrefix, Opening
    <2>7. KeepsFrames
      <3> SUFFICES ASSUME NEW i \in Named, NEW k \in 1..DurableLength(i)
                   PROVE  k <= DurableLength(i)' /\ frames'[i][k] = frames[i][k]
        BY <1>1 DEF KeepsFrames
      <3>1. i \in Inodes
        BY DEF Named, TypeOK
      <3>2. k \in 1..Len(frames[i])
        BY <3>1 DEF DurableLength, SyncedPrefix, TypeOK
      <3> QED
        <4>1. frames'[i][k] = frames[i][k]
          BY <2>3, <3>1, <3>2
        <4>2. Len(frames[i]) \in Nat /\ Len(frames'[i]) \in {Len(frames[i]), Len(frames[i]) + 1}
          <5>1. Len(frames[i]) \in Nat
            BY <3>1 DEF TypeOK
          <5>2. i = fd \/ frames'[i] = frames[i]
            BY <2>3, <3>1
          <5>3. Len(frames'[fd]) = Len(frames[fd]) + 1
            BY <2>3
          <5> QED
            BY <5>1, <5>2, <5>3
        <4>3. DurableLength(i)' \in {DurableLength(i), DurableLength(i) + 1}
          BY <1>1, <4>2 DEF DurableLength
        <4>4. DurableLength(i) \in Nat
          BY <3>1, <4>2 DEF DurableLength, TypeOK
        <4> QED
          BY <4>1, <4>3, <4>4
    <2> QED
      BY <2>5, <2>6, <2>7
  <1> QED
    BY <1>2, <1>3

\* sync_data only lengthens what is durable.
LEMMA SyncStep ==
    ASSUME DiskInv, SealSync \/ SyncFrame
    PROVE  TearsAtTail' /\ SyncedPrefix' /\ KeepsFrames
  <1> USE DEF DiskInv
  <1>1. /\ frames' = frames /\ fd' = fd /\ Named' = Named
        /\ pc \in Appending /\ pc' \in {"idle", "rename"}
        /\ fd \in Inodes
    BY DEF SealSync, SyncFrame, Fail, names, Named, Appending, Rolling, Layout, TypeOK
  <1>2. synced' = synced \/ synced' = [synced EXCEPT ![fd] = Len(frames[fd])]
    BY DEF SealSync, SyncFrame
  <1>3. ASSUME NEW i \in Inodes
        PROVE  /\ synced'[i] \in Nat
               /\ synced[i] <= synced'[i]
               /\ synced'[i] <= Len(frames[i])
    <2>1. /\ synced[i] \in Nat /\ Len(frames[i]) \in Nat
          /\ synced[i] <= Len(frames[i])
      BY DEF SyncedPrefix, TypeOK
    <2>2. synced'[i] = synced[i] \/ synced'[i] = Len(frames[i])
      BY <1>1, <1>2 DEF TypeOK
    <2> QED
      BY <2>1, <2>2
  <1>4. TearsAtTail'
    BY <1>1 DEF TearsAtTail, TornOnlyAtTail, Intact
  <1>5. SyncedPrefix'
    BY <1>1, <1>3 DEF SyncedPrefix, Opening
  <1>6. KeepsFrames
    <2> SUFFICES ASSUME NEW i \in Named, NEW k \in 1..DurableLength(i)
                 PROVE  k <= DurableLength(i)' /\ frames'[i][k] = frames[i][k]
      BY <1>1 DEF KeepsFrames
    <2>1. i \in Inodes
      BY DEF Named, TypeOK
    <2> QED
      BY <1>1, <1>3, <2>1 DEF DurableLength, TypeOK
  <1> QED
    BY <1>4, <1>5, <1>6

\* A power loss keeps what was synced.
LEMMA PowerLossStep ==
    ASSUME DiskInv, PowerLoss
    PROVE  TearsAtTail' /\ SyncedPrefix' /\ KeepsFrames
  <1> USE SegmentAssumptions DEF DiskInv
  <1>1. pc' = "down" /\ Named' = Named /\ "power" \in Crashes
    BY DEF PowerLoss, Stop, names, Named
  <1>2. ASSUME NEW i \in Inodes
        PROVE  /\ TornOnlyAtTail(i)'
               /\ synced'[i] = Len(frames'[i])
               /\ \A k \in 1..synced[i] : k <= synced'[i] /\ frames'[i][k] = frames[i][k]
    <2>1. /\ frames[i] \in Seq(Ids \cup {Torn}) /\ frames'[i] \in Seq(Ids \cup {Torn})
          /\ synced'[i] = Len(frames'[i])
          /\ synced[i] \in Nat /\ synced[i] <= Len(frames[i])
          /\ TornOnlyAtTail(i)
      BY PowerLossKeeps DEF TypeOK, SyncedPrefix, TearsAtTail
    <2>2. CASE frames'[i] = frames[i]
      BY <2>1, <2>2 DEF TornOnlyAtTail, Intact
    <2>3. CASE frames'[i] # frames[i]
      <3>1. PICK n \in 0..Len(frames[i]) :
               /\ synced[i] <= n
               /\ n <= Len(frames'[i])
               /\ \A k \in 1..n : frames'[i][k] = frames[i][k]
               /\ Len(frames'[i]) = n \/ (Len(frames'[i]) = n + 1 /\ n < Len(frames[i]))
        BY <2>3, PowerLossKeeps
      <3>2. \A k \in 1..Len(frames[i]) - 1 : frames[i][k] # Torn
        BY <2>1 DEF TornOnlyAtTail, Intact
      <3>3. ASSUME NEW k \in 1..Len(frames'[i]) - 1 PROVE frames'[i][k] # Torn
        <4>1. k \in 1..n /\ k \in 1..Len(frames[i]) - 1
          BY <2>1, <3>1
        <4> QED
          BY <4>1, <3>1, <3>2
      <3>4. TornOnlyAtTail(i)'
        BY <3>3 DEF TornOnlyAtTail, Intact
      <3> QED
        BY <2>1, <3>1, <3>4
    <2> QED
      BY <2>2, <2>3
  <1>3. TearsAtTail'
    BY <1>1, <1>2 DEF TearsAtTail, Appending, Rolling
  <1>4. SyncedPrefix'
    <2>1. \A i \in Inodes : Len(frames'[i]) \in Nat /\ synced'[i] = Len(frames'[i])
      BY PowerLossKeeps
    <2> QED
      BY <2>1 DEF SyncedPrefix
  <1>5. KeepsFrames
    BY <1>1, <1>2 DEF KeepsFrames, DurableLength, Named, TypeOK
  <1> QED
    BY <1>3, <1>4, <1>5

\* The handle moves to the new file, which is empty.
LEMMA InstallStep ==
    ASSUME DiskInv, InstallReplacement
    PROVE  TearsAtTail' /\ SyncedPrefix' /\ KeepsFrames
  <1> USE DEF DiskInv
  <1>1. /\ frames' = frames /\ synced' = synced /\ Named' = Named
        /\ pc \in Appending /\ pc' \in {"idle", "write"}
        /\ frames[replacement] = <<>>
        /\ fd' = fd \/ fd' = replacement
    BY DEF InstallReplacement, Fail, names, Named, Appending, Rolling, Layout
  <1>2. Intact(fd, Len(frames[fd]))'
    BY <1>1 DEF TearsAtTail, Intact
  <1>3. TearsAtTail'
    BY <1>1, <1>2 DEF TearsAtTail, TornOnlyAtTail, Intact
  <1>4. SyncedPrefix'
    BY <1>1 DEF SyncedPrefix, Opening
  <1>5. KeepsFrames
    BY <1>1 DEF KeepsFrames, DurableLength, Named, TypeOK
  <1> QED
    BY <1>3, <1>4, <1>5

\* No step tears a file that can still grow, and none loses a durable frame.
LEMMA FramesStep ==
    ASSUME DiskInv, NoTornWrites, OneCrashKind, [Next]_vars
    PROVE  TearsAtTail' /\ SyncedPrefix' /\ KeepsFrames
  <1> USE DEF Opening, Appending, Rolling
  <1>1. CASE OpenActive
    BY <1>1, DiskUntouched DEF OpenActive, disk, Named
  <1>2. CASE LockActive
    BY <1>2, DiskUntouched DEF LockActive, disk, names, Named
  <1>3. CASE WriteMagic
    BY <1>3, DiskUntouched DEF WriteMagic, Stop, names, Named
  <1>4. CASE SyncMagic
    BY <1>4, DiskUntouched DEF SyncMagic, names, Named
  <1>5. CASE Recover
    BY <1>5, RecoverStep
  <1>6. CASE RecoverFails
    BY <1>6, DiskUntouched DEF RecoverFails, Stop, disk, names, Named
  <1>7. ASSUME NEW o \in Ids, AppendDuplicate(o)
        PROVE  TearsAtTail' /\ SyncedPrefix' /\ KeepsFrames
    BY <1>7, DiskUntouched DEF AppendDuplicate, writer, disk, names, Named
  <1>8. ASSUME NEW o \in Ids, AppendBegin(o)
        PROVE  TearsAtTail' /\ SyncedPrefix' /\ KeepsFrames
    BY <1>8, DiskUntouched DEF AppendBegin, disk, names, Named
  <1>9. CASE SealSync \/ SyncFrame
    BY <1>9, SyncStep
  <1>10. CASE SealRename
    <2>1. Named \subseteq Named'
      BY <1>10 DEF SealRename, names, Named
    <2>2. /\ UNCHANGED <<frames, synced>> /\ fd' = fd
          /\ pc \in Appending /\ pc' \in {"create", "idle"}
      BY <1>10 DEF SealRename, Fail, disk
    <2> QED
      BY <2>1, <2>2, DiskUntouched
  <1>11. CASE CreateReplacement
    BY <1>11, DiskUntouched DEF CreateReplacement, Fail, disk, Named, Fresh
  <1>12. CASE WriteReplacementMagic
    BY <1>12, DiskUntouched DEF WriteReplacementMagic, Fail, names, Named
  <1>13. CASE InstallReplacement
    BY <1>13, InstallStep
  <1>14. CASE WriteFrame \/ Kill
    BY <1>14, WriteStep
  <1>15. CASE PowerLoss
    BY <1>15, PowerLossStep
  <1>16. CASE UNCHANGED vars
    <2>1. CASE pc = "sync"
      <3>1. TearsAtTail' /\ SyncedPrefix'
        BY <1>16 DEF vars, disk, writer, names, DiskInv, TearsAtTail, TornOnlyAtTail,
                     Intact, SyncedPrefix
      <3>2. KeepsFrames
        BY <1>16 DEF vars, disk, names, Named, KeepsFrames, DurableLength, DiskInv, TypeOK
      <3> QED
        BY <3>1, <3>2
    <2>2. CASE pc # "sync"
      BY <1>16, <2>2, DiskUntouched DEF vars, disk, writer, names, Named
    <2> QED
      BY <2>1, <2>2
  <1> QED
    BY <1>1, <1>2, <1>3, <1>4, <1>5, <1>6, <1>7, <1>8, <1>9, <1>10, <1>11, <1>12,
       <1>13, <1>14, <1>15, <1>16 DEF Next, Open, AppendStep, Rotate

\* The invariant of the files is inductive.
LEMMA DiskStep ==
    ASSUME NoTornWrites, OneCrashKind
    PROVE  DiskInv /\ [Next]_vars => DiskInv'
  BY TypeStep, FramesStep DEF DiskInv
-----------------------------------------------------------------------------
(* Durability *)

\* A frame that keeps its place and its predecessors is still read back.
LEMMA DurableKept == DiskInv /\ KeepsFrames => Durable \subseteq Durable'
  <1> SUFFICES ASSUME DiskInv, KeepsFrames,
                      NEW i \in Named, NEW k \in 1..DurableLength(i), Intact(i, k)
               PROVE  frames[i][k] \in Durable'
    BY DEF Durable, IdsUpTo
  <1>1. DurableLength(i) \in Nat /\ i \in Named'
    BY DEF DiskInv, TypeOK, Named, DurableLength, KeepsFrames
  <1>2. ASSUME NEW j \in 1..k
        PROVE  j <= DurableLength(i)' /\ frames'[i][j] = frames[i][j] /\ frames[i][j] # Torn
    <2>1. j \in 1..DurableLength(i) /\ Intact(i, j)
      BY <1>1 DEF Intact
    <2> QED
      BY <2>1 DEF KeepsFrames, Intact
  <1>3. k \in 1..DurableLength(i)' /\ frames'[i][k] = frames[i][k] /\ Intact(i, k)'
    BY <1>2 DEF Intact
  <1> QED
    BY <1>1, <1>3 DEF Durable, IdsUpTo

\* The answer to a new observation comes when its frame is durable.
LEMMA SyncedIsDurable ==
    ASSUME DiskInv, SyncFrame, acked' # acked \/ seen' # seen
    PROVE  req \in Durable'
  <1> USE DEF DiskInv
  <1>1. /\ synced' = [synced EXCEPT ![fd] = Len(frames[fd])]
        /\ frames' = frames /\ Named' = Named /\ fd' = fd
    BY DEF SyncFrame, Fail, names, Named
  <1>2. /\ fd \in Named /\ fd \in Inodes
        /\ Intact(fd, Len(frames[fd]))
        /\ Len(frames[fd]) > 0
        /\ frames[fd][Len(frames[fd])] = req
    BY SegmentAssumptions DEF SyncFrame, Layout, TearsAtTail, Appending, Rolling, Named, TypeOK
  <1> DEFINE last == Len(frames[fd])
  <1>3. last \in Nat /\ last \in 1..last
    BY <1>2 DEF TypeOK
  <1>4. DurableLength(fd)' = last
    BY <1>1, <1>2 DEF DurableLength, TypeOK
  <1>5. req \in IdsUpTo(fd, last)
    BY <1>2, <1>3 DEF IdsUpTo
  <1>6. (IdsUpTo(fd, DurableLength(fd)))' = IdsUpTo(fd, last)
    BY <1>1, <1>4 DEF IdsUpTo, Intact
  <1> QED
    BY <1>1, <1>2, <1>5, <1>6 DEF Durable

\* What a step adds to the two sets of answered ids is durable by then.
LEMMA AnswersDurable ==
    ASSUME DiskInv, [Next]_vars
    PROVE  seen' \subseteq seen \cup Durable' /\ acked' \subseteq acked \cup seen \cup Durable'
  <1>1. CASE Recover
    BY <1>1, RecoverStep DEF Recover
  <1>2. CASE SyncFrame
    <2>1. seen' \subseteq seen \cup {req} /\ acked' \subseteq acked \cup {req}
      BY <1>2 DEF SyncFrame, Fail
    <2>2. (seen' = seen /\ acked' = acked) \/ req \in Durable'
      BY <1>2, SyncedIsDurable
    <2> QED
      BY <2>1, <2>2
  <1>3. ASSUME NEW o \in Ids, AppendDuplicate(o)
        PROVE  seen' = seen /\ acked' \subseteq acked \cup seen
    BY <1>3 DEF AppendDuplicate, writer
  <1>4. CASE seen' \in {seen, {}} /\ acked' = acked
    BY <1>4
  <1> QED
    BY <1>1, <1>2, <1>3, <1>4
       DEF Next, Open, AppendStep, Rotate, vars, writer, OpenActive, LockActive, WriteMagic,
           SyncMagic, RecoverFails, AppendBegin, SealSync, SealRename, CreateReplacement,
           WriteReplacementMagic, InstallReplacement, WriteFrame, Kill, PowerLoss, Stop, Fail

\* The invariant holds at the start: nothing is stored, nothing answered.
LEMMA InitInv == Init => IndInv
  <1> USE SegmentAssumptions
  <1>1. Init => TypeOK /\ Layout
    BY DEF Init, TypeOK, Layout, Opening, Appending, Rolling
  <1>2. Init => TearsAtTail /\ SyncedPrefix
    BY DEF Init, TearsAtTail, TornOnlyAtTail, Intact, SyncedPrefix, Appending, Rolling
  <1> QED
    BY <1>1, <1>2 DEF Init, IndInv, DiskInv, SeenDurable, AckedDurable

\* The invariant is inductive.
LEMMA IndStep ==
    ASSUME NoTornWrites, OneCrashKind
    PROVE  IndInv /\ [Next]_vars => IndInv' /\ KeepsFrames
  <1> SUFFICES ASSUME IndInv, [Next]_vars PROVE IndInv' /\ KeepsFrames
    OBVIOUS
  <1>1. DiskInv' /\ KeepsFrames
    BY DiskStep, FramesStep DEF IndInv
  <1>2. Durable \subseteq Durable'
    BY <1>1, DurableKept DEF IndInv
  <1> QED
    BY <1>1, <1>2, AnswersDurable DEF IndInv, SeenDurable, AckedDurable

\* Every observation a caller was told is durable can be read back after any
\* crash, for any number of observations, files and frames per file
\* (segment.rs:114-116 and the retry at 81-84).
THEOREM AckedIsDurable ==
    ASSUME NoTornWrites, OneCrashKind
    PROVE  Spec => []AckedDurable
  <1>1. IndInv => AckedDurable
    BY DEF IndInv
  <1> QED
    BY <1>1, InitInv, IndStep, PTL DEF Spec

DurableInIds == Durable \subseteq Ids

\* A durable frame is an observation, never a tear.
LEMMA DurableAreIds == DiskInv => DurableInIds
  <1> SUFFICES ASSUME DiskInv, NEW i \in Named, NEW k \in 1..DurableLength(i), Intact(i, k)
               PROVE  frames[i][k] \in Ids
    BY DEF DurableInIds, Durable, IdsUpTo
  <1>1. i \in Inodes
    BY DEF DiskInv, TypeOK, Named
  <1>2. k \in 1..Len(frames[i])
    BY <1>1 DEF DiskInv, TypeOK, SyncedPrefix, DurableLength
  <1> QED
    BY <1>1, <1>2 DEF DiskInv, TypeOK, Intact

\* The same of the state after a step.
LEMMA DurableAreIdsNext == DiskInv' => DurableInIds'
  BY DurableAreIds, PTL

\* A step of the store is a step of the abstract log, or none: it persists
\* what it makes durable, and answers only in AppendDuplicate and SyncFrame.
LEMMA StepImplements ==
    ASSUME NoTornWrites, OneCrashKind
    PROVE  IndInv /\ [Next]_vars => [DL!Next]_(DL!vars)
  <1> SUFFICES ASSUME IndInv, [Next]_vars PROVE [DL!Next]_(DL!vars)
    OBVIOUS
  <1>1. IndInv' /\ KeepsFrames
    BY IndStep
  <1>2. PICK S \in SUBSET Ids : Durable' = Durable \cup S
    <2>1. Durable \subseteq Durable'
      BY <1>1, DurableKept DEF IndInv
    <2>2. Durable' \subseteq Ids
      BY <1>1, DurableAreIdsNext DEF IndInv, DurableInIds
    <2> QED
      BY <2>1, <2>2
  <1>3. CASE acked' = acked
    BY <1>2, <1>3 DEF DL!Next, DL!Persist
  <1>4. ASSUME NEW o \in Ids, acked' = acked \cup {o} PROVE DL!Next
    <2>1. o \in Durable'
      BY <1>1, <1>4 DEF IndInv, AckedDurable
    <2>2. DL!Acknowledge({o})
      BY <1>2, <1>4, <2>1 DEF DL!Acknowledge
    <2> QED
      BY <2>2 DEF DL!Next
  <1>5. CASE SyncFrame
    <2>1. req \in Ids
      BY <1>5 DEF SyncFrame, IndInv, DiskInv, Layout, Appending, Rolling
    <2> QED
      BY <1>3, <1>4, <1>5, <2>1 DEF SyncFrame
  <1>6. ASSUME NEW o \in Ids, AppendDuplicate(o) PROVE DL!Next
    BY <1>4, <1>6 DEF AppendDuplicate
  <1> QED
    BY <1>3, <1>5, <1>6
       DEF Next, Open, AppendStep, Rotate, vars, OpenActive, LockActive, WriteMagic,
           SyncMagic, Recover, RecoverFails, AppendBegin, SealSync, SealRename,
           CreateReplacement, WriteReplacementMagic, InstallReplacement, WriteFrame, Kill,
           PowerLoss

\* The store implements the abstract log of docs/adr/004-delivery-recovery.md
\* (lines 7-12): what is answered is in the log, and the log never shrinks.
THEOREM StoreImplementsLog ==
    ASSUME NoTornWrites, OneCrashKind
    PROVE  Spec => ImplementsDurableLog
  <1>1. Init => DL!Init
    BY DEF Init, DL!Init, Durable, IdsUpTo, Named
  <1> QED
    BY <1>1, InitInv, IndStep, StepImplements, PTL DEF Spec, ImplementsDurableLog, DL!Spec
-----------------------------------------------------------------------------
(* What is read back *)

\* Kills take nothing from a file, so what is durable is all that is stored.
LEMMA StoredIsDurable == "power" \notin Crashes => Stored = Durable
  BY DEF Stored, Durable, DurableLength

\* The same of the state after a step.
LEMMA StoredIsDurableNext == "power" \notin Crashes => Stored' = Durable'
  BY DEF Stored, Durable, DurableLength, IdsUpTo

\* Without power losses no step takes a stored observation away: a rotation
\* moves it, and `open` truncates only what is behind it (segment.rs:240-266).
THEOREM StoredIsKept ==
    ASSUME NoTornWrites, "power" \notin Crashes
    PROVE  Spec => StoredGrows
  <1>1. OneCrashKind
    BY DEF OneCrashKind
  <1>2. IndInv /\ [Next]_vars => IndInv' /\ [Stored \subseteq Stored']_vars
    <2> SUFFICES ASSUME IndInv, [Next]_vars PROVE IndInv' /\ Stored \subseteq Stored'
      OBVIOUS
    <2>1. IndInv' /\ KeepsFrames
      BY <1>1, IndStep
    <2>2. Durable \subseteq Durable'
      BY <2>1, DurableKept DEF IndInv
    <2> QED
      BY <2>1, <2>2, StoredIsDurable, StoredIsDurableNext
  <1> QED
    BY <1>2, InitInv, PTL DEF Spec, StoredGrows
-----------------------------------------------------------------------------
(* The next open *)

\* A listed file has its header, but for an active one that has just been
\* created: a process that died there leaves it to the next `open`.
Headers ==
    /\ \A i \in sealed : HasMagic(i)
    /\ active # NoInode => HasMagic(active) \/ header[active] = "absent"
    /\ active # NoInode /\ header[active] = "absent" => pc \in {"down", "lock", "magic", "header"}

\* Headers only come, and a file is sealed when it has one.
LEMMA HeadersStep ==
    ASSUME "header" \notin Faults, "power" \notin Crashes, DiskInv, Headers, [Next]_vars
    PROVE  Headers'
  <1> USE SegmentAssumptions DEF DiskInv, TypeOK, Layout, Opening, Appending, Rolling, Headers, HasMagic
  <1>1. CASE OpenActive
    BY <1>1 DEF OpenActive, Fresh, disk
  <1>2. CASE LockActive
    BY <1>2 DEF LockActive, disk, names
  <1>3. CASE WriteMagic
    BY <1>3 DEF WriteMagic, Stop, names, Named
  <1>4. CASE SyncMagic
    BY <1>4 DEF SyncMagic, names, Named
  <1>5. CASE Recover
    BY <1>5 DEF Recover, names
  <1>6. CASE RecoverFails
    BY <1>6 DEF RecoverFails, Stop, disk, names
  <1>7. CASE \E o \in Ids : AppendDuplicate(o) \/ AppendBegin(o)
    BY <1>7 DEF AppendDuplicate, AppendBegin, disk, names, writer
  <1>8. CASE SealSync
    BY <1>8 DEF SealSync, Fail, names
  <1>9. CASE SealRename
    BY <1>9 DEF SealRename, Fail, names, disk
  <1>10. CASE CreateReplacement
    BY <1>10 DEF CreateReplacement, Fresh, Fail, disk
  <1>11. CASE WriteReplacementMagic
    BY <1>11 DEF WriteReplacementMagic, Fail, names
  <1>12. CASE InstallReplacement
    BY <1>12 DEF InstallReplacement, Fail, names
  <1>13. CASE WriteFrame \/ SyncFrame
    BY <1>13 DEF WriteFrame, SyncFrame, Fail, names
  <1>14. CASE Kill
    BY <1>14 DEF Kill, Stop, names
  <1>15. CASE UNCHANGED vars
    BY <1>15 DEF vars, disk, names, writer
  <1>16. ~PowerLoss
    BY DEF PowerLoss
  <1> QED
    BY <1>1, <1>2, <1>3, <1>4, <1>5, <1>6, <1>7, <1>8, <1>9, <1>10, <1>11, <1>12,
       <1>13, <1>14, <1>15, <1>16 DEF Next, Open, AppendStep, Rotate

\* Wherever the process is killed, the next `open` finds every listed segment
\* with its header and with nothing behind a tear (segment.rs:60-75).
THEOREM OpenSucceeds ==
    ASSUME NoTornWrites, "power" \notin Crashes, "header" \notin Faults
    PROVE  Spec => []RecoverySucceeds
  <1>1. OneCrashKind
    BY DEF OneCrashKind
  <1>2. Init => Headers
    BY DEF Init, Headers
  <1>3. IndInv /\ Headers /\ [Next]_vars => IndInv' /\ Headers'
    BY <1>1, IndStep, HeadersStep DEF IndInv
  <1>4. IndInv /\ Headers => RecoverySucceeds
    BY DEF IndInv, DiskInv, TypeOK, TearsAtTail, Headers, RecoverySucceeds, Parses, Named
  <1> QED
    BY <1>2, <1>3, <1>4, InitInv, PTL DEF Spec
-----------------------------------------------------------------------------
(* Stored once *)

\* A process that serves remembers every observation it could read back, but
\* for the one it is about to sync; and it appends only what is not there.
Remembers ==
    /\ pc \in {"idle"} \cup Appending =>
          \A i \in Named : \A k \in 1..Len(frames[i]) :
             frames[i][k] \in seen \cup {Torn} \cup (IF pc = "sync" THEN {req} ELSE {})
    /\ pc \in Appending \ {"sync"} => req \notin seen

OnceInv == StoredOnce /\ Remembers

\* A step that only drops frames, or adds tears and empty files.
AddsNothing ==
    \A i \in Named' : \A k \in 1..Len(frames'[i]) :
       \/ frames'[i][k] = Torn
       \/ i \in Named /\ k \in 1..Len(frames[i]) /\ frames'[i][k] = frames[i][k]

\* Such a step stores nothing twice, and leaves nothing new to remember.
LEMMA OnceKept == StoredOnce /\ AddsNothing => StoredOnce'
  <1> SUFFICES ASSUME StoredOnce, AddsNothing, NEW i \in Named', NEW j \in Named',
                      NEW k \in 1..Len(frames'[i]), NEW l \in 1..Len(frames'[j]),
                      frames'[i][k] = frames'[j][l], frames'[i][k] # Torn
               PROVE  i = j /\ k = l
    BY DEF StoredOnce
  <1>1. i \in Named /\ k \in 1..Len(frames[i]) /\ frames'[i][k] = frames[i][k]
    BY DEF AddsNothing
  <1>2. j \in Named /\ l \in 1..Len(frames[j]) /\ frames'[j][l] = frames[j][l]
    BY DEF AddsNothing
  <1>3. frames[i][k] = frames[j][l] /\ frames[i][k] # Torn
    BY <1>1, <1>2
  <1> QED
    BY <1>1, <1>2, <1>3, Zenon DEF StoredOnce

LEMMA RememberedKept ==
    ASSUME Remembers, AddsNothing, pc \in {"idle"} \cup Appending, pc' # "sync", seen' = seen,
           pc = "sync" => pc' \notin {"idle"} \cup Appending,
           pc' \in Appending => req' \notin seen
    PROVE  Remembers'
  BY DEF Remembers, AddsNothing

\* Files stay as they are and the list gains a new one at most.
LEMMA FilesKept ==
    ASSUME TypeOK, frames' = frames, \A i \in Named' \ Named : i \in Inodes /\ frames[i] = <<>>
    PROVE  AddsNothing
  BY DEF AddsNothing

\* What `open` reads is remembered, all but the tears.
LEMMA RecoverRemembers ==
    ASSUME DiskInv, Recover
    PROVE  AddsNothing /\ Remembers'
  <1>1. active \in Inodes /\ Named' = Named /\ seen' = Stored /\ pc' = "idle"
    BY DEF DiskInv, Recover, Layout, Named, Opening, TypeOK, names
  <1>2. PICK n \in 0..Len(frames[active]) : frames' = [frames EXCEPT ![active] = SubSeq(@, 1, n)]
    BY DEF Recover, TruncateActive
  <1>3. /\ \A j \in Inodes \ {active} : frames'[j] = frames[j]
        /\ Len(frames'[active]) = n
        /\ \A k \in 1..n : frames'[active][k] = frames[active][k]
    BY <1>1, <1>2, FileTruncated DEF DiskInv
  <1>4. ASSUME NEW i \in Named, NEW k \in 1..Len(frames'[i])
        PROVE  k \in 1..Len(frames[i]) /\ frames'[i][k] = frames[i][k]
    <2>1. i \in Inodes /\ Len(frames[active]) \in Nat
      BY <1>1 DEF DiskInv, TypeOK, Named
    <2>2. CASE i = active
      BY <1>3, <2>1, <2>2
    <2>3. CASE i # active
      BY <1>3, <2>1, <2>3
    <2> QED
      BY <2>2, <2>3
  <1>5. ASSUME NEW i \in Named, NEW k \in 1..Len(frames[i]), frames[i][k] # Torn
        PROVE  frames[i][k] \in Stored
    <2>1. i \in Inodes /\ Len(frames[i]) \in Nat /\ TornOnlyAtTail(i)
      BY DEF DiskInv, TypeOK, Named, TearsAtTail
    <2>2. Intact(i, k)
      BY <1>5, <2>1 DEF TornOnlyAtTail, Intact
    <2> QED
      BY <2>2 DEF Stored, IdsUpTo
  <1>6. AddsNothing
    BY <1>1, <1>4 DEF AddsNothing
  <1>7. Remembers'
    BY <1>1, <1>4, <1>5 DEF Remembers, Appending, Rolling
  <1> QED
    BY <1>6, <1>7

\* A frame is written for an id that no file holds.
LEMMA WriteOnce ==
    ASSUME DiskInv, NoTornWrites, OnceInv, WriteFrame
    PROVE  OnceInv'
  <1>1. /\ fd \in Named /\ fd \in Inodes /\ req \in Ids /\ Named' = Named
        /\ pc = "write" /\ pc' = "sync" /\ seen' = seen /\ req' = req
        /\ frames' = [frames EXCEPT ![fd] = Append(@, req)]
    BY SegmentAssumptions
       DEF DiskInv, WriteFrame, Layout, Named, TypeOK, names, Appending, Rolling, NoTornWrites
  <1>2. /\ \A j \in Inodes \ {fd} : frames'[j] = frames[j]
        /\ Len(frames'[fd]) = Len(frames[fd]) + 1
        /\ \A k \in 1..Len(frames[fd]) : frames'[fd][k] = frames[fd][k]
        /\ frames'[fd][Len(frames[fd]) + 1] = req
    BY <1>1, FrameWritten DEF DiskInv
  <1>3. Len(frames[fd]) \in Nat
    BY <1>1 DEF DiskInv, TypeOK
  <1>4. ASSUME NEW i \in Named, NEW k \in 1..Len(frames[i])
        PROVE  frames[i][k] \in seen \cup {Torn} /\ frames[i][k] # req
    BY <1>1, SegmentAssumptions DEF OnceInv, Remembers, Appending, Rolling
  <1>5. ASSUME NEW i \in Named, NEW k \in 1..Len(frames'[i])
        PROVE  \/ k \in 1..Len(frames[i]) /\ frames'[i][k] = frames[i][k]
               \/ i = fd /\ k = Len(frames[fd]) + 1 /\ frames'[i][k] = req
    <2>1. i \in Inodes
      BY DEF DiskInv, TypeOK, Named
    <2>2. CASE i = fd
      BY <1>2, <1>3, <2>2
    <2>3. CASE i # fd
      BY <1>2, <2>1, <2>3
    <2> QED
      BY <2>2, <2>3
  <1>6. StoredOnce'
    <2> SUFFICES ASSUME NEW i \in Named, NEW j \in Named,
                        NEW k \in 1..Len(frames'[i]), NEW l \in 1..Len(frames'[j]),
                        frames'[i][k] = frames'[j][l], frames'[i][k] # Torn
                 PROVE  i = j /\ k = l
      BY <1>1 DEF StoredOnce
    <2>1. CASE frames'[i][k] = req
      <3>1. ~(k \in 1..Len(frames[i]) /\ frames'[i][k] = frames[i][k])
        BY <1>4, <2>1
      <3>2. ~(l \in 1..Len(frames[j]) /\ frames'[j][l] = frames[j][l])
        BY <1>4, <2>1
      <3> QED
        BY <1>5, <3>1, <3>2
    <2>2. CASE frames'[i][k] # req
      <3>1. /\ k \in 1..Len(frames[i]) /\ frames'[i][k] = frames[i][k]
            /\ l \in 1..Len(frames[j]) /\ frames'[j][l] = frames[j][l]
        BY <1>5, <2>2
      <3>2. frames[i][k] = frames[j][l] /\ frames[i][k] # Torn
        BY <3>1
      <3> QED
        BY <3>1, <3>2, Zenon DEF OnceInv, StoredOnce
    <2> QED
      BY <2>1, <2>2
  <1>7. Remembers'
    BY <1>1, <1>4, <1>5 DEF Remembers
  <1> QED
    BY <1>6, <1>7 DEF OnceInv

\* A crash leaves prefixes of the files, and tears.
LEMMA CrashAddsNothing ==
    ASSUME DiskInv, Kill \/ PowerLoss
    PROVE  AddsNothing /\ pc' = "down"
  <1>1. Named' = Named /\ pc' = "down"
    BY DEF Kill, PowerLoss, Stop, names, Named
  <1>2. ASSUME NEW i \in Named, NEW k \in 1..Len(frames'[i])
        PROVE  frames'[i][k] = Torn \/ (k \in 1..Len(frames[i]) /\ frames'[i][k] = frames[i][k])
    <2>1. i \in Inodes /\ Len(frames[i]) \in Nat
      BY DEF DiskInv, TypeOK, Named
    <2>2. CASE Kill
      <3>1. CASE frames' = frames
        BY <3>1
      <3>2. CASE frames' # frames
        <4>1. fd \in Inodes /\ frames' = [frames EXCEPT ![fd] = Append(@, Torn)]
          BY <2>2, <3>2 DEF Kill, DiskInv, Layout, TypeOK, Named
        <4>2. /\ \A j \in Inodes \ {fd} : frames'[j] = frames[j]
              /\ Len(frames'[fd]) = Len(frames[fd]) + 1
              /\ \A j \in 1..Len(frames[fd]) : frames'[fd][j] = frames[fd][j]
              /\ frames'[fd][Len(frames[fd]) + 1] = Torn
          BY <4>1, FrameWritten DEF DiskInv
        <4>3. CASE i = fd
          BY <2>1, <4>2, <4>3
        <4>4. CASE i # fd
          BY <2>1, <4>2, <4>4
        <4> QED
          BY <4>3, <4>4
      <3> QED
        BY <3>1, <3>2
    <2>3. CASE PowerLoss
      <3>1. CASE frames'[i] = frames[i]
        BY <3>1
      <3>2. CASE frames'[i] # frames[i]
        <4>1. PICK n \in 0..Len(frames[i]) :
                 /\ \A j \in 1..n : frames'[i][j] = frames[i][j]
                 /\ Len(frames'[i]) = n \/ (Len(frames'[i]) = n + 1 /\ frames'[i][n + 1] = Torn)
          BY <2>1, <2>3, <3>2, PowerLossKeeps DEF DiskInv
        <4> QED
          BY <2>1, <4>1
      <3> QED
        BY <3>1, <3>2
    <2> QED
      BY <2>2, <2>3
  <1> QED
    BY <1>1, <1>2 DEF AddsNothing

LEMMA OnceStep ==
    ASSUME NoTornWrites, "sync" \notin Faults, DiskInv, OnceInv, [Next]_vars
    PROVE  OnceInv'
  <1> USE DEF Opening, Appending, Rolling
  <1>1. CASE OpenActive
    <2>1. AddsNothing
      BY <1>1, FilesKept DEF OpenActive, Fresh, disk, Named, DiskInv, TypeOK
    <2> QED
      BY <1>1, <2>1, OnceKept DEF OpenActive, OnceInv, Remembers
  <1>2. CASE LockActive \/ WriteMagic \/ SyncMagic \/ RecoverFails
    <2>1. /\ frames' = frames /\ Named' = Named
          /\ pc' \notin {"idle"} \cup Appending
      BY <1>2 DEF LockActive, WriteMagic, SyncMagic, RecoverFails, Stop, disk, names, Named
    <2>2. AddsNothing
      BY <2>1, FilesKept DEF DiskInv
    <2> QED
      BY <2>1, <2>2, OnceKept DEF OnceInv, Remembers
  <1>3. CASE Recover
    BY <1>3, RecoverRemembers, OnceKept DEF OnceInv
  <1>4. ASSUME NEW o \in Ids, AppendDuplicate(o) \/ AppendBegin(o) PROVE OnceInv'
    <2>1. /\ frames' = frames /\ Named' = Named /\ seen' = seen
          /\ pc = "idle" /\ pc' \in {"idle", "seal", "write"}
          /\ pc' \in Appending => req' \notin seen
      BY <1>4 DEF AppendDuplicate, AppendBegin, disk, names, writer, Named
    <2>2. AddsNothing
      BY <2>1, FilesKept DEF DiskInv
    <2> QED
      BY <2>1, <2>2, OnceKept, RememberedKept DEF OnceInv
  <1>5. CASE Rotate
    <2>1. /\ frames' = frames /\ seen' = seen
          /\ pc \in Appending \ {"sync"} /\ pc' \in {"idle"} \cup (Appending \ {"sync"})
          /\ pc' \in Appending => req' = req
          /\ \A i \in Named' \ Named : i \in Inodes /\ frames[i] = <<>>
      BY <1>5 DEF Rotate, SealSync, SealRename, CreateReplacement, WriteReplacementMagic,
                  InstallReplacement, Fail, Fresh, disk, names, Named, DiskInv, TypeOK
    <2>2. AddsNothing
      BY <2>1, FilesKept DEF DiskInv
    <2>3. pc' \in Appending => req' \notin seen
      BY <2>1 DEF OnceInv, Remembers
    <2> QED
      BY <2>1, <2>2, <2>3, OnceKept, RememberedKept DEF OnceInv
  <1>6. CASE WriteFrame
    BY <1>6, WriteOnce
  <1>7. CASE SyncFrame
    <2>1. /\ frames' = frames /\ Named' = Named /\ seen' = seen \cup {req}
          /\ pc = "sync" /\ pc' = "idle"
      BY <1>7 DEF SyncFrame, names, Named
    <2>2. AddsNothing
      BY <2>1, FilesKept DEF DiskInv
    <2>3. Remembers'
      BY <2>1 DEF OnceInv, Remembers
    <2> QED
      BY <2>2, <2>3, OnceKept DEF OnceInv
  <1>8. CASE Kill \/ PowerLoss
    BY <1>8, CrashAddsNothing, OnceKept DEF OnceInv, Remembers
  <1>9. CASE UNCHANGED vars
    <2>1. AddsNothing
      BY <1>9, FilesKept DEF vars, disk, names, Named, DiskInv
    <2>2. Remembers'
      BY <1>9 DEF vars, disk, names, writer, Named, OnceInv, Remembers
    <2> QED
      BY <2>1, <2>2, OnceKept DEF OnceInv
  <1> QED
    BY <1>1, <1>2, <1>3, <1>4, <1>5, <1>6, <1>7, <1>8, <1>9 DEF Next, Open, AppendStep

\* No observation is stored twice, whatever is killed or loses its power between
\* a write and its answer and whatever is sent again: a file's last frame is
\* remembered by the next `open`, sealed files included (segment.rs:70-84).
THEOREM StoredAtMostOnce ==
    ASSUME NoTornWrites, OneCrashKind, "sync" \notin Faults
    PROVE  Spec => []StoredOnce
  <1>1. Init => OnceInv
    BY DEF Init, OnceInv, StoredOnce, Remembers, Named, Appending, Rolling
  <1>2. IndInv /\ OnceInv /\ [Next]_vars => IndInv' /\ OnceInv'
    BY IndStep, OnceStep DEF IndInv
  <1>3. OnceInv => StoredOnce
    BY DEF OnceInv
  <1> QED
    BY <1>1, <1>2, <1>3, InitInv, PTL DEF Spec
-----------------------------------------------------------------------------
(* Readers and deletion *)

NoOverlaps == Overlaps = {}

\* A deletion that is past its lock finds the daemon gone, or on a full file
\* that an error in a rotation has left behind, which it does not write.
Serialised ==
    /\ \A r \in Readers : reader[r].pc # "off" => pc \notin Rolling
    /\ del.pc # "off" => pc \notin {"lock"} \cup Rolling
    /\ del.pc = "lock" => del.lock = active
    /\ del.pc \notin {"off", "lock"} => pc = "down" \/ (pc = "idle" /\ fd # active)

\* A reader has a file to scan, and where it is about to cut one there is
\* nothing but a tear.
CutsValid ==
    \A r \in Readers :
        /\ reader[r].pc \in {"scan", "cut"} => reader[r].file \in Inodes
        /\ reader[r].pc = "cut" =>
              /\ pc # "write"
              /\ HasMagic(reader[r].file)
              /\ ValidEnd(reader[r].file, reader[r].end)

\* The frames of i that are not of the session being deleted are in j as well.
Holds(i, j) ==
    \A k \in 1..Len(frames[i]) : frames[i][k] \notin Doomed \cup {Torn} =>
        \E l \in 1..Len(frames[j]) : frames[j][l] = frames[i][k]

\* No frame of i is of the session being deleted.
Clean(i) == \A k \in 1..Len(frames[i]) : frames[i][k] \notin Doomed

\* What is about to replace a file is synced, holds its retained frames and is
\* known to nobody else.
RewriteHolds ==
    del.pc = "replace" =>
        /\ NextFile(del.target)
        /\ del.temp \in Inodes \ (Named \cup {fd})
        /\ HasMagic(del.temp)
        /\ synced[del.temp] = Len(frames[del.temp])
        /\ Intact(del.temp, Len(frames[del.temp]))
        /\ Holds(del.target, del.temp)

\* What was answered, or is answered from `seen`, is durable unless it is of
\* the session being deleted.
Retained == (seen \cup acked) \ Doomed \subseteq Durable

AccessInv ==
    /\ AccessTypeOK /\ DiskInv
    /\ Serialised /\ CutsValid /\ RewriteHolds
    /\ Retained
-----------------------------------------------------------------------------
(* Files that are cut or filled *)

Same(i) ==
    /\ header'[i] = header[i]
    /\ frames'[i] = frames[i]
    /\ synced'[i] = synced[i]

\* The file ends at n, and what follows was a tear.
CutAt(i, n) ==
    /\ ValidEnd(i, n)
    /\ header'[i] = header[i]
    /\ Len(frames'[i]) = n
    /\ \A k \in 1..n : frames'[i][k] = frames[i][k]
    /\ synced'[i] = IF synced[i] > n THEN n ELSE synced[i]

\* A new file is written and synced.
Filled(i) ==
    /\ Fresh(i)
    /\ header'[i] = "synced"
    /\ synced'[i] = Len(frames'[i])
    /\ \A k \in 1..Len(frames'[i]) : frames'[i][k] # Torn

\* What readers and the deleter do to the files before anything is renamed.
Tidy ==
    /\ UNCHANGED <<names, writer, acked>>
    /\ header' \in [Inodes -> {"absent", "torn", "unsynced", "synced"}]
    /\ frames' \in [Inodes -> Seq(Ids \cup {Torn})]
    /\ synced' \in [Inodes -> Nat]
    /\ \A i \in Inodes : Same(i) \/ (\E n \in 0..Len(frames[i]) : CutAt(i, n)) \/ Filled(i)

\* A file has one valid end.
LEMMA OneEnd ==
    ASSUME TypeOK, NEW i \in Inodes, NEW m, NEW n, ValidEnd(i, m), ValidEnd(i, n)
    PROVE  m = n
  <1>1. Len(frames[i]) \in Nat /\ m \in Nat /\ n \in Nat
    BY DEF TypeOK, ValidEnd
  <1>2. ~(m < n)
    BY <1>1 DEF ValidEnd, Intact
  <1>3. ~(n < m)
    BY <1>1 DEF ValidEnd, Intact
  <1> QED
    BY <1>1, <1>2, <1>3

\* What such a step means for one file.
LEMMA TidyFile ==
    ASSUME DiskInv, Tidy, NEW i \in Inodes
    PROVE  /\ TornOnlyAtTail(i)'
           /\ synced'[i] <= Len(frames'[i])
           /\ synced[i] = Len(frames[i]) => synced'[i] = Len(frames'[i])
           /\ Intact(i, Len(frames[i])) /\ ~Fresh(i) => frames'[i] = frames[i] /\ synced'[i] = synced[i]
           /\ frames[i] = <<>> /\ ~Fresh(i) => frames'[i] = <<>>
           /\ ~Fresh(i) => \A k \in 1..synced[i] : Intact(i, k) =>
                 k <= synced'[i] /\ frames'[i][k] = frames[i][k]
           /\ ~Fresh(i) => \A k \in 1..Len(frames[i]) : Intact(i, k) =>
                 k <= Len(frames'[i]) /\ frames'[i][k] = frames[i][k]
           /\ \A n : ~Fresh(i) /\ ValidEnd(i, n) => ValidEnd(i, n)'
           /\ ~Fresh(i) => header'[i] = header[i]
  <1>1. /\ frames[i] \in Seq(Ids \cup {Torn}) /\ Len(frames[i]) \in Nat /\ synced[i] \in Nat
        /\ frames'[i] \in Seq(Ids \cup {Torn}) /\ Len(frames'[i]) \in Nat /\ synced'[i] \in Nat
        /\ synced[i] <= Len(frames[i]) /\ TornOnlyAtTail(i)
    BY DEF DiskInv, TypeOK, Tidy, SyncedPrefix, TearsAtTail
  <1>2. CASE Same(i)
    BY <1>1, <1>2 DEF Same, TornOnlyAtTail, Intact, ValidEnd
  <1>3. ASSUME NEW n \in 0..Len(frames[i]), CutAt(i, n)
        PROVE  /\ TornOnlyAtTail(i)'
               /\ synced'[i] <= Len(frames'[i])
               /\ synced[i] = Len(frames[i]) => synced'[i] = Len(frames'[i])
               /\ Intact(i, Len(frames[i])) => frames'[i] = frames[i] /\ synced'[i] = synced[i]
               /\ frames[i] = <<>> => frames'[i] = <<>>
               /\ \A k \in 1..synced[i] : Intact(i, k) =>
                     k <= synced'[i] /\ frames'[i][k] = frames[i][k]
               /\ \A k \in 1..Len(frames[i]) : Intact(i, k) =>
                     k <= Len(frames'[i]) /\ frames'[i][k] = frames[i][k]
               /\ \A m : ValidEnd(i, m) => ValidEnd(i, m)'
               /\ header'[i] = header[i]
    <2>1. TornOnlyAtTail(i)'
      BY <1>1, <1>3 DEF CutAt, ValidEnd, TornOnlyAtTail, Intact
    <2>2. /\ synced'[i] <= Len(frames'[i])
          /\ synced[i] = Len(frames[i]) => synced'[i] = Len(frames'[i])
      BY <1>1, <1>3 DEF CutAt
    <2>3. \A k \in 1..Len(frames[i]) : Intact(i, k) => k <= n
      BY <1>1, <1>3 DEF CutAt, ValidEnd, Intact
    <2>4. /\ \A k \in 1..Len(frames[i]) : Intact(i, k) =>
                k <= Len(frames'[i]) /\ frames'[i][k] = frames[i][k]
          /\ \A k \in 1..synced[i] : Intact(i, k) =>
                k <= synced'[i] /\ frames'[i][k] = frames[i][k]
      BY <1>1, <1>3, <2>3 DEF CutAt
    <2>5. Intact(i, Len(frames[i])) => frames'[i] = frames[i] /\ synced'[i] = synced[i]
      <3> SUFFICES ASSUME Intact(i, Len(frames[i])) PROVE frames'[i] = frames[i] /\ synced'[i] = synced[i]
        OBVIOUS
      <3>1. ValidEnd(i, Len(frames[i]))
        BY <1>1 DEF ValidEnd
      <3>2. n = Len(frames[i])
        BY <1>3, <3>1, OneEnd DEF CutAt, DiskInv
      <3>3. Len(frames'[i]) = Len(frames[i]) /\ \A k \in 1..Len(frames[i]) : frames'[i][k] = frames[i][k]
        BY <1>3, <3>2 DEF CutAt
      <3>4. frames'[i] = frames[i]
        BY <1>1, <3>3
      <3>5. synced'[i] = synced[i]
        BY <1>1, <1>3, <3>2 DEF CutAt
      <3> QED
        BY <3>4, <3>5
    <2>6. frames[i] = <<>> => frames'[i] = <<>>
      BY <1>1, <1>3 DEF CutAt
    <2>7. ASSUME NEW m, ValidEnd(i, m) PROVE ValidEnd(i, m)'
      <3>1. m = n
        BY <1>3, <2>7, OneEnd DEF CutAt, DiskInv
      <3> QED
        BY <1>1, <1>3, <3>1 DEF CutAt, ValidEnd, Intact
    <2> QED
      BY <2>1, <2>2, <2>4, <2>5, <2>6, <2>7, <1>3 DEF CutAt
  <1>4. CASE Filled(i)
    <2>1. Fresh(i) /\ frames[i] = <<>> /\ synced'[i] = Len(frames'[i])
      BY <1>4 DEF Filled, Fresh
    <2>2. TornOnlyAtTail(i)'
      BY <1>1, <1>4 DEF Filled, TornOnlyAtTail, Intact
    <2> QED
      BY <1>1, <2>1, <2>2
  <1> QED
    BY <1>2, <1>3, <1>4 DEF Tidy

\* A file that is listed or that the daemon holds is not a new one.
LEMMA HeldNotFresh ==
    ASSUME NEW i, i \in Named \cup {fd, replacement}
    PROVE  ~Fresh(i)
  BY DEF Fresh

\* Such a step keeps the invariant of the files and every frame.
LEMMA TidyStep ==
    ASSUME DiskInv, Tidy
    PROVE  DiskInv' /\ KeepsFrames
  <1> USE SegmentAssumptions DEF Opening, Appending, Rolling
  <1>1. Named' = Named /\ UNCHANGED <<active, sealed, fd, replacement, pc, req, seen, acked>>
    BY DEF Tidy, names, writer, Named
  <1>2. TypeOK'
    BY <1>1 DEF Tidy, DiskInv, TypeOK
  <1>3. pc \in {"idle"} \cup Appending => frames'[fd] = frames[fd]
    <2> SUFFICES ASSUME pc \in {"idle"} \cup Appending PROVE frames'[fd] = frames[fd]
      OBVIOUS
    <2>1. fd \in Inodes /\ Intact(fd, Len(frames[fd]))
      BY DEF DiskInv, Layout, TearsAtTail
    <2> QED
      BY <2>1, HeldNotFresh, TidyFile
  <1>4. Layout'
    <2>1. pc \in {"idle"} \cup Rolling => (Full' <=> Full)
      BY <1>1, <1>3 DEF Full
    <2>2. pc \in {"header", "headerSync"} => frames'[active] = <<>>
      <3> SUFFICES ASSUME pc \in {"header", "headerSync"} PROVE frames'[active] = <<>>
        OBVIOUS
      <3>1. active \in Inodes /\ frames[active] = <<>> /\ ~Fresh(active)
        BY HeldNotFresh DEF DiskInv, Layout
      <3> QED
        BY <3>1, TidyFile
    <2> QED
      BY <1>1, <2>1, <2>2 DEF DiskInv, Layout
  <1>5. TearsAtTail'
    <2>1. \A i \in Inodes : TornOnlyAtTail(i)'
      BY TidyFile
    <2>2. pc \in {"idle"} \cup Appending => Intact(fd, Len(frames[fd]))'
      BY <1>1, <1>3 DEF DiskInv, TearsAtTail, Intact
    <2>3. pc = "sync" => (Len(frames[fd]) > 0 /\ frames[fd][Len(frames[fd])] = req)'
      BY <1>1, <1>3 DEF DiskInv, TearsAtTail
    <2> QED
      BY <1>1, <2>1, <2>2, <2>3 DEF TearsAtTail
  <1>6. SyncedPrefix'
    BY <1>1, TidyFile DEF DiskInv, SyncedPrefix
  <1>7. KeepsFrames
    <2> SUFFICES ASSUME NEW i \in Named, NEW k \in 1..DurableLength(i), Intact(i, k)
                 PROVE  k <= DurableLength(i)' /\ frames'[i][k] = frames[i][k]
      BY <1>1 DEF KeepsFrames
    <2>1. i \in Inodes /\ ~Fresh(i)
      BY HeldNotFresh DEF DiskInv, TypeOK, Named
    <2> QED
      BY <2>1, TidyFile DEF DurableLength
  <1> QED
    BY <1>2, <1>4, <1>5, <1>6, <1>7 DEF DiskInv
-----------------------------------------------------------------------------
(* What a rewrite holds *)

\* Every place of a rewrite is taken by one retained frame, so it holds all of
\* them and nothing else.
LEMMA KeptFrames ==
    ASSUME NEW s \in Seq(Ids \cup {Torn})
    PROVE  /\ Kept(s) \in Seq(Ids \cup {Torn})
           /\ \A n \in 1..Len(Kept(s)) : Kept(s)[n] \notin Doomed
           /\ \A n \in 1..Len(Kept(s)) : \E k \in 1..Len(s) : Kept(s)[n] = s[k]
           /\ \A k \in 1..Len(s) : s[k] \notin Doomed =>
                 \E n \in 1..Len(Kept(s)) : Kept(s)[n] = s[k]
  <1> DEFINE K == KeptAt(s)
             N == Cardinality(K)
             place == [k \in K |-> Place(s, k)]
  <1>1. Len(s) \in Nat /\ K \subseteq 1..Len(s)
    BY DEF KeptAt
  <1>2. IsFiniteSet(K) /\ N \in Nat
    <2>1. IsFiniteSet(1..Len(s))
      BY <1>1, FS_Interval
    <2>2. IsFiniteSet(K)
      BY <1>1, <2>1, FS_Subset
    <2> QED
      BY <2>2, FS_CardinalityType
  <1>3. ASSUME NEW k \in K PROVE Place(s, k) \in 1..N
    <2> DEFINE upto == {j \in K : j <= k}
    <2>1. upto \subseteq K /\ k \in upto /\ Place(s, k) = Cardinality(upto)
      BY <1>1 DEF Place
    <2> HIDE DEF upto
    <2>2. IsFiniteSet(upto) /\ Cardinality(upto) <= N
      BY <1>2, <2>1, FS_Subset
    <2>3. Cardinality(upto) \in Nat /\ Cardinality(upto) # 0
      BY <2>1, <2>2, FS_CardinalityType, FS_EmptySet
    <2> QED
      BY <1>2, <2>1, <2>2, <2>3
  <1>4. ASSUME NEW a \in K, NEW b \in K, a < b PROVE Place(s, a) # Place(s, b)
    <2> DEFINE A == {j \in K : j <= a}
               B == {j \in K : j <= b}
    <2>1. A \subseteq B /\ B \subseteq K /\ b \in B /\ b \notin A
      BY <1>1, <1>4
    <2>2. Place(s, a) = Cardinality(A) /\ Place(s, b) = Cardinality(B)
      BY DEF Place
    <2> HIDE DEF A, B
    <2>3. IsFiniteSet(B)
      BY <1>2, <2>1, FS_Subset
    <2> QED
      BY <2>1, <2>2, <2>3, FS_Subset
  <1> HIDE DEF K
  <1>5. \A a, b \in K : Place(s, a) = Place(s, b) => a = b
    BY <1>1, <1>4
  <1>6. place \in Injection(K, 1..N)
    BY <1>3, <1>5 DEF Injection, IsInjective
  <1>7. \A n \in 1..N : \E k \in K : Place(s, k) = n
    <2>1. IsFiniteSet(1..N) /\ Cardinality(1..N) = N
      BY <1>2, FS_Interval
    <2>2. place \in Surjection(K, 1..N)
      <3> HIDE DEF place
      <3> QED
        BY <1>6, <2>1, FS_Injection
    <2> QED
      BY <2>2 DEF Surjection
  <1>8. Kept(s) = [n \in 1..N |-> s[CHOOSE k \in K : Place(s, k) = n]]
    BY DEF Kept, K
  <1>9. ASSUME NEW n \in 1..N PROVE \E k \in K : Kept(s)[n] = s[k]
    BY <1>7, <1>8
  <1>10. Kept(s) \in Seq(Ids \cup {Torn}) /\ Len(Kept(s)) = N
    <2>1. \A k \in K : s[k] \in Ids \cup {Torn}
      BY <1>1
    <2>2. Kept(s) \in [1..N -> Ids \cup {Torn}]
      BY <1>8, <1>9, <2>1
    <2> QED
      BY <1>2, <2>2
  <1>11. ASSUME NEW k \in 1..Len(s), s[k] \notin Doomed
         PROVE  \E n \in 1..N : Kept(s)[n] = s[k]
    <2>1. k \in K
      BY <1>11 DEF K, KeptAt
    <2>2. Place(s, k) \in 1..N
      BY <1>3, <2>1
    <2>3. (CHOOSE j \in K : Place(s, j) = Place(s, k)) = k
      BY <1>5, <2>1
    <2> QED
      BY <1>8, <2>2, <2>3
  <1>12. \A n \in 1..N : \E k \in 1..Len(s) : Kept(s)[n] = s[k]
    BY <1>1, <1>9
  <1>13. \A n \in 1..N : Kept(s)[n] \notin Doomed
    BY <1>9 DEF K, KeptAt
  <1> QED
    BY <1>10, <1>11, <1>12, <1>13
-----------------------------------------------------------------------------
(* The readers *)

\* What speaks only of the files and the daemon.
LEMMA StillDisk ==
    ASSUME DiskInv, Retained, UNCHANGED vars
    PROVE  DiskInv' /\ Retained'
  <1>1. UNCHANGED <<header, frames, synced, active, sealed, fd, replacement, pc, req, seen, acked>>
    BY DEF vars, disk, names, writer
  <1>2. TypeOK'
    BY <1>1 DEF DiskInv, TypeOK
  <1>3. Layout'
    BY <1>1 DEF DiskInv, Layout, Full
  <1>4. TearsAtTail' /\ SyncedPrefix'
    BY <1>1 DEF DiskInv, TearsAtTail, TornOnlyAtTail, Intact, SyncedPrefix
  <1>5. Named' = Named /\ Durable' = Durable
    BY <1>1 DEF Named, Durable, IdsUpTo, Intact, DurableLength
  <1> QED
    BY <1>1, <1>2, <1>3, <1>4, <1>5 DEF DiskInv, Retained

\* What speaks of the deleter as well.
LEMMA StillRewrite ==
    ASSUME RewriteHolds, UNCHANGED <<vars, del>>
    PROVE  RewriteHolds'
  <1>1. UNCHANGED <<header, frames, synced, active, sealed, fd, del>>
    BY DEF vars, disk, names, writer
  <1> QED
    BY <1>1 DEF RewriteHolds, NextFile, Named, HasMagic, Intact, Holds

\* A complete frame that a reader returns is an observation id.
LEMMA ReadAreIds ==
    ASSUME TypeOK, NEW i \in Inodes, NEW n \in 0..Len(frames[i])
    PROVE  IdsUpTo(i, n) \subseteq Ids
  <1> SUFFICES ASSUME NEW k \in 1..n, Intact(i, k) PROVE frames[i][k] \in Ids
    BY DEF IdsUpTo
  <1>1. frames[i] \in Seq(Ids \cup {Torn}) /\ k \in 1..Len(frames[i])
    BY DEF TypeOK
  <1> QED
    BY <1>1 DEF Intact

\* A step of a reader up to its last is one that keeps the invariant.
LEMMA ReaderLooks ==
    ASSUME AccessInv, NoOverlaps, NEW r \in Readers, Read(r), ~ReadCut(r)
    PROVE  AccessInv'
  <1> USE DEF AccessInv
  <1>0. UNCHANGED <<vars, del>>
    BY DEF Read, ReadList, ReadExists, ReadSealed, ReadFails, ReadSealedDone, ReadOpen, ReadScan
  <1>1. DiskInv' /\ RewriteHolds' /\ Retained'
    BY <1>0, StillDisk, StillRewrite
  <1>2. UNCHANGED <<header, frames, active, sealed, pc, fd, del>>
    BY <1>0 DEF vars, disk, names, writer
  <1> DEFINE next == reader'[r]
  <1>3. /\ reader' = [reader EXCEPT ![r] = next]
        /\ next \in Reading
        /\ next.todo \subseteq sealed
        /\ next.pc # "off" => pc \notin Rolling
        /\ next.pc \in {"scan", "cut"} => next.file \in Inodes
        /\ next.pc = "cut" => pc # "write" /\ HasMagic(next.file) /\ ValidEnd(next.file, next.end)
    <2>1. /\ reader \in [Readers -> Reading] /\ reader[r] \in Reading
          /\ reader[r].todo \subseteq sealed
          /\ reader[r].pc # "off" => pc \notin Rolling
          /\ sealed \subseteq Inodes /\ active \in Inodes \cup {NoInode}
          /\ NotReading \in Reading /\ NotReading.todo = {} /\ NotReading.pc = "off"
      BY DEF AccessTypeOK, Serialised, DiskInv, TypeOK, Reading, NotReading
    <2>2. CASE ReadList(r)
      <3>1. next = [NotReading EXCEPT !.pc = "exists", !.todo = sealed, !.begun = Stored]
        BY <2>1, <2>2 DEF ReadList
      <3>2. Stored \subseteq Ids
        BY StoredAreIds DEF DiskInv
      <3>3. pc \notin Rolling
        BY <2>2 DEF ReadList, NoOverlaps, Rotating, Rolling
      <3> QED
        BY <2>1, <2>2, <3>1, <3>2, <3>3 DEF ReadList, NotReading, Reading
    <2>3. CASE ReadExists(r)
      BY <2>1, <2>3 DEF ReadExists, Reading
    <2>4. CASE ReadSealed(r)
      <3>1. PICK i \in reader[r].todo :
               reader' = [reader EXCEPT ![r].todo = @ \ {i},
                                        ![r].got = @ \cup IdsUpTo(i, Len(frames[i]))]
        BY <2>4 DEF ReadSealed
      <3>2. i \in Inodes /\ Len(frames[i]) \in 0..Len(frames[i])
        BY <2>1 DEF DiskInv, TypeOK
      <3>3. IdsUpTo(i, Len(frames[i])) \subseteq Ids
        BY <3>2, ReadAreIds DEF DiskInv
      <3> QED
        BY <2>1, <2>4, <3>1, <3>3 DEF ReadSealed, Reading
    <2>5. CASE ReadFails(r)
      BY <2>1, <2>5 DEF ReadFails
    <2>6. CASE ReadSealedDone(r)
      BY <2>1, <2>6 DEF ReadSealedDone, Reading
    <2>7. CASE ReadOpen(r)
      BY <2>1, <2>7 DEF ReadOpen, Reading
    <2>8. CASE ReadScan(r)
      <3> DEFINE i == reader[r].file
      <3>1. i \in Inodes /\ HasMagic(i) /\ pc # "write"
        BY <2>8 DEF ReadScan, CutsValid, NoOverlaps
      <3>2. PICK n \in 0..Len(frames[i]) :
               /\ ValidEnd(i, n)
               /\ reader' = [reader EXCEPT ![r].pc = "cut", ![r].end = n,
                                           ![r].got = @ \cup IdsUpTo(i, n)]
        BY <2>8 DEF ReadScan
      <3>3. IdsUpTo(i, n) \subseteq Ids /\ n \in Nat
        <4>1. Len(frames[i]) \in Nat
          BY <3>1 DEF DiskInv, TypeOK
        <4> QED
          BY <3>1, <4>1, ReadAreIds DEF DiskInv
      <3> QED
        BY <2>1, <2>8, <3>1, <3>2, <3>3 DEF ReadScan, Reading
    <2> QED
      BY <2>2, <2>3, <2>4, <2>5, <2>6, <2>7, <2>8 DEF Read
  <1> HIDE DEF next
  <1>4. \A q \in Readers : reader'[q] = IF q = r THEN next ELSE reader[q]
    BY <1>3 DEF AccessTypeOK
  <1>5. AccessTypeOK'
    BY <1>1, <1>2, <1>3 DEF AccessTypeOK, DiskInv
  <1>6. Serialised'
    BY <1>2, <1>3, <1>4 DEF Serialised
  <1>7. CutsValid'
    <2> SUFFICES ASSUME NEW q \in Readers
                 PROVE  /\ reader'[q].pc \in {"scan", "cut"} => reader'[q].file \in Inodes
                        /\ reader'[q].pc = "cut" =>
                              /\ pc # "write"
                              /\ HasMagic(reader'[q].file)
                              /\ ValidEnd(reader'[q].file, reader'[q].end)
      BY <1>2 DEF CutsValid, HasMagic, ValidEnd, Intact
    <2> QED
      BY <1>3, <1>4 DEF CutsValid
  <1> QED
    BY <1>1, <1>5, <1>6, <1>7
\* What a reader gives the length it found keeps all that is before a tear.
LEMMA CutIsTidy ==
    ASSUME AccessInv, NEW r \in Readers, ReadCut(r)
    PROVE  Tidy
  <1> DEFINE i == reader[r].file
             n == reader[r].end
             cut == [k \in 1..n |-> IF k <= Len(frames[i]) THEN frames[i][k] ELSE Torn]
  <1>1. TypeOK /\ SyncedPrefix
    BY DEF AccessInv, DiskInv
  <1>2. i \in Inodes /\ ValidEnd(i, n)
    BY DEF AccessInv, CutsValid, ReadCut
  <1>3. /\ frames' = [frames EXCEPT ![i] = cut]
        /\ synced' = [synced EXCEPT ![i] = IF @ > n THEN n ELSE @]
        /\ UNCHANGED <<header, names, writer, acked>>
    BY DEF ReadCut, SetLength
  <1>4. frames[i] \in Seq(Ids \cup {Torn}) /\ Len(frames[i]) \in Nat /\ n \in 0..Len(frames[i])
    BY <1>1, <1>2 DEF TypeOK, ValidEnd
  <1>5. cut \in Seq(Ids \cup {Torn}) /\ Len(cut) = n /\ \A k \in 1..n : cut[k] = frames[i][k]
    <2>1. \A k \in 1..n : k <= Len(frames[i]) /\ frames[i][k] \in Ids \cup {Torn}
      BY <1>4
    <2>2. cut \in [1..n -> Ids \cup {Torn}]
      BY <2>1
    <2> QED
      BY <1>4, <2>1, <2>2
  <1> HIDE DEF cut, i, n
  <1>6. CutAt(i, n)
    BY <1>1, <1>2, <1>3, <1>5 DEF CutAt, TypeOK
  <1>7. \A j \in Inodes \ {i} : Same(j)
    BY <1>1, <1>3 DEF Same, TypeOK
  <1>8. /\ header' \in [Inodes -> {"absent", "torn", "unsynced", "synced"}]
        /\ frames' \in [Inodes -> Seq(Ids \cup {Torn})]
        /\ synced' \in [Inodes -> Nat]
    BY <1>1, <1>2, <1>3, <1>4, <1>5 DEF TypeOK
  <1> QED
    BY <1>3, <1>4, <1>6, <1>7, <1>8 DEF Tidy

\* A file that is known only gets shorter.
LEMMA TidyShortens ==
    ASSUME DiskInv, Tidy, NEW i \in Inodes, ~Fresh(i)
    PROVE  \A k \in 1..Len(frames'[i]) : k \in 1..Len(frames[i]) /\ frames'[i][k] = frames[i][k]
  <1>1. Len(frames[i]) \in Nat /\ Len(frames'[i]) \in Nat
    BY DEF DiskInv, TypeOK, Tidy
  <1>2. CASE Same(i)
    BY <1>2 DEF Same
  <1>3. ASSUME NEW n \in 0..Len(frames[i]), CutAt(i, n)
        PROVE  \A k \in 1..Len(frames'[i]) :
                  k \in 1..Len(frames[i]) /\ frames'[i][k] = frames[i][k]
    BY <1>1, <1>3 DEF CutAt
  <1> QED
    BY <1>2, <1>3 DEF Tidy, Filled

\* Such a step keeps what the others rely on.
LEMMA TidyKeeps ==
    ASSUME AccessInv, Tidy
    PROVE  /\ DiskInv' /\ Retained'
           /\ UNCHANGED del => RewriteHolds'
           /\ (\A q \in Readers : reader'[q].pc \in {"scan", "cut"} => reader'[q] = reader[q])
                 => CutsValid'
  <1> USE DEF AccessInv
  <1>1. DiskInv' /\ Durable \subseteq Durable'
    BY TidyStep, DurableKept
  <1>2. Named' = Named /\ UNCHANGED <<active, sealed, fd, replacement, pc, seen, acked>>
    BY DEF Tidy, names, writer, Named
  <1>3. Retained'
    BY <1>1, <1>2 DEF Retained
  <1>4. ASSUME UNCHANGED del, del.pc = "replace" PROVE RewriteHolds'
    <2> DEFINE i == del.target
               j == del.temp
    <2>1. /\ i \in Inodes /\ j \in Inodes /\ NextFile(i) /\ HasMagic(j)
          /\ ~Fresh(i) /\ ~Fresh(j)
          /\ j \notin Named \cup {fd}
          /\ synced[j] = Len(frames[j]) /\ Intact(j, Len(frames[j]))
          /\ Holds(i, j)
      <3>1. /\ NextFile(i) /\ HasMagic(j) /\ j \in Inodes /\ j \notin Named \cup {fd}
            /\ synced[j] = Len(frames[j]) /\ Intact(j, Len(frames[j]))
            /\ Holds(i, j)
        BY <1>4 DEF RewriteHolds
      <3>2. i \in Inodes /\ i \in Named
        BY <3>1, SegmentAssumptions DEF NextFile, Named, AccessTypeOK
      <3> QED
        BY <3>1, <3>2 DEF HasMagic, Fresh
    <2>2. frames'[j] = frames[j] /\ synced'[j] = synced[j] /\ header'[j] = header[j]
      BY <2>1, TidyFile
    <2>3. \A k \in 1..Len(frames'[i]) : k \in 1..Len(frames[i]) /\ frames'[i][k] = frames[i][k]
      BY <2>1, TidyShortens
    <2>4. Holds(i, j)'
      BY <1>4, <2>1, <2>2, <2>3 DEF Holds
    <2> QED
      BY <1>2, <1>4, <2>1, <2>2, <2>4 DEF RewriteHolds, NextFile, HasMagic, Intact
  <1>5. UNCHANGED del => RewriteHolds'
    BY <1>4 DEF RewriteHolds
  <1>6. ASSUME \A q \in Readers : reader'[q].pc \in {"scan", "cut"} => reader'[q] = reader[q]
        PROVE  CutsValid'
    <2> SUFFICES ASSUME NEW q \in Readers, NEW i, NEW n,
                        i = reader[q].file, n = reader[q].end,
                        reader'[q].pc \in {"scan", "cut"}
                 PROVE  /\ i \in Inodes
                        /\ reader'[q].pc = "cut" => pc' # "write" /\ HasMagic(i)' /\ ValidEnd(i, n)'
      BY <1>6 DEF CutsValid, HasMagic, ValidEnd, Intact
    <2>1. reader'[q] = reader[q] /\ i \in Inodes
      BY <1>6 DEF CutsValid
    <2>2. ASSUME reader[q].pc = "cut" PROVE pc' # "write" /\ HasMagic(i)' /\ ValidEnd(i, n)'
      <3>1. HasMagic(i) /\ ValidEnd(i, n) /\ pc # "write"
        BY <2>2 DEF CutsValid
      <3>2. ~Fresh(i)
        BY <3>1 DEF HasMagic, Fresh
      <3> QED
        BY <1>2, <2>1, <3>1, <3>2, TidyFile DEF HasMagic
    <2> QED
      BY <2>1, <2>2
  <1> QED
    BY <1>1, <1>3, <1>5, <1>6

\* The last step of a reader keeps the invariant.
LEMMA ReaderCuts ==
    ASSUME AccessInv, NEW r \in Readers, ReadCut(r)
    PROVE  AccessInv'
  <1>1. Tidy
    BY CutIsTidy
  <1>2. /\ UNCHANGED del
        /\ reader' = [reader EXCEPT ![r] = NotReading]
        /\ UNCHANGED <<sealed, active, fd, pc>>
    BY DEF ReadCut, names, writer
  <1>3. /\ \A q \in Readers : reader'[q] = IF q = r THEN NotReading ELSE reader[q]
        /\ NotReading \in Reading /\ NotReading.pc = "off" /\ NotReading.todo = {}
    BY <1>2 DEF AccessInv, AccessTypeOK, Reading, NotReading
  <1>4. DiskInv' /\ Retained' /\ RewriteHolds' /\ CutsValid'
    BY <1>1, <1>2, <1>3, TidyKeeps
  <1>5. AccessTypeOK'
    BY <1>2, <1>3, <1>4 DEF AccessInv, AccessTypeOK, DiskInv
  <1>6. Serialised'
    BY <1>2, <1>3 DEF AccessInv, Serialised
  <1> QED
    BY <1>4, <1>5, <1>6 DEF AccessInv
-----------------------------------------------------------------------------
(* The deleter *)

\* With the lock the deleter has the active file to itself.
LEMMA LockExcludes ==
    ASSUME AccessInv, del.pc = "lock", ~WriterLocks(del.lock)
    PROVE  pc = "down" \/ (pc = "idle" /\ fd # active)
  <1> USE DEF AccessInv
  <1>1. pc # "lock" /\ pc \notin Rolling /\ del.lock = active
    BY DEF Serialised
  <1>2. pc \in {"down", "lock", "magic", "magicSync", "recover", "idle", "write", "sync"} \cup Rolling
    BY DEF DiskInv, TypeOK, Rolling
  <1>3. pc # "down" => active # fd
    BY <1>1 DEF WriterLocks
  <1> QED
    BY <1>1, <1>2, <1>3 DEF DiskInv, Layout, Opening

\* Without an active file there is nothing the daemon could be writing.
LEMMA NoActiveExcludes ==
    ASSUME AccessInv, active = NoInode, pc # "lock", pc \notin Rolling
    PROVE  pc = "down" \/ (pc = "idle" /\ fd # active)
  <1>1. pc \in {"down", "lock", "magic", "magicSync", "recover", "idle", "write", "sync"} \cup Rolling
    BY DEF AccessInv, DiskInv, TypeOK, Rolling
  <1> QED
    BY <1>1, SegmentAssumptions DEF AccessInv, DiskInv, Layout, Opening

\* The deleter's steps that touch no file keep the invariant.
LEMMA DeleterLooks ==
    ASSUME AccessInv, NoOverlaps, Delete, ~DeleteRewrite, ~DeleteReplace
    PROVE  AccessInv'
  <1> USE DEF AccessInv
  <1>1. UNCHANGED <<vars, reader>>
    BY DEF Delete, DeleteOpen, DeleteLock, DeleteList, DeleteExists, DeleteFails, DeleteEnd,
           DeleteKilled
  <1>2. UNCHANGED <<header, frames, active, sealed, pc, fd, reader>>
    BY <1>1 DEF vars, disk, names, writer
  <1>3. /\ del' \in Deleting
        /\ del'.todo \subseteq sealed
        /\ del'.pc # "replace"
        /\ del'.pc # "off" => pc \notin {"lock"} \cup Rolling
        /\ del'.pc = "lock" => del'.lock = active
        /\ del'.pc \notin {"off", "lock"} => pc = "down" \/ (pc = "idle" /\ fd # active)
    <2>1. /\ del \in Deleting /\ del.todo \subseteq sealed
          /\ sealed \subseteq Inodes /\ active \in Inodes \cup {NoInode}
          /\ NotDeleting \in Deleting /\ NotDeleting.todo = {} /\ NotDeleting.pc = "off"
      BY DEF AccessTypeOK, DiskInv, TypeOK, Deleting, NotDeleting
    <2>2. /\ del.pc # "off" => pc \notin {"lock"} \cup Rolling
          /\ del.pc \notin {"off", "lock"} => pc = "down" \/ (pc = "idle" /\ fd # active)
      BY DEF Serialised
    <2>3. CASE DeleteOpen
      <3>1. pc # "lock" /\ pc \notin Rolling
        BY <2>3 DEF DeleteOpen, NoOverlaps, Rotating, Rolling
      <3>2. active = NoInode => pc = "down" \/ (pc = "idle" /\ fd # active)
        BY <3>1, NoActiveExcludes
      <3> QED
        BY <2>1, <2>3, <3>1, <3>2 DEF DeleteOpen, NotDeleting, Deleting
    <2>4. CASE DeleteLock
      <3>1. CASE WriterLocks(del.lock)
        BY <2>1, <2>4, <3>1 DEF DeleteLock
      <3>2. CASE ~WriterLocks(del.lock)
        <4>1. pc = "down" \/ (pc = "idle" /\ fd # active)
          BY <2>4, <3>2, LockExcludes DEF DeleteLock
        <4> QED
          BY <2>1, <2>2, <2>4, <3>2, <4>1 DEF DeleteLock, Deleting
      <3> QED
        BY <3>1, <3>2
    <2>5. CASE DeleteList
      BY <2>1, <2>2, <2>5 DEF DeleteList, Deleting
    <2>6. CASE DeleteExists
      BY <2>1, <2>2, <2>6 DEF DeleteExists, Deleting
    <2>7. CASE DeleteFails \/ DeleteEnd \/ DeleteKilled
      BY <2>1, <2>7 DEF DeleteFails, DeleteEnd, DeleteKilled
    <2> QED
      BY <2>3, <2>4, <2>5, <2>6, <2>7 DEF Delete
  <1>4. DiskInv' /\ Retained'
    BY <1>1, StillDisk
  <1>5. RewriteHolds'
    BY <1>3 DEF RewriteHolds
  <1>6. AccessTypeOK'
    BY <1>2, <1>3, <1>4 DEF AccessTypeOK, DiskInv
  <1>7. Serialised'
    BY <1>2, <1>3 DEF Serialised
  <1>8. CutsValid'
    BY <1>2 DEF CutsValid, HasMagic, ValidEnd, Intact
  <1> QED
    BY <1>4, <1>5, <1>6, <1>7, <1>8
\* What is read of a file ends before its tear, if it has one.
LEMMA ReadIsPrefix ==
    ASSUME DiskInv, NEW i \in Inodes, NEW n \in 0..Len(frames[i]), ValidEnd(i, n)
    PROVE  /\ SubSeq(frames[i], 1, n) \in Seq(Ids \cup {Torn})
           /\ Len(SubSeq(frames[i], 1, n)) = n
           /\ \A k \in 1..n : SubSeq(frames[i], 1, n)[k] = frames[i][k] /\ frames[i][k] # Torn
           /\ \A k \in 1..Len(frames[i]) : frames[i][k] # Torn => k \in 1..n
  <1>1. frames[i] \in Seq(Ids \cup {Torn}) /\ TornOnlyAtTail(i)
    BY DEF DiskInv, TypeOK, TearsAtTail
  <1>2. \A k \in 1..n : frames[i][k] # Torn
    BY DEF ValidEnd, Intact
  <1>3. ASSUME NEW k \in 1..Len(frames[i]), frames[i][k] # Torn PROVE k \in 1..n
    <2> SUFFICES ASSUME n < k PROVE FALSE
      BY <1>1
    <2>1. frames[i][n + 1] = Torn /\ n + 1 # k
      BY <1>1, <1>3 DEF ValidEnd
    <2>2. n + 1 \in 1..Len(frames[i]) - 1
      BY <1>1, <2>1
    <2> QED
      BY <1>1, <2>1, <2>2 DEF TornOnlyAtTail, Intact
  <1> QED
    BY <1>1, <1>2, <1>3, PrefixKeeps

\* What a rewrite does to the files, and what it leaves to replace one.
LEMMA RewriteIsTidy ==
    ASSUME AccessInv, DeleteRewrite
    PROVE  /\ Tidy
           /\ \/ \E i \in Inodes : NextFile(i) /\ del' = Done(i) /\ Clean(i)'
              \/ /\ del' = [del EXCEPT !.pc = "replace", !.target = del'.target, !.temp = del'.temp]
                 /\ del'.target \in Inodes /\ del'.temp \in Inodes
                 /\ RewriteHolds' /\ Clean(del.temp)'
  <1> USE DEF AccessInv
  <1>1. PICK i, n :
          /\ i \in Inodes /\ n \in 0..Len(frames[i])
          /\ NextFile(i) /\ HasMagic(i) /\ ValidEnd(i, n)
          /\ LET read == SubSeq(frames[i], 1, n)
                 kept == Kept(read)
                 cut == [frames EXCEPT ![i] = IF i = active THEN read ELSE @] IN
             IF kept = read
             THEN /\ frames' = cut
                  /\ synced' = [synced EXCEPT ![i] = IF @ > Len(cut[i]) THEN Len(cut[i]) ELSE @]
                  /\ del' = Done(i)
                  /\ UNCHANGED header
             ELSE \E j \in Inodes :
                  /\ Fresh(j)
                  /\ frames' = [cut EXCEPT ![j] = kept]
                  /\ synced' = [synced EXCEPT ![i] = IF @ > Len(cut[i]) THEN Len(cut[i]) ELSE @,
                                              ![j] = Len(kept)]
                  /\ header' = [header EXCEPT ![j] = "synced"]
                  /\ del' = [del EXCEPT !.pc = "replace", !.target = i, !.temp = j]
    BY ZenonT(30) DEF DeleteRewrite
  <1> DEFINE read == SubSeq(frames[i], 1, n)
             kept == Kept(read)
             left == IF i = active THEN read ELSE frames[i]
  <1>2. /\ read \in Seq(Ids \cup {Torn}) /\ Len(read) = n
        /\ \A k \in 1..n : read[k] = frames[i][k] /\ frames[i][k] # Torn
        /\ \A k \in 1..Len(frames[i]) : frames[i][k] # Torn => k \in 1..n
    BY <1>1, ReadIsPrefix
  <1>3. /\ kept \in Seq(Ids \cup {Torn})
        /\ \A m \in 1..Len(kept) : kept[m] \notin Doomed
        /\ \A m \in 1..Len(kept) : \E k \in 1..Len(read) : kept[m] = read[k]
        /\ \A k \in 1..Len(read) : read[k] \notin Doomed =>
              \E m \in 1..Len(kept) : kept[m] = read[k]
    BY <1>2, KeptFrames
  <1>4. /\ frames \in [Inodes -> Seq(Ids \cup {Torn})] /\ synced \in [Inodes -> Nat]
        /\ header \in [Inodes -> {"absent", "torn", "unsynced", "synced"}]
        /\ i \in Inodes /\ n \in 0..Len(frames[i])
        /\ synced[i] <= Len(frames[i]) /\ Len(frames[i]) \in Nat
    <2>1. i \in Inodes /\ n \in 0..Len(frames[i])
      BY <1>1, Zenon
    <2> QED
      BY <2>1 DEF DiskInv, TypeOK, SyncedPrefix
  <1>5. UNCHANGED <<names, writer, acked>>
    BY DEF DeleteRewrite
  <1>6. /\ left \in Seq(Ids \cup {Torn})
        /\ i = active => left = read
        /\ i # active => left = frames[i]
    BY <1>2, <1>4
  <1> HIDE DEF read, kept, left
  <1> DEFINE short == IF synced[i] > Len(left) THEN Len(left) ELSE synced[i]
  <1>7. ASSUME frames'[i] = left, synced'[i] = short, header'[i] = header[i]
        PROVE  Same(i) \/ CutAt(i, n)
    <2>1. CASE i = active
      <3>1. CutAt(i, n)
        BY <1>1, <1>2, <1>4, <1>6, <1>7, <2>1 DEF CutAt
      <3> QED
        BY <3>1
    <2>2. CASE i # active
      <3>1. short = synced[i]
        BY <1>4, <1>6, <2>2
      <3> QED
        BY <1>6, <1>7, <2>2, <3>1 DEF Same
    <2> QED
      BY <2>1, <2>2
  <1>8. short \in Nat
    BY <1>4, <1>6
  <1>9. CASE kept = read
    <2>1. /\ frames' = [frames EXCEPT ![i] = left]
          /\ synced' = [synced EXCEPT ![i] = short]
          /\ header' = header
          /\ del' = Done(i)
      BY <1>1, <1>4, <1>9 DEF read, kept, left
    <2> HIDE DEF short
    <2>2. Tidy
      <3>1. \A k \in Inodes \ {i} : Same(k)
        BY <1>4, <2>1 DEF Same
      <3>2. Same(i) \/ CutAt(i, n)
        BY <1>4, <1>7, <2>1
      <3>3. /\ header' \in [Inodes -> {"absent", "torn", "unsynced", "synced"}]
            /\ frames' \in [Inodes -> Seq(Ids \cup {Torn})]
            /\ synced' \in [Inodes -> Nat]
        BY <1>4, <1>6, <1>8, <2>1
      <3> QED
        BY <1>4, <1>5, <3>1, <3>2, <3>3 DEF Tidy
    <2>3. Clean(i)'
      <3> SUFFICES ASSUME NEW k \in 1..Len(left), left[k] # Torn PROVE left[k] \notin Doomed
        BY <1>4, <2>1, SegmentAssumptions, AccessAssumptions DEF Clean
      <3>1. k \in 1..Len(read) /\ read[k] = left[k]
        BY <1>2, <1>6
      <3> QED
        BY <1>3, <1>9, <3>1
    <2> QED
      BY <1>1, <1>4, <2>1, <2>2, <2>3
  <1>10. CASE kept # read
    <2>1. PICK j \in Inodes :
            /\ Fresh(j)
            /\ frames' = [[frames EXCEPT ![i] = left] EXCEPT ![j] = kept]
            /\ synced' = [synced EXCEPT ![i] = short, ![j] = Len(kept)]
            /\ header' = [header EXCEPT ![j] = "synced"]
            /\ del' = [del EXCEPT !.pc = "replace", !.target = i, !.temp = j]
      BY <1>1, <1>4, <1>10 DEF read, kept, left
    <2> HIDE DEF short
    <2>2. i \in Named /\ i # j
      BY <1>1, <2>1, SegmentAssumptions DEF NextFile, Named, AccessTypeOK, Fresh
    <2>3. /\ frames'[i] = left /\ synced'[i] = short /\ header'[i] = header[i]
          /\ frames'[j] = kept /\ synced'[j] = Len(kept) /\ header'[j] = "synced"
          /\ \A k \in Inodes \ {i, j} : Same(k)
      BY <1>4, <2>1, <2>2 DEF Same
    <2>4. \A m \in 1..Len(kept) : kept[m] # Torn
      BY <1>2, <1>3
    <2>5. Filled(j)
      BY <2>1, <2>3, <2>4 DEF Filled
    <2>6. Tidy
      <3>1. /\ header' \in [Inodes -> {"absent", "torn", "unsynced", "synced"}]
            /\ frames' \in [Inodes -> Seq(Ids \cup {Torn})]
            /\ synced' \in [Inodes -> Nat]
        <4>1. Len(kept) \in Nat
          BY <1>3
        <4> QED
          BY <1>3, <1>4, <1>6, <1>8, <2>1, <4>1
      <3>2. Same(i) \/ CutAt(i, n)
        BY <1>7, <2>3
      <3> QED
        BY <1>4, <1>5, <2>3, <2>5, <3>1, <3>2 DEF Tidy
    <2>7. /\ del'.target = i /\ del'.temp = j
          /\ del'.todo = del.todo /\ del'.last = del.last
      BY <2>1 DEF AccessTypeOK, Deleting
    <2>8. RewriteHolds'
      <3>1. NextFile(i)' /\ Named' = Named /\ fd' = fd
        BY <1>1, <1>5, <2>7 DEF NextFile, names, writer, Named
      <3>2. j \in Inodes \ (Named \cup {fd})
        BY <2>1 DEF Fresh
      <3>3. Holds(i, j)'
        <4> SUFFICES ASSUME NEW k \in 1..Len(left), left[k] \notin Doomed \cup {Torn}
                     PROVE  \E l \in 1..Len(kept) : kept[l] = left[k]
          BY <2>3 DEF Holds
        <4>1. k \in 1..Len(read) /\ read[k] = left[k]
          BY <1>2, <1>6
        <4> QED
          BY <1>3, <4>1
      <3>4. HasMagic(j)' /\ synced'[j] = Len(frames'[j]) /\ Intact(j, Len(frames[j]))'
        BY <2>3, <2>4 DEF HasMagic, Intact
      <3> QED
        BY <2>7, <3>1, <3>2, <3>3, <3>4 DEF RewriteHolds, NextFile, HasMagic, Intact, Holds
    <2>9. Clean(del.temp)'
      BY <1>3, <2>3, <2>7 DEF Clean
    <2> QED
      BY <1>4, <2>1, <2>6, <2>7, <2>8, <2>9
  <1> QED
    BY <1>9, <1>10
\* The list only gets shorter.
LEMMA DoneShortens ==
    ASSUME del \in Deleting, NEW i
    PROVE  /\ Done(i) \in Deleting
           /\ Done(i).todo = del.todo \ {i}
           /\ Done(i).last = (i \in del.todo /\ del.last)
           /\ Done(i).pc = del.pc /\ Done(i).lock = del.lock
  <1>1. CASE i \in del.todo
    BY <1>1 DEF Done, Deleting
  <1>2. CASE i \notin del.todo
    BY <1>2 DEF Done, Deleting
  <1> QED
    BY <1>1, <1>2

\* A rewrite keeps the invariant.
LEMMA DeleterRewrites ==
    ASSUME AccessInv, DeleteRewrite
    PROVE  AccessInv'
  <1> USE DEF AccessInv
  <1>1. Tidy
    BY RewriteIsTidy
  <1>2. UNCHANGED <<active, sealed, fd, pc, reader>> /\ del.pc = "rewrite"
    BY DEF DeleteRewrite, names, writer
  <1>3. DiskInv' /\ Retained' /\ CutsValid'
    BY <1>1, <1>2, TidyKeeps
  <1>4. /\ del \in Deleting /\ del.todo \subseteq sealed
        /\ pc = "down" \/ (pc = "idle" /\ fd # active)
    BY <1>2 DEF AccessTypeOK, Serialised
  <1>5. /\ del' \in Deleting /\ del'.todo \subseteq sealed
        /\ del'.pc \in {"rewrite", "replace"}
        /\ RewriteHolds'
    <2>1. ASSUME NEW i \in Inodes, del' = Done(i)
          PROVE  del' \in Deleting /\ del'.todo \subseteq sealed /\ del'.pc = "rewrite"
      BY <1>2, <1>4, <2>1, DoneShortens
    <2>2. ASSUME /\ del' = [del EXCEPT !.pc = "replace", !.target = del'.target, !.temp = del'.temp]
                 /\ del'.target \in Inodes /\ del'.temp \in Inodes
          PROVE  del' \in Deleting /\ del'.todo \subseteq sealed /\ del'.pc = "replace"
      <3> DEFINE t == del'.target
                 j == del'.temp
      <3>1. del' = [del EXCEPT !.pc = "replace", !.target = t, !.temp = j] /\ t \in Inodes /\ j \in Inodes
        BY <2>2
      <3> HIDE DEF t, j
      <3> QED
        BY <1>4, <3>1 DEF Deleting
    <2> QED
      BY <2>1, <2>2, RewriteIsTidy DEF RewriteHolds
  <1>6. AccessTypeOK'
    BY <1>2, <1>3, <1>5 DEF AccessTypeOK, DiskInv
  <1>7. Serialised'
    BY <1>2, <1>4, <1>5 DEF Serialised, Rolling
  <1> QED
    BY <1>3, <1>5, <1>6, <1>7

\* A file that is replaced takes only observations of the deleted session away.
LEMMA ReplaceKeeps ==
    ASSUME DiskInv, UNCHANGED disk, NEW i \in Named, NEW j \in Inodes, j \notin Named,
           Named \ {i} \subseteq Named', j \in Named',
           synced[j] = Len(frames[j]), Intact(j, Len(frames[j])), Holds(i, j)
    PROVE  Durable \ Doomed \subseteq Durable'
  <1> SUFFICES ASSUME NEW x \in Named, NEW k \in 1..DurableLength(x), Intact(x, k),
                      frames[x][k] \notin Doomed
               PROVE  frames[x][k] \in Durable'
    BY DEF Durable, IdsUpTo
  <1>1. frames' = frames /\ synced' = synced
    BY DEF disk
  <1>2. \A y : (IdsUpTo(y, DurableLength(y)))' = IdsUpTo(y, DurableLength(y))
    BY <1>1 DEF IdsUpTo, DurableLength, Intact
  <1>3. x \in Inodes /\ Len(frames[x]) \in Nat /\ Len(frames[j]) \in Nat
    BY DEF DiskInv, TypeOK, Named
  <1>4. CASE x # i
    <2>1. frames[x][k] \in IdsUpTo(x, DurableLength(x)) /\ x \in Named'
      BY <1>4 DEF IdsUpTo
    <2> QED
      BY <1>2, <2>1 DEF Durable
  <1>5. CASE x = i
    <2>1. k \in 1..Len(frames[i]) /\ frames[i][k] # Torn
      BY <1>3, <1>5 DEF DurableLength, DiskInv, SyncedPrefix, TypeOK, Intact
    <2>2. PICK l \in 1..Len(frames[j]) : frames[j][l] = frames[i][k]
      BY <1>5, <2>1 DEF Holds
    <2>3. Intact(j, l) /\ DurableLength(j) = Len(frames[j])
      BY <1>3 DEF Intact, DurableLength
    <2>4. frames[x][k] \in IdsUpTo(j, DurableLength(j))
      BY <1>5, <2>2, <2>3 DEF IdsUpTo
    <2> QED
      BY <1>2, <2>4 DEF Durable
  <1> QED
    BY <1>4, <1>5

\* The renaming of a rewrite keeps the invariant.
LEMMA DeleterReplaces ==
    ASSUME AccessInv, DeleteReplace
    PROVE  AccessInv'
  <1> USE SegmentAssumptions DEF AccessInv
  <1> DEFINE i == del.target
             j == del.temp
  <1>1. /\ del.pc = "replace" /\ NextFile(i) /\ j \in Inodes /\ j \notin Named /\ j # fd
        /\ synced[j] = Len(frames[j]) /\ Intact(j, Len(frames[j])) /\ Holds(i, j)
    BY DEF DeleteReplace, RewriteHolds
  <1>2. /\ header' = header /\ frames' = frames /\ synced' = synced
        /\ UNCHANGED <<fd, replacement, pc, req, seen, acked>>
    BY DEF DeleteReplace, disk, writer
  <1>3. /\ del \in Deleting /\ del.todo \subseteq sealed /\ sealed \subseteq Inodes
        /\ active \in Inodes \cup {NoInode}
        /\ reader \in [Readers -> Reading] /\ \A r \in Readers : reader[r].todo \subseteq sealed
        /\ active \notin sealed
    BY DEF AccessTypeOK, DiskInv, TypeOK, Layout
  <1>4. pc = "down" \/ (pc = "idle" /\ fd # active)
    BY <1>1 DEF Serialised
  <1>5. \/ /\ i \in del.todo /\ i # active
           /\ sealed' = (sealed \ {i}) \cup {j} /\ active' = active
           /\ reader' = [r \in Readers |->
                [reader[r] EXCEPT !.todo = IF i \in @ THEN (@ \ {i}) \cup {j} ELSE @]]
        \/ /\ i \notin del.todo /\ i = active
           /\ sealed' = sealed /\ active' = j /\ reader' = reader
    BY <1>1, <1>3 DEF DeleteReplace, NextFile
  <1>6. /\ i \in Inodes /\ i \in Named
        /\ Named \ {i} \subseteq Named' /\ j \in Named'
    BY <1>1, <1>3, <1>5 DEF NextFile, Named
  <1>7. del' \in Deleting /\ del'.todo = del.todo \ {i} /\ del'.pc = "rewrite"
    <2>1. del' = [Done(i) EXCEPT !.pc = "rewrite", !.target = NoInode, !.temp = NoInode]
      BY DEF DeleteReplace
    <2>2. Done(i) \in Deleting /\ Done(i).todo = del.todo \ {i}
      BY <1>3, DoneShortens
    <2> QED
      BY <2>1, <2>2 DEF Deleting
  <1>8. DiskInv'
    <2>1. TypeOK'
      BY <1>1, <1>2, <1>3, <1>5 DEF DiskInv, TypeOK
    <2>2. Layout'
      <3>1. active' \notin sealed'
        BY <1>1, <1>3, <1>5 DEF Named
      <3>2. pc = "idle" => Full'
        BY <1>2, <1>4 DEF DiskInv, Layout, Full
      <3> QED
        BY <1>2, <1>4, <3>1, <3>2 DEF DiskInv, Layout, Opening, Appending, Rolling
    <2>3. TearsAtTail' /\ SyncedPrefix'
      BY <1>2 DEF DiskInv, TearsAtTail, TornOnlyAtTail, Intact, SyncedPrefix
    <2> QED
      BY <2>1, <2>2, <2>3 DEF DiskInv
  <1>9. Retained'
    <2>1. Durable \ Doomed \subseteq Durable'
      BY <1>1, <1>2, <1>6, ReplaceKeeps DEF disk
    <2> QED
      BY <1>2, <2>1 DEF Retained
  <1> HIDE DEF i, j
  <1>10. \A r \in Readers :
           /\ reader'[r] \in Reading /\ reader'[r].todo \subseteq sealed'
           /\ reader'[r].pc = reader[r].pc /\ reader'[r].file = reader[r].file
           /\ reader'[r].end = reader[r].end
    BY <1>1, <1>3, <1>5 DEF Reading
  <1>11. AccessTypeOK'
    <2>1. reader' \in [Readers -> Reading]
      BY <1>3, <1>5, <1>10
    <2>2. del'.todo \subseteq sealed'
      BY <1>3, <1>5, <1>7
    <2> QED
      BY <1>7, <1>8, <1>10, <2>1, <2>2 DEF AccessTypeOK, DiskInv
  <1>12. Serialised'
    <2>1. fd' # active' \/ pc' = "down"
      BY <1>1, <1>2, <1>4, <1>5
    <2> QED
      BY <1>2, <1>4, <1>7, <1>10, <2>1 DEF Serialised, Rolling
  <1>13. CutsValid'
    BY <1>2, <1>10 DEF CutsValid, HasMagic, ValidEnd, Intact
  <1>14. RewriteHolds'
    BY <1>7 DEF RewriteHolds
  <1> QED
    BY <1>8, <1>9, <1>11, <1>12, <1>13, <1>14
-----------------------------------------------------------------------------
(* The daemon *)

\* The daemon takes no other step than the store, and removes no sealed file.
LEMMA WriterIsStore ==
    ASSUME Writer
    PROVE  Next /\ sealed \subseteq sealed'
  <1>1. Next
    BY DEF Writer, WriterOpens, WriterLocksActive, WriterRecovers, WriterBegins, Next, Open
  <1>2. CASE SealRename
    BY <1>1, <1>2 DEF SealRename, names
  <1>3. CASE ~SealRename
    BY <1>1, <1>3 DEF Writer, WriterOpens, WriterLocksActive, WriterRecovers, WriterBegins,
           AppendStep, Rotate, OpenActive, LockActive, WriteMagic, SyncMagic, Recover,
           RecoverFails, AppendDuplicate, AppendBegin, SealSync, CreateReplacement,
           WriteReplacementMagic, InstallReplacement, WriteFrame, SyncFrame, Kill, names
  <1> QED
    BY <1>1, <1>2, <1>3

\* Where a step of the daemon leads, and what it needs of the others.
LEMMA WriterMoves ==
    ASSUME Writer, NoOverlaps
    PROVE  /\ pc' = "lock" => del.pc = "off"
           /\ pc' \in Rolling => \/ pc \in Rolling
                                 \/ del.pc = "off" /\ \A r \in Readers : reader[r].pc = "off"
           /\ pc' = "write" => pc \in Rolling \/ \A r \in Readers : reader[r].pc # "cut"
           /\ active' # active => pc \in Rolling \/ del.pc = "off"
  <1>1. CASE WriterOpens
    BY <1>1 DEF WriterOpens, OpenActive, NoOverlaps, Rolling
  <1>2. CASE WriterLocksActive
    BY <1>2 DEF WriterLocksActive, LockActive, names, Rolling
  <1>3. CASE WriterRecovers
    BY <1>3 DEF WriterRecovers, WriteMagic, SyncMagic, Recover, RecoverFails, Stop, names, Rolling
  <1>4. ASSUME NEW o \in Ids, AppendDuplicate(o)
        PROVE  pc' = pc /\ pc = "idle" /\ active' = active
    BY <1>4 DEF AppendDuplicate, writer, names
  <1>5. ASSUME NEW o \in Ids, WriterBegins(o)
        PROVE  /\ active' = active
               /\ pc' = "seal" => del.pc = "off" /\ \A r \in Readers : reader[r].pc = "off"
               /\ \A r \in Readers : reader[r].pc # "cut"
               /\ pc' \in {"seal", "write"}
    BY <1>5 DEF WriterBegins, AppendBegin, NoOverlaps, names
  <1>6. CASE AppendStep
    BY <1>6 DEF AppendStep, Rotate, SealSync, SealRename, CreateReplacement,
           WriteReplacementMagic, InstallReplacement, WriteFrame, SyncFrame, Fail, names, Rolling
  <1>7. CASE Kill
    BY <1>7 DEF Kill, Stop, names, Rolling
  <1> QED
    BY <1>1, <1>2, <1>3, <1>4, <1>5, <1>6, <1>7 DEF Writer, Rolling

\* Past the deleter's lock the daemon answers from memory or stops.
LEMMA WriterStill ==
    ASSUME AccessInv, NoOverlaps, Writer, del.pc \notin {"off", "lock"}
    PROVE  /\ UNCHANGED <<header, frames, synced, active, sealed>>
           /\ (pc' = pc /\ fd' = fd) \/ (pc' = "down" /\ fd' = NoInode)
  <1>1. pc = "down" \/ (pc = "idle" /\ fd # active)
    BY DEF AccessInv, Serialised
  <1>2. ~WriterOpens
    BY DEF WriterOpens, NoOverlaps
  <1>3. \A o \in Ids : ~WriterBegins(o)
    BY <1>1 DEF WriterBegins, AppendBegin, NoOverlaps, AccessInv, DiskInv, Layout
  <1>4. (\E o \in Ids : AppendDuplicate(o)) \/ Kill
    BY <1>1, <1>2, <1>3
       DEF Writer, WriterLocksActive, WriterRecovers, LockActive, WriteMagic, SyncMagic,
           Recover, RecoverFails, AppendStep, Rotate, SealSync, SealRename,
           CreateReplacement, WriteReplacementMagic, InstallReplacement, WriteFrame, SyncFrame
  <1> QED
    BY <1>1, <1>4 DEF AppendDuplicate, Kill, Stop, disk, names, writer

\* While a reader is about to cut a file the daemon writes no frame.
LEMMA WriterSpares ==
    ASSUME AccessInv, Writer, pc \notin Rolling, pc # "write", NEW i \in Inodes, NEW n
    PROVE  /\ HasMagic(i) => HasMagic(i)'
           /\ ValidEnd(i, n) => ValidEnd(i, n)'
  <1> USE DEF Rolling
  <1>1. TypeOK
    BY DEF AccessInv, DiskInv
  <1>2. HasMagic(i) => HasMagic(i)'
    <2>1. CASE WriteMagic \/ SyncMagic
      BY <1>1, <2>1 DEF WriteMagic, SyncMagic, HasMagic, TypeOK
    <2>2. CASE ~WriteMagic /\ ~SyncMagic
      <3>1. header' = header
        BY <2>2 DEF Writer, WriterOpens, WriterLocksActive, WriterRecovers, WriterBegins,
             AppendStep, Rotate, OpenActive, LockActive, Recover, RecoverFails, AppendDuplicate,
             AppendBegin, SealSync, SealRename, CreateReplacement, WriteReplacementMagic,
             InstallReplacement, WriteFrame, SyncFrame, Kill, disk
      <3> QED
        BY <3>1 DEF HasMagic
    <2> QED
      BY <2>1, <2>2
  <1>3. ValidEnd(i, n) => ValidEnd(i, n)'
    <2>1. CASE Recover
      <3>1. active \in Inodes
        BY <2>1 DEF Recover, AccessInv, DiskInv, TypeOK, Layout, Opening
      <3>2. PICK m \in 0..Len(frames[active]) :
               /\ ValidEnd(active, m)
               /\ frames' = [frames EXCEPT ![active] = SubSeq(@, 1, m)]
        BY <2>1 DEF Recover, TruncateActive
      <3>3. /\ frames' \in [Inodes -> Seq(Ids \cup {Torn})]
            /\ \A j \in Inodes \ {active} : frames'[j] = frames[j]
            /\ Len(frames'[active]) = m
            /\ \A k \in 1..m : frames'[active][k] = frames[active][k]
        BY <1>1, <3>1, <3>2, FileTruncated
      <3>4. CASE i = active
        <4> SUFFICES ASSUME ValidEnd(i, n) PROVE ValidEnd(i, n)'
          OBVIOUS
        <4>1. n = m
          BY <1>1, <3>1, <3>2, <3>4, OneEnd
        <4>2. \A k \in 1..m : frames[active][k] # Torn
          BY <3>2 DEF ValidEnd, Intact
        <4>3. m \in 0..m
          BY <1>1, <3>1 DEF TypeOK
        <4> QED
          BY <3>3, <3>4, <4>1, <4>2, <4>3 DEF ValidEnd, Intact
      <3>5. CASE i # active
        BY <3>3, <3>5 DEF ValidEnd, Intact
      <3> QED
        BY <3>4, <3>5
    <2>2. CASE ~Recover
      <3>1. frames' = frames
        BY <2>2 DEF Writer, WriterOpens, WriterLocksActive, WriterRecovers, WriterBegins,
             AppendStep, Rotate, OpenActive, LockActive, WriteMagic, SyncMagic, RecoverFails,
             AppendDuplicate, AppendBegin, SealSync, SealRename, CreateReplacement,
             WriteReplacementMagic, InstallReplacement, WriteFrame, SyncFrame, Kill, disk
      <3> QED
        BY <3>1 DEF ValidEnd, Intact
    <2> QED
      BY <2>1, <2>2
  <1> QED
    BY <1>2, <1>3

\* What is answered is durable, whoever else is at work.
LEMMA StoreRetains ==
    ASSUME DiskInv, Retained, NoTornWrites, OneCrashKind, Next
    PROVE  DiskInv' /\ Retained'
  <1>1. DiskInv' /\ KeepsFrames
    BY DiskStep, FramesStep
  <1>2. Durable \subseteq Durable'
    BY <1>1, DurableKept
  <1>3. seen' \subseteq seen \cup Durable' /\ acked' \subseteq acked \cup seen \cup Durable'
    BY AnswersDurable
  <1> QED
    BY <1>1, <1>2, <1>3 DEF Retained

\* A step of the daemon keeps the invariant.
LEMMA WriterSteps ==
    ASSUME AccessInv, NoOverlaps, NoTornWrites, OneCrashKind, Writer, UNCHANGED access
    PROVE  AccessInv'
  <1> USE DEF AccessInv
  <1>1. reader' = reader /\ del' = del /\ sealed \subseteq sealed'
    BY WriterIsStore DEF access
  <1>2. DiskInv' /\ Retained'
    BY WriterIsStore, StoreRetains
  <1>3. AccessTypeOK'
    BY <1>1, <1>2 DEF AccessTypeOK, DiskInv
  <1>4. Serialised'
    <2>1. /\ \A r \in Readers : reader[r].pc # "off" => pc' \notin Rolling
          /\ del.pc # "off" => pc' \notin {"lock"} \cup Rolling
          /\ del.pc = "lock" => del.lock = active'
      BY WriterMoves DEF Serialised
    <2>2. del.pc \notin {"off", "lock"} => pc' = "down" \/ (pc' = "idle" /\ fd' # active')
      BY WriterStill DEF Serialised
    <2> QED
      BY <1>1, <2>1, <2>2 DEF Serialised
  <1>5. CutsValid'
    <2> SUFFICES ASSUME NEW r \in Readers, NEW i, NEW n, i = reader[r].file, n = reader[r].end,
                        reader[r].pc = "cut"
                 PROVE  pc' # "write" /\ HasMagic(i)' /\ ValidEnd(i, n)'
      BY <1>1 DEF CutsValid, HasMagic, ValidEnd, Intact
    <2>1. pc \notin Rolling /\ pc # "write" /\ i \in Inodes /\ HasMagic(i) /\ ValidEnd(i, n)
      BY DEF CutsValid, Serialised
    <2> QED
      BY <2>1, WriterMoves, WriterSpares
  <1>6. RewriteHolds'
    <2> SUFFICES ASSUME del.pc = "replace" PROVE RewriteHolds'
      BY <1>1 DEF RewriteHolds
    <2>1. UNCHANGED <<header, frames, synced, active, sealed>> /\ fd' \in {fd, NoInode}
      BY WriterStill
    <2> QED
      BY <1>1, <2>1, SegmentAssumptions
         DEF RewriteHolds, NextFile, Named, HasMagic, Intact, Holds
  <1> QED
    BY <1>2, <1>3, <1>4, <1>5, <1>6

\* After a power loss nobody else is at work.
LEMMA OutageSteps ==
    ASSUME AccessInv, NoTornWrites, OneCrashKind, Outage
    PROVE  AccessInv'
  <1> USE DEF AccessInv
  <1>1. /\ \A r \in Readers : reader'[r] = NotReading
        /\ del' = NotDeleting
        /\ NotReading \in Reading /\ NotReading.pc = "off" /\ NotReading.todo = {}
        /\ NotDeleting \in Deleting /\ NotDeleting.pc = "off" /\ NotDeleting.todo = {}
    BY DEF Outage, Reading, NotReading, Deleting, NotDeleting
  <1>2. DiskInv' /\ Retained'
    BY StoreRetains DEF Outage, Next
  <1>3. AccessTypeOK'
    BY <1>1, <1>2 DEF AccessTypeOK, DiskInv, Outage
  <1>4. Serialised' /\ CutsValid' /\ RewriteHolds'
    BY <1>1 DEF Serialised, CutsValid, RewriteHolds
  <1> QED
    BY <1>2, <1>3, <1>4
-----------------------------------------------------------------------------
(* The theorems *)

\* The invariant holds at the start, when nobody is at work.
LEMMA AccessInitially == AccessInit => AccessInv
  <1> SUFFICES ASSUME AccessInit PROVE AccessInv
    OBVIOUS
  <1>1. DiskInv /\ seen = {} /\ acked = {} /\ sealed = {}
    BY InitInv DEF AccessInit, IndInv, Init
  <1>2. /\ \A r \in Readers : reader[r] = NotReading
        /\ del = NotDeleting
        /\ NotReading \in Reading /\ NotReading.pc = "off" /\ NotReading.todo = {}
        /\ NotDeleting \in Deleting /\ NotDeleting.pc = "off" /\ NotDeleting.todo = {}
    BY DEF AccessInit, Reading, NotReading, Deleting, NotDeleting
  <1>3. AccessTypeOK
    BY <1>1, <1>2 DEF AccessTypeOK, DiskInv, AccessInit
  <1> QED
    BY <1>1, <1>2, <1>3 DEF AccessInv, Serialised, CutsValid, RewriteHolds, Retained

\* Every party keeps the invariant.
LEMMA AccessStep ==
    ASSUME NoOverlaps, NoTornWrites, OneCrashKind
    PROVE  AccessInv /\ [AccessNext]_<<vars, access>> => AccessInv'
  <1> SUFFICES ASSUME AccessInv, [AccessNext]_<<vars, access>> PROVE AccessInv'
    OBVIOUS
  <1>1. CASE Writer /\ UNCHANGED access
    BY <1>1, WriterSteps
  <1>2. CASE Outage
    BY <1>2, OutageSteps
  <1>3. ASSUME NEW r \in Readers, Read(r) PROVE AccessInv'
    BY <1>3, ReaderLooks, ReaderCuts
  <1>4. CASE Delete
    BY <1>4, DeleterLooks, DeleterRewrites, DeleterReplaces
  <1>5. CASE UNCHANGED <<vars, access>>
    <2>1. UNCHANGED vars /\ reader' = reader /\ del' = del
      BY <1>5 DEF access
    <2>2. UNCHANGED <<header, frames, sealed, active, fd, pc>>
      BY <2>1 DEF vars, disk, names, writer
    <2>3. DiskInv' /\ Retained' /\ RewriteHolds'
      BY <2>1, StillDisk, StillRewrite DEF AccessInv
    <2>4. AccessTypeOK'
      BY <2>1, <2>2, <2>3 DEF AccessInv, AccessTypeOK, DiskInv
    <2>5. Serialised' /\ CutsValid'
      BY <2>1, <2>2 DEF AccessInv, Serialised, CutsValid, HasMagic, ValidEnd, Intact
    <2> QED
      BY <2>3, <2>4, <2>5 DEF AccessInv
  <1> QED
    BY <1>1, <1>2, <1>3, <1>4, <1>5 DEF AccessNext

\* While nothing overlaps that may lose observations, the lists of names that
\* readers and the deleter keep always lead to files (AccessTypeOK).
THEOREM ListsLead ==
    ASSUME NoOverlaps, NoTornWrites, OneCrashKind
    PROVE  AccessSpec => []AccessTypeOK
  <1>1. AccessInv => AccessTypeOK
    BY DEF AccessInv
  <1> QED
    BY <1>1, AccessInitially, AccessStep, PTL DEF AccessSpec

\* No deletion, read or restart takes an acknowledged observation of another
\* session away, for any number of observations, files and readers: what makes
\* it so is that the deleter holds the lock of the active file, or finds none
\* (deletion.rs:59, segment.rs:148-156).
THEOREM OthersKept ==
    ASSUME NoOverlaps, NoTornWrites, OneCrashKind
    PROVE  AccessSpec => []OthersRetained
  <1>1. AccessInv => OthersRetained
    BY DEF AccessInv, Retained, OthersRetained
  <1> QED
    BY <1>1, AccessInitially, AccessStep, PTL DEF AccessSpec
-----------------------------------------------------------------------------
(* A deletion leaves nothing behind *)

\* Every listed file is still to be looked at or has nothing to delete.
Cleaned ==
    /\ del.pc = "exists" => sealed \subseteq del.todo
    /\ del.pc \in {"rewrite", "replace"} =>
          \A i \in Named : i \in del.todo \/ (i = active /\ del.last) \/ Clean(i)
    /\ del.pc = "replace" => Clean(del.temp)

\* A reader that cuts a file adds nothing to it.
LEMMA ReadersAddNothing ==
    ASSUME AccessInv, Cleaned, NEW r \in Readers, Read(r)
    PROVE  Cleaned'
  <1> USE DEF AccessInv
  <1>1. CASE ReadCut(r)
    <2>1. Tidy /\ UNCHANGED <<del, active, sealed>> /\ Named' = Named
      BY <1>1, CutIsTidy DEF ReadCut, names, Named
    <2>2. ASSUME NEW i \in Inodes, ~Fresh(i), Clean(i) PROVE Clean(i)'
      BY <2>1, <2>2, TidyShortens DEF Clean
    <2>3. \A i \in Named : i \in Inodes /\ ~Fresh(i)
      BY DEF AccessTypeOK, TypeOK, Named, Fresh
    <2>4. del.pc = "replace" => del.temp \in Inodes /\ ~Fresh(del.temp)
      BY DEF RewriteHolds, HasMagic, Fresh
    <2>5. del.pc = "replace" => Clean(del.temp)'
      <3> SUFFICES ASSUME NEW j, j = del.temp, del.pc = "replace" PROVE Clean(j)'
        BY <2>1 DEF Clean
      <3> QED
        BY <2>2, <2>4 DEF Cleaned
    <2> QED
      BY <2>1, <2>2, <2>3, <2>5 DEF Cleaned
  <1>2. CASE ~ReadCut(r)
    <2>1. UNCHANGED <<frames, active, sealed, del>>
      BY <1>2 DEF Read, ReadList, ReadExists, ReadSealed, ReadFails, ReadSealedDone, ReadOpen,
           ReadScan, vars, disk, names
    <2> QED
      BY <2>1 DEF Cleaned, Named, Clean
  <1> QED
    BY <1>1, <1>2

\* The deleter goes through the whole list.
LEMMA DeleterCleans ==
    ASSUME AccessInv, Cleaned, Delete
    PROVE  Cleaned'
  <1> USE DEF AccessInv
  <1>1. del \in Deleting /\ NotDeleting.pc = "off"
    BY DEF AccessTypeOK, NotDeleting
  <1>2. CASE DeleteOpen \/ DeleteLock \/ DeleteFails \/ DeleteEnd \/ DeleteKilled
    <2>1. del'.pc \in {"off", "lock", "list"}
      BY <1>1, <1>2 DEF DeleteOpen, DeleteLock, DeleteFails, DeleteEnd, DeleteKilled,
           NotDeleting, Deleting
    <2> QED
      BY <2>1 DEF Cleaned
  <1>3. CASE DeleteList
    <2>1. del'.pc = "exists" /\ del'.todo = sealed /\ sealed' = sealed
      BY <1>1, <1>3 DEF DeleteList, Deleting, vars, names
    <2> QED
      BY <2>1 DEF Cleaned
  <1>4. CASE DeleteExists
    <2>1. /\ del'.pc = "rewrite" /\ del'.todo = del.todo /\ del'.last = (active # NoInode)
          /\ UNCHANGED <<active, sealed>> /\ Named' = Named
          /\ del.pc = "exists"
      BY <1>1, <1>4 DEF DeleteExists, Deleting, vars, names, Named
    <2> QED
      BY <2>1 DEF Cleaned, Named
  <1>5. CASE DeleteRewrite
    <2>1. Tidy /\ UNCHANGED <<active, sealed>> /\ Named' = Named /\ del.pc = "rewrite"
      BY <1>5, RewriteIsTidy DEF DeleteRewrite, names, Named
    <2>2. \A x \in Named : Clean(x) => Clean(x)'
      <3> SUFFICES ASSUME NEW x \in Named, Clean(x) PROVE Clean(x)'
        OBVIOUS
      <3>1. x \in Inodes /\ ~Fresh(x)
        BY DEF AccessTypeOK, TypeOK, Named, Fresh
      <3> QED
        BY <2>1, <3>1, TidyShortens DEF Clean
    <2>3. ASSUME NEW i \in Inodes, NextFile(i), del' = Done(i), Clean(i)' PROVE Cleaned'
      <3>1. del'.todo = del.todo \ {i} /\ del'.last = (i \in del.todo /\ del.last) /\ del'.pc = "rewrite"
        BY <1>1, <2>1, <2>3, DoneShortens
      <3> QED
        BY <2>1, <2>2, <2>3, <3>1 DEF Cleaned, NextFile
    <2>4. ASSUME NEW t, NEW j, del' = [del EXCEPT !.pc = "replace", !.target = t, !.temp = j],
                 Clean(del.temp)'
          PROVE  Cleaned'
      <3>1. del'.todo = del.todo /\ del'.last = del.last /\ del'.pc = "replace"
        BY <1>1, <2>4 DEF Deleting
      <3> QED
        BY <2>1, <2>2, <2>4, <3>1 DEF Cleaned
    <2> QED
      BY <1>5, <2>3, <2>4, RewriteIsTidy
  <1>6. CASE DeleteReplace
    <2>0. PICK i, j : i = del.target /\ j = del.temp
      OBVIOUS
    <2>1. del.pc = "replace" /\ NextFile(i) /\ j \in Inodes /\ j \notin Named /\ frames' = frames
      BY <1>6, <2>0 DEF DeleteReplace, RewriteHolds, disk
    <2>2. /\ del'.todo = del.todo \ {i} /\ del'.last = (i \in del.todo /\ del.last)
          /\ del'.pc = "rewrite"
      <3>1. del' = [Done(i) EXCEPT !.pc = "rewrite", !.target = NoInode, !.temp = NoInode]
        BY <1>6, <2>0 DEF DeleteReplace
      <3> QED
        BY <1>1, <3>1, DoneShortens DEF Deleting
    <2>3. \/ i \in del.todo /\ sealed' = (sealed \ {i}) \cup {j} /\ active' = active
          \/ i \notin del.todo /\ i = active /\ sealed' = sealed /\ active' = j
      BY <1>6, <2>0, <2>1 DEF DeleteReplace, NextFile
    <2>4. i \in del.todo => i # active
      BY DEF AccessTypeOK, DiskInv, Layout
    <2>5. i = active => i \notin sealed
      BY DEF DiskInv, Layout
    <2>6. ASSUME NEW x \in Named', x # j
          PROVE  x \in Named /\ x # i /\ (x = active => active' = active)
      BY <2>3, <2>4, <2>5, <2>6 DEF Named
    <2>7. Clean(j)' /\ \A x \in Named : Clean(x) => Clean(x)'
      BY <2>0, <2>1 DEF Cleaned, Clean
    <2>8. \A x \in Named' : x \in del'.todo \/ (x = active' /\ del'.last) \/ Clean(x)'
      <3> SUFFICES ASSUME NEW x \in Named', x # j
                   PROVE  x \in del'.todo \/ (x = active' /\ del'.last) \/ Clean(x)'
        BY <2>7
      <3>1. x \in Named /\ x # i /\ (x = active => active' = active)
        BY <2>6
      <3>2. x \in del.todo \/ (x = active /\ del.last) \/ Clean(x)
        BY <2>1, <3>1 DEF Cleaned
      <3>3. ASSUME x = active, del.last PROVE i \in del.todo
        BY <2>3, <3>1, <3>3
      <3> QED
        BY <2>2, <2>7, <3>1, <3>2, <3>3
    <2> QED
      BY <2>2, <2>8 DEF Cleaned
  <1> QED
    BY <1>2, <1>3, <1>4, <1>5, <1>6 DEF Delete

\* Nobody else disturbs a deletion.
LEMMA CleanedStep ==
    ASSUME NoOverlaps, AccessInv, Cleaned, [AccessNext]_<<vars, access>>
    PROVE  Cleaned'
  <1>1. CASE Writer /\ UNCHANGED access
    <2>1. del' = del
      BY <1>1 DEF access
    <2>2. del.pc \notin {"off", "lock"} => UNCHANGED <<frames, active, sealed>>
      BY <1>1, WriterStill
    <2> QED
      BY <2>1, <2>2 DEF Cleaned, Named, Clean
  <1>2. CASE Outage
    <2>1. del'.pc = "off"
      BY <1>2 DEF Outage, NotDeleting
    <2> QED
      BY <2>1 DEF Cleaned
  <1>3. ASSUME NEW r \in Readers, Read(r) PROVE Cleaned'
    BY <1>3, ReadersAddNothing
  <1>4. CASE Delete
    BY <1>4, DeleterCleans
  <1>5. CASE UNCHANGED <<vars, access>>
    <2>1. UNCHANGED <<frames, active, sealed, del>>
      BY <1>5 DEF access, vars, disk, names
    <2> QED
      BY <2>1 DEF Cleaned, Named, Clean
  <1> QED
    BY <1>1, <1>2, <1>3, <1>4, <1>5 DEF AccessNext

\* A deletion that reports success has removed its session from every listed
\* file (segment.rs:144-181).
THEOREM DeletionRemoves ==
    ASSUME NoOverlaps, NoTornWrites, OneCrashKind
    PROVE  AccessSpec => DeletionComplete
  <1>1. AccessInit => Cleaned
    <2>1. AccessInit => del.pc = "off"
      BY DEF AccessInit, NotDeleting
    <2> QED
      BY <2>1 DEF Cleaned
  <1>2. AccessInv /\ Cleaned /\ [AccessNext]_<<vars, access>> => Cleaned'
    BY CleanedStep
  <1>3. AccessInv /\ Cleaned => [DeleteEnd => Stored' \cap Doomed = {}]_<<vars, access>>
    <2> SUFFICES ASSUME AccessInv, Cleaned, DeleteEnd PROVE Stored' \cap Doomed = {}
      OBVIOUS
    <2>1. \A i \in Named : Clean(i)
      BY DEF DeleteEnd, Cleaned
    <2>2. UNCHANGED <<frames, active, sealed>> /\ Named' = Named
      BY DEF DeleteEnd, vars, disk, names, Named
    <2>3. Stored' = Stored
      BY <2>2 DEF Stored, IdsUpTo, Intact
    <2>4. \A i \in Named : IdsUpTo(i, Len(frames[i])) \cap Doomed = {}
      BY <2>1 DEF IdsUpTo, Clean
    <2> QED
      BY <2>3, <2>4 DEF Stored
  <1> QED
    BY <1>1, <1>2, <1>3, AccessInitially, AccessStep, PTL DEF AccessSpec, DeletionComplete
-----------------------------------------------------------------------------
(* A reader misses nothing *)

Complete(i) == IdsUpTo(i, Len(frames[i]))

\* The files that a reader where rd is still has before it.
ToRead(rd) ==
    rd.todo
      \cup {i \in {active} \ {NoInode} :
              rd.pc \in {"exists", "active"} \/ (rd.pc = "sealed" /\ rd.last)}
      \cup {i \in {rd.file} : rd.pc = "scan"}

\* What was stored when the reader began is read, or is in one of them.
Sees(rd) ==
    /\ rd.pc # "off" => \A o \in rd.begun \ Doomed :
          o \in rd.got \/ \E i \in ToRead(rd) : o \in Complete(i)
    /\ rd.pc \in {"active", "scan", "cut"} => rd.todo = {}

AllSee == \A r \in Readers : Sees(reader[r])

\* A file that keeps its complete frames keeps what they say.
LEMMA CompleteKept ==
    ASSUME NEW i, Len(frames[i]) \in Nat, Len(frames'[i]) \in Nat,
           \A k \in 1..Len(frames[i]) : Intact(i, k) =>
              k <= Len(frames'[i]) /\ frames'[i][k] = frames[i][k]
    PROVE  Complete(i) \subseteq Complete(i)'
  <1> SUFFICES ASSUME NEW k \in 1..Len(frames[i]), Intact(i, k)
               PROVE  frames[i][k] \in Complete(i)'
    BY DEF Complete, IdsUpTo
  <1>1. \A j \in 1..k : j \in 1..Len(frames[i]) /\ Intact(i, j) /\ frames[i][j] # Torn
    BY DEF Intact
  <1>2. k \in 1..Len(frames'[i]) /\ frames'[i][k] = frames[i][k]
    OBVIOUS
  <1>3. Intact(i, k)'
    BY <1>1 DEF Intact
  <1> QED
    BY <1>2, <1>3 DEF Complete, IdsUpTo

\* A cut or a rewrite takes no complete frame away.
LEMMA TidyCompletes ==
    ASSUME DiskInv, Tidy, NEW i \in Inodes
    PROVE  Complete(i) \subseteq Complete(i)'
  <1>1. Len(frames[i]) \in Nat /\ Len(frames'[i]) \in Nat
    BY DEF DiskInv, TypeOK, Tidy
  <1>2. CASE Fresh(i)
    BY <1>1, <1>2, CompleteKept DEF Fresh
  <1>3. CASE ~Fresh(i)
    BY <1>1, <1>3, TidyFile, CompleteKept
  <1> QED
    BY <1>2, <1>3

\* The daemon only adds frames, and cuts off tears.
LEMMA WriterCompletes ==
    ASSUME DiskInv, Writer, NEW i \in Inodes
    PROVE  Complete(i) \subseteq Complete(i)'
  <1> USE DEF DiskInv
  <1>1. frames[i] \in Seq(Ids \cup {Torn}) /\ Len(frames[i]) \in Nat
    BY DEF TypeOK
  <1>2. CASE frames' = frames
    BY <1>1, <1>2, CompleteKept
  <1>3. CASE Recover
    <2>1. active \in Inodes
      BY <1>3 DEF Recover, TypeOK, Layout, Opening
    <2>2. PICK m \in 0..Len(frames[active]) :
             /\ ValidEnd(active, m)
             /\ frames' = [frames EXCEPT ![active] = SubSeq(@, 1, m)]
      BY <1>3 DEF Recover, TruncateActive
    <2>3. /\ \A j \in Inodes \ {active} : frames'[j] = frames[j]
          /\ Len(frames'[active]) = m
          /\ \A k \in 1..m : frames'[active][k] = frames[active][k]
      BY <2>1, <2>2, FileTruncated
    <2>4. CASE i # active
      BY <1>1, <2>3, <2>4, CompleteKept
    <2>5. CASE i = active
      <3>1. \A k \in 1..Len(frames[i]) : Intact(i, k) => k <= m
        BY <1>1, <2>2, <2>5 DEF ValidEnd, Intact
      <3>2. m \in Nat
        BY <1>1, <2>2, <2>5
      <3> QED
        BY <1>1, <2>3, <2>5, <3>1, <3>2, CompleteKept
    <2> QED
      BY <2>4, <2>5
  <1>4. CASE (WriteFrame \/ Kill) /\ frames' # frames
    <2>1. fd \in Inodes
      BY <1>4 DEF WriteFrame, Kill, Layout
    <2>2. PICK e \in Ids \cup {Torn} : frames' = [frames EXCEPT ![fd] = Append(@, e)]
      BY <1>4 DEF WriteFrame, Kill, Layout, Appending, Rolling
    <2>3. /\ \A j \in Inodes \ {fd} : frames'[j] = frames[j]
          /\ Len(frames'[fd]) = Len(frames[fd]) + 1
          /\ \A k \in 1..Len(frames[fd]) : frames'[fd][k] = frames[fd][k]
      BY <2>1, <2>2, FrameWritten
    <2> QED
      BY <1>1, <2>3, CompleteKept
  <1>5. CASE ~Recover /\ ~WriteFrame /\ ~Kill
    <2>1. frames' = frames
      BY <1>5 DEF Writer, WriterOpens, WriterLocksActive, WriterRecovers, WriterBegins,
           AppendStep, Rotate, OpenActive, LockActive, WriteMagic, SyncMagic, RecoverFails,
           AppendDuplicate, AppendBegin, SealSync, SealRename, CreateReplacement,
           WriteReplacementMagic, InstallReplacement, SyncFrame, disk
    <2> QED
      BY <1>2, <2>1
  <1> QED
    BY <1>2, <1>3, <1>4, <1>5

\* A reader that is not moved sees what it saw.
LEMMA SeesKept ==
    ASSUME AccessInv, NEW r \in Readers, NEW rd, rd = reader[r], Sees(rd),
           \A i \in Inodes : Complete(i) \subseteq Complete(i)',
           rd.pc # "off" => active' = active \/ active = NoInode
    PROVE  Sees(rd)'
  <1>1. /\ rd.todo \subseteq Inodes /\ active \in Inodes \cup {NoInode}
        /\ rd.pc = "scan" => rd.file \in Inodes
    BY DEF AccessInv, AccessTypeOK, DiskInv, TypeOK, CutsValid
  <1>2. rd.pc # "off" => ToRead(rd) \subseteq ToRead(rd)' /\ ToRead(rd) \subseteq Inodes
    BY <1>1 DEF ToRead
  <1> QED
    BY <1>2 DEF Sees

\* A step of a reader takes over what it leaves behind.
LEMMA ReaderSees ==
    ASSUME AccessInv, NEW r \in Readers, Sees(reader[r]), Read(r), ~ReadCut(r),
           NEW next, next = reader'[r]
    PROVE  Sees(next)
  <1> DEFINE rd == reader[r]
  <1>1. /\ reader \in [Readers -> Reading] /\ rd \in Reading /\ TypeOK
        /\ NotReading \in Reading /\ NotReading.pc = "off" /\ NotReading.todo = {}
    BY DEF AccessInv, AccessTypeOK, DiskInv, Reading, NotReading
  <1>2. CASE ReadList(r)
    <2>1. next.pc = "exists" /\ next.todo = sealed /\ next.begun = Stored
      BY <1>1, <1>2 DEF ReadList, NotReading, Reading
    <2>2. \A o \in Stored : \E i \in Named : o \in Complete(i)
      BY DEF Stored, Complete
    <2>3. Named \subseteq ToRead(next)
      BY <2>1 DEF Named, ToRead
    <2> QED
      BY <2>1, <2>2, <2>3 DEF Sees
  <1>3. CASE ReadExists(r)
    <2>1. /\ rd.pc = "exists" /\ next.pc = "sealed" /\ next.last = (active # NoInode)
          /\ next.todo = rd.todo /\ next.got = rd.got /\ next.begun = rd.begun
      BY <1>1, <1>3 DEF ReadExists, Reading
    <2>2. ToRead(next) = ToRead(rd)
      BY <2>1 DEF ToRead
    <2> QED
      BY <2>1, <2>2 DEF Sees
  <1>4. CASE ReadSealed(r)
    <2>1. PICK x \in rd.todo :
             reader' = [reader EXCEPT ![r].todo = @ \ {x},
                                      ![r].got = @ \cup IdsUpTo(x, Len(frames[x]))]
      BY <1>4 DEF ReadSealed
    <2>2. /\ rd.pc = "sealed" /\ next.pc = "sealed" /\ next.last = rd.last
          /\ next.todo = rd.todo \ {x} /\ next.got = rd.got \cup Complete(x)
          /\ next.begun = rd.begun
      BY <1>1, <1>4, <2>1 DEF ReadSealed, Complete, Reading
    <2>3. ToRead(rd) \subseteq ToRead(next) \cup {x}
      BY <2>2 DEF ToRead
    <2> QED
      BY <2>2, <2>3 DEF Sees
  <1>5. CASE ReadFails(r)
    BY <1>1, <1>5 DEF ReadFails, Sees
  <1>6. CASE ReadSealedDone(r)
    <2>1. CASE rd.last
      <3>1. /\ rd.pc = "sealed" /\ rd.todo = {} /\ next.pc = "active" /\ next.todo = {}
            /\ next.got = rd.got /\ next.begun = rd.begun
        BY <1>1, <1>6, <2>1 DEF ReadSealedDone, Reading
      <3>2. ToRead(rd) \subseteq ToRead(next)
        BY <3>1, <2>1 DEF ToRead
      <3> QED
        BY <3>1, <3>2 DEF Sees
    <2>2. CASE ~rd.last
      BY <1>1, <1>6, <2>2 DEF ReadSealedDone, Sees
    <2> QED
      BY <2>1, <2>2
  <1>7. CASE ReadOpen(r)
    <2>1. /\ rd.pc = "active" /\ next.pc = "scan" /\ next.file = active /\ next.todo = rd.todo
          /\ next.got = rd.got /\ next.begun = rd.begun
      BY <1>1, <1>7 DEF ReadOpen, Reading
    <2>2. ToRead(rd) \subseteq ToRead(next)
      BY <2>1 DEF ToRead
    <2> QED
      BY <2>1, <2>2 DEF Sees
  <1>8. CASE ReadScan(r)
    <2> DEFINE x == rd.file
    <2>1. x \in Inodes
      BY <1>8 DEF ReadScan, AccessInv, CutsValid
    <2>2. PICK n \in 0..Len(frames[x]) :
             /\ ValidEnd(x, n)
             /\ reader' = [reader EXCEPT ![r].pc = "cut", ![r].end = n,
                                         ![r].got = @ \cup IdsUpTo(x, n)]
      BY <1>8 DEF ReadScan
    <2>3. /\ rd.pc = "scan" /\ next.pc = "cut" /\ next.todo = rd.todo
          /\ next.got = rd.got \cup IdsUpTo(x, n) /\ next.begun = rd.begun
      BY <1>1, <1>8, <2>2 DEF ReadScan, Reading
    <2>4. Complete(x) \subseteq IdsUpTo(x, n)
      <3> SUFFICES ASSUME NEW k \in 1..Len(frames[x]), Intact(x, k) PROVE k \in 1..n
        BY DEF Complete, IdsUpTo
      <3>1. Len(frames[x]) \in Nat
        BY <1>1, <2>1 DEF TypeOK
      <3> QED
        BY <2>2, <3>1 DEF ValidEnd, Intact
    <2>5. ToRead(rd) \subseteq {x} /\ rd.todo = {}
      BY <2>3 DEF ToRead, Sees
    <2> QED
      BY <2>3, <2>4, <2>5 DEF Sees
  <1> QED
    BY <1>2, <1>3, <1>4, <1>5, <1>6, <1>7, <1>8 DEF Read

\* The names on a reader's list lead to the file that has replaced another.
LEMMA ReplaceSeen ==
    ASSUME AccessInv, AllSee, DeleteReplace, NEW r \in Readers
    PROVE  Sees(reader[r])'
  <1> USE DEF AccessInv
  <1>0. PICK i, j, rd, next : i = del.target /\ j = del.temp /\ rd = reader[r] /\ next = reader'[r]
    OBVIOUS
  <1>1. /\ NextFile(i) /\ i \in Inodes /\ j \in Inodes /\ Holds(i, j)
        /\ Intact(j, Len(frames[j])) /\ frames' = frames
    BY <1>0 DEF DeleteReplace, RewriteHolds, NextFile, disk
  <1>2. /\ rd \in Reading /\ rd.todo \subseteq sealed /\ Sees(rd)
        /\ active \notin sealed /\ active \in Inodes \cup {NoInode} /\ del.todo \subseteq sealed
        /\ frames \in [Inodes -> Seq(Ids \cup {Torn})]
    BY <1>0 DEF AccessTypeOK, DiskInv, TypeOK, Layout, AllSee
  <1>3. \/ /\ i \in del.todo /\ active' = active
           /\ next = [rd EXCEPT !.todo = IF i \in @ THEN (@ \ {i}) \cup {j} ELSE @]
        \/ i = active /\ active' = j /\ next = rd
    BY <1>0, <1>1 DEF DeleteReplace, NextFile
  <1>4. /\ next.pc = rd.pc /\ next.last = rd.last /\ next.file = rd.file
        /\ next.begun = rd.begun /\ next.got = rd.got
        /\ next.todo = IF i \in rd.todo THEN (rd.todo \ {i}) \cup {j} ELSE rd.todo
    BY <1>2, <1>3 DEF Reading
  <1>5. \A o, x : (o \in Complete(x))' <=> o \in Complete(x)
    BY <1>1 DEF Complete, IdsUpTo, Intact
  <1>6. ASSUME NEW o \in Complete(i) \ Doomed PROVE o \in Complete(j)
    <2>1. PICK k \in 1..Len(frames[i]) : frames[i][k] = o /\ Intact(i, k)
      BY DEF Complete, IdsUpTo
    <2>2. frames[i][k] # Torn
      BY <1>1, <1>2, <2>1 DEF Intact
    <2>3. PICK l \in 1..Len(frames[j]) : frames[j][l] = o
      BY <1>1, <1>6, <2>1, <2>2 DEF Holds
    <2>4. Intact(j, l)
      BY <1>1, <1>2 DEF Intact
    <2> QED
      BY <2>3, <2>4 DEF Complete, IdsUpTo
  <1>7. \A x \in ToRead(rd) : x \in ToRead(next)' \/ (x = i /\ j \in ToRead(next)')
    BY <1>1, <1>2, <1>3, <1>4, SegmentAssumptions DEF ToRead
  <1>8. Sees(next)'
    <2>1. rd.pc \in {"active", "scan", "cut"} => next.todo = {}
      BY <1>2, <1>4 DEF Sees
    <2>2. ASSUME rd.pc # "off", NEW o \in rd.begun \ Doomed
          PROVE  o \in rd.got \/ \E x \in ToRead(next)' : o \in Complete(x)'
      <3>1. o \in rd.got \/ \E x \in ToRead(rd) : o \in Complete(x)
        BY <1>2, <2>2 DEF Sees
      <3> QED
        BY <1>5, <1>6, <1>7, <3>1
    <2> QED
      BY <1>4, <2>1, <2>2 DEF Sees
  <1> QED
    BY <1>0, <1>8 DEF Sees, ToRead

\* Whatever step comes, every reader has read what it should or has it ahead.
LEMMA AllSeeStep ==
    ASSUME NoOverlaps, AccessInv, AllSee, [AccessNext]_<<vars, access>>
    PROVE  AllSee'
  <1> USE DEF AccessInv
  <1>1. ASSUME NEW r \in Readers, reader'[r] = reader[r],
               \A i \in Inodes : Complete(i) \subseteq Complete(i)',
               reader[r].pc # "off" => active' = active \/ active = NoInode
        PROVE  Sees(reader[r])'
    <2>1. PICK rd : rd = reader[r]
      OBVIOUS
    <2>2. Sees(rd)'
      BY <1>1, <2>1, SeesKept DEF AllSee
    <2> QED
      BY <1>1, <2>1, <2>2 DEF Sees, ToRead
  <1>2. CASE Writer /\ UNCHANGED access
    <2>1. reader' = reader /\ \A i \in Inodes : Complete(i) \subseteq Complete(i)'
      BY <1>2, WriterCompletes DEF access
    <2>2. ASSUME NEW r \in Readers, reader[r].pc # "off" PROVE active' = active \/ active = NoInode
      <3>1. pc \notin Rolling
        BY <2>2 DEF Serialised
      <3> QED
        BY <1>2, <3>1
           DEF Writer, WriterOpens, WriterLocksActive, WriterRecovers, WriterBegins, Rolling,
               AppendStep, Rotate, OpenActive, LockActive, WriteMagic, SyncMagic, Recover,
               RecoverFails, AppendDuplicate, AppendBegin, SealSync, SealRename,
               CreateReplacement, WriteReplacementMagic, InstallReplacement, WriteFrame,
               SyncFrame, Kill, names
    <2> QED
      BY <1>1, <2>1, <2>2 DEF AllSee
  <1>3. CASE Outage
    <2>1. NotReading.pc = "off" /\ \A r \in Readers : reader'[r] = NotReading
      BY <1>3 DEF Outage, NotReading
    <2> QED
      BY <2>1 DEF AllSee, Sees
  <1>4. ASSUME NEW r \in Readers, Read(r) PROVE AllSee'
    <2>1. \A q \in Readers \ {r} : reader'[q] = reader[q]
      BY <1>4 DEF AccessTypeOK, Read, ReadList, ReadExists, ReadSealed, ReadFails,
           ReadSealedDone, ReadOpen, ReadScan, ReadCut
    <2>2. CASE ReadCut(r)
      <3>1. /\ \A i \in Inodes : Complete(i) \subseteq Complete(i)'
            /\ active' = active
        BY <2>2, CutIsTidy, TidyCompletes DEF ReadCut, names
      <3>2. \A q \in Readers \ {r} : Sees(reader[q])'
        BY <1>1, <2>1, <3>1
      <3>3. Sees(reader[r])'
        <4>1. reader'[r].pc = "off"
          BY <2>2 DEF AccessTypeOK, ReadCut, NotReading
        <4> QED
          BY <4>1 DEF Sees
      <3> QED
        BY <3>2, <3>3 DEF AllSee
    <2>3. CASE ~ReadCut(r)
      <3>1. UNCHANGED <<frames, active>>
        BY <1>4, <2>3 DEF Read, ReadList, ReadExists, ReadSealed, ReadFails, ReadSealedDone,
             ReadOpen, ReadScan, vars, disk, names
      <3>2. \A i \in Inodes : Complete(i) \subseteq Complete(i)'
        BY <3>1 DEF Complete, IdsUpTo, Intact
      <3>3. \A q \in Readers \ {r} : Sees(reader[q])'
        BY <1>1, <2>1, <3>1, <3>2
      <3>4. PICK next : next = reader'[r]
        OBVIOUS
      <3>5. Sees(next)
        BY <1>4, <2>3, <3>4, ReaderSees DEF AllSee
      <3>6. Sees(reader[r])'
        BY <3>1, <3>4, <3>5 DEF Sees, ToRead, Complete, IdsUpTo, Intact
      <3> QED
        BY <3>3, <3>6 DEF AllSee
    <2> QED
      BY <2>2, <2>3
  <1>5. CASE DeleteReplace
    BY <1>5, ReplaceSeen DEF AllSee
  <1>6. CASE DeleteRewrite
    <2>1. /\ \A i \in Inodes : Complete(i) \subseteq Complete(i)'
          /\ active' = active /\ reader' = reader
      BY <1>6, RewriteIsTidy, TidyCompletes DEF DeleteRewrite, names
    <2> QED
      BY <1>1, <2>1 DEF AllSee
  <1>7. CASE (Delete /\ ~DeleteReplace /\ ~DeleteRewrite) \/ UNCHANGED <<vars, access>>
    <2>1. UNCHANGED <<frames, active, reader>>
      BY <1>7 DEF Delete, DeleteOpen, DeleteLock, DeleteList, DeleteExists, DeleteFails,
           DeleteEnd, DeleteKilled, vars, disk, names, access
    <2>2. \A i \in Inodes : Complete(i) \subseteq Complete(i)'
      BY <2>1 DEF Complete, IdsUpTo, Intact
    <2> QED
      BY <1>1, <2>1, <2>2 DEF AllSee
  <1> QED
    BY <1>2, <1>3, <1>4, <1>5, <1>6, <1>7 DEF AccessNext

\* A reader that succeeds has read everything that was stored when it began,
\* but for a session being deleted, however the daemon appends and restarts and
\* the deleter replaces files next to it (segment.rs:125-142 and 224-270).
THEOREM ReadersMissNothing ==
    ASSUME NoOverlaps, NoTornWrites, OneCrashKind
    PROVE  AccessSpec => ReadComplete
  <1>1. AccessInit => AllSee
    <2>1. AccessInit => \A r \in Readers : reader[r].pc = "off"
      BY DEF AccessInit, NotReading
    <2> QED
      BY <2>1 DEF AllSee, Sees
  <1>2. AccessInv /\ AllSee /\ [AccessNext]_<<vars, access>> => AllSee'
    BY AllSeeStep
  <1>3. AllSee => [\A r \in Readers :
          (ReadCut(r) \/ (ReadSealedDone(r) /\ ~reader[r].last))
             => reader[r].begun \ Doomed \subseteq reader[r].got]_<<vars, access>>
    <2> SUFFICES ASSUME AllSee, NEW r \in Readers,
                        ReadCut(r) \/ (ReadSealedDone(r) /\ ~reader[r].last)
                 PROVE  reader[r].begun \ Doomed \subseteq reader[r].got
      OBVIOUS
    <2>1. Sees(reader[r]) /\ reader[r].pc # "off"
      BY DEF AllSee, ReadCut, ReadSealedDone
    <2>2. ToRead(reader[r]) = {}
      BY <2>1 DEF ReadCut, ReadSealedDone, Sees, ToRead
    <2> QED
      BY <2>1, <2>2 DEF Sees
  <1> QED
    BY <1>1, <1>2, <1>3, AccessInitially, AccessStep, PTL DEF AccessSpec, ReadComplete
=============================================================================
