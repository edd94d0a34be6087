--------------------------- MODULE DeviceLogs_proofs ---------------------------
(***************************************************************************)
(* Proofs about DeviceLogs, for any devices, log types, lengths, quotas    *)
(* and bounds: the types, what a file holds, which file is removed, and    *)
(* what becomes of an acknowledged block.                                  *)
(***************************************************************************)
EXTENDS DeviceLogs, SequenceTheorems, TLAPS

\* The thread of CycleDelete has five fields.
CleanerRecord ==
  cleaner = [ at |-> cleaner.at, enable |-> cleaner.enable,
              dirs |-> cleaner.dirs, todo |-> cleaner.todo,
              listed |-> cleaner.listed ]

-----------------------------------------------------------------------------
\* Sequences

\* Append, Head and Tail of the queues and of the blocks of a file.
LEMMA BlockSeqs ==
  /\ <<>> \in Seq(Blocks)
  /\ \A s \in Seq(Blocks), b \in Blocks :
       /\ Append(s, b) \in Seq(Blocks) /\ Len(Append(s, b)) = Len(s) + 1
       /\ Append(s, b)[Len(s) + 1] = b
       /\ \A k \in 1..Len(s) : Append(s, b)[k] = s[k]
  /\ \A s \in Seq(Blocks) :
       /\ Len(s) \in Nat /\ DOMAIN s = 1..Len(s)
       /\ \A k \in 1..Len(s) : s[k] \in Blocks
       /\ s # <<>> => /\ Len(s) > 0 /\ Head(s) = s[1] /\ Head(s) \in Blocks
                      /\ Tail(s) \in Seq(Blocks) /\ Len(Tail(s)) = Len(s) - 1
                      /\ \A k \in 1..Len(Tail(s)) : Tail(s)[k] = s[k + 1]
<1>1. \A s \in Seq(Blocks), b \in Blocks :
       /\ Append(s, b) \in Seq(Blocks) /\ Len(Append(s, b)) = Len(s) + 1
       /\ Append(s, b)[Len(s) + 1] = b
       /\ \A k \in 1..Len(s) : Append(s, b)[k] = s[k]
  BY AppendProperties
<1>2. \A s \in Seq(Blocks) :
       /\ Len(s) \in Nat /\ DOMAIN s = 1..Len(s)
       /\ \A k \in 1..Len(s) : s[k] \in Blocks
  BY LenProperties, ElementOfSeq
<1>3. ASSUME NEW s \in Seq(Blocks), s # <<>>
      PROVE  /\ Len(s) > 0 /\ Head(s) = s[1] /\ Head(s) \in Blocks
             /\ Tail(s) \in Seq(Blocks) /\ Len(Tail(s)) = Len(s) - 1
             /\ \A k \in 1..Len(Tail(s)) : Tail(s)[k] = s[k + 1]
  BY <1>3, EmptySeq, HeadTailProperties
<1>4. QED
  BY <1>1, <1>2, <1>3, EmptySeq

-----------------------------------------------------------------------------
(***************************************************************************)
(* What Process makes of the block at the head of the batch: it is passed  *)
(* over, its file cannot be made, it ends a file, its file is not open, or *)
(* it is stored.                                                           *)
(***************************************************************************)
First(d) == Head(writer[d].batch)
Entry(d) == writer[d].current[First(d).type]
Opened(b, fp) == [fp |-> fp, file |-> b.file, trans |-> b.trans]

\* The handler with the head of its batch gone and e for the entry.
Processed(d, e) ==
  [writer[d] EXCEPT !.batch = Tail(@),
                    !.current = [@ EXCEPT ![First(d).type] = e]]

\* File i gets block b of device d, or is made of it.
Grown(i, d, b) ==
  /\ disk' \in Seq(LogFiles) /\ DOMAIN disk' = DOMAIN disk \cup {i}
  /\ \A j \in DOMAIN disk : j # i => disk'[j] = disk[j]
  /\ disk'[i].device = d /\ disk'[i].type = b.type /\ disk'[i].file = b.file
  /\ i \in DOMAIN disk =>
       /\ disk[i].device = d /\ disk[i].type = b.type /\ disk[i].file = b.file
       /\ disk'[i].blocks = Append(disk[i].blocks, b)
       /\ disk'[i].second = disk[i].second
       /\ disk'[i].removed = disk[i].removed
  /\ i \notin DOMAIN disk =>
       /\ i = Len(disk) + 1 /\ disk'[i].blocks = <<b>>
       /\ disk'[i].second \in Seconds /\ ~disk'[i].removed

Skipped(d, e) ==
  /\ disk' = disk /\ faults' = faults /\ e = Entry(d) /\ ~IsCreate(First(d))
  /\ \/ IsStale(Entry(d), First(d))
     \/ ~IsEnd(First(d)) /\ Entry(d).file # First(d).file

NotMade(d, e) ==
  /\ disk' = disk /\ faults' = faults + 1 /\ IsCreate(First(d))
  /\ e \in {Entry(d), Opened(First(d), NoFile)}

Ended(d, e) ==
  /\ disk' = disk /\ faults' = faults /\ IsEnd(First(d))
  /\ ~IsStale(Entry(d), First(d))
  /\ e = [ fp |-> NoFile, file |-> Entry(d).file,
           trans |-> First(d).trans ]

Unopened(d, e) ==
  /\ disk' = disk /\ faults' = faults /\ ~IsEnd(First(d))
  /\ ~IsCreate(First(d)) /\ ~IsStale(Entry(d), First(d))
  /\ Entry(d).file = First(d).file /\ Entry(d).fp = NoFile
  /\ e = Opened(First(d), NoFile)

Stored(d, e, i) ==
  /\ Grown(i, d, First(d)) /\ faults' = faults /\ i # NoFile
  /\ e = Opened(First(d), i) /\ ~IsEnd(First(d))
  /\ ~IsCreate(First(d)) => /\ i = Entry(d).fp /\ i \in DOMAIN disk
                            /\ Entry(d).trans <= First(d).trans

\* The file of an open entry is of that device and type and is the one the
\* entry says; its last block is not after the one the entry is at.
EntryOK ==
  \A d \in Devices, t \in Types :
    LET c == writer[d].current[t]
    IN c.fp # NoFile =>
         /\ c.fp \in DOMAIN disk
         /\ disk[c.fp].device = d /\ disk[c.fp].type = t
         /\ disk[c.fp].file = c.file
         /\ disk[c.fp].blocks[Len(disk[c.fp].blocks)].trans <= c.trans

Base == TypeOK /\ EntryOK

LEMMA FilesTyped ==
  ASSUME disk \in Seq(LogFiles)
  PROVE  /\ DOMAIN disk = 1..Len(disk) /\ Len(disk) \in Nat
         /\ \A i \in DOMAIN disk :
              /\ disk[i].device \in Devices /\ disk[i].type \in Types
              /\ disk[i].file \in 1..MaxFiles /\ disk[i].second \in Nat
              /\ disk[i].removed \in BOOLEAN /\ disk[i].blocks \in Seq(Blocks)
<1>1. \A i \in DOMAIN disk : disk[i] \in LogFiles
  BY ElementOfSeq, LenProperties
<1>2. QED
  BY <1>1, LenProperties DEF LogFiles

LEMMA SecondsAreNat ==
  ASSUME disk \in Seq(LogFiles)
  PROVE  Seconds \subseteq Nat
<1>1. CASE disk = <<>>
  BY <1>1 DEF Seconds
<1>2. CASE disk # <<>>
  <2>1. Len(disk) \in 1..Len(disk)
    BY <1>2, EmptySeq, LenProperties
  <2>2. Last(disk).second \in Nat
    <3>1. disk[Len(disk)] \in LogFiles
      BY <2>1, ElementOfSeq
    <3>2. QED
      BY <3>1 DEF Last, LogFiles
  <2>3. QED
    BY <1>2, <2>2 DEF Seconds
<1>3. QED
  BY <1>1, <1>2

\* The head of the batch and its entry.
LEMMA FirstIsTyped ==
  ASSUME TypeOK, NEW d \in Devices, writer[d].batch # <<>>
  PROVE  /\ First(d) \in Blocks /\ First(d).type \in Types
         /\ First(d).file \in 1..MaxFiles /\ First(d).trans \in 0..LastBlock
         /\ Entry(d) \in Entries
<1>1. writer[d] \in Writers
  BY DEF TypeOK
<1>2. First(d) \in Blocks
  BY <1>1, BlockSeqs DEF First, Writers
<1>3. /\ First(d).type \in Types
      /\ First(d).file \in 1..MaxFiles /\ First(d).trans \in 0..LastBlock
  BY <1>2 DEF Blocks, Block
<1>4. QED
  BY <1>1, <1>2, <1>3 DEF Entry, Writers

\* A block that goes to a file of its own makes it grow.
LEMMA WrittenGrows ==
  ASSUME TypeOK, NEW d \in Devices, NEW b \in Blocks, NEW now \in Nat,
         NEW i \in DOMAIN disk \cup {Len(disk) + 1},
         i \notin DOMAIN disk => now \in Seconds,
         i \in DOMAIN disk => /\ disk[i].device = d /\ disk[i].type = b.type
                              /\ disk[i].file = b.file,
         disk' = Written(i, d, b, now)
  PROVE  Grown(i, d, b)
<1>1. /\ DOMAIN disk = 1..Len(disk) /\ Len(disk) \in Nat
      /\ disk \in Seq(LogFiles)
  BY LenProperties DEF TypeOK
<1>2. CASE i \in DOMAIN disk
  <2> DEFINE e == [disk[i] EXCEPT !.blocks = Append(@, b)]
  <2>1. disk[i] \in LogFiles
    BY <1>1, <1>2, ElementOfSeq
  <2>2. Append(disk[i].blocks, b) \in Seq(Blocks)
    BY <2>1, BlockSeqs DEF LogFiles
  <2>3. e \in LogFiles
    BY <2>1, <2>2 DEF LogFiles
  <2>4. /\ e.device = disk[i].device /\ e.type = disk[i].type
        /\ e.file = disk[i].file /\ e.second = disk[i].second
        /\ e.removed = disk[i].removed /\ e.blocks = Append(disk[i].blocks, b)
    BY <2>1 DEF LogFiles
  <2>5. disk' = [disk EXCEPT ![i] = e]
    BY <1>2 DEF Written
  <2> HIDE DEF e
  <2>6. /\ disk' \in Seq(LogFiles) /\ Len(disk') = Len(disk) /\ disk'[i] = e
        /\ \A j \in 1..Len(disk) : j # i => disk'[j] = disk[j]
    BY <1>1, <1>2, <2>3, <2>5, ExceptSeq
  <2>7. QED
    BY <1>1, <1>2, <2>4, <2>6, LenProperties DEF Grown
<1>3. CASE i \notin DOMAIN disk
  <2> DEFINE e == [ device |-> d, type |-> b.type, file |-> b.file,
                    second |-> now, removed |-> FALSE, blocks |-> <<b>> ]
  <2>1. i = Len(disk) + 1
    BY <1>3
  <2>2. b.type \in Types /\ b.file \in 1..MaxFiles
    BY DEF Blocks, Block
  <2>3. <<b>> \in Seq(Blocks)
    OBVIOUS
  <2>4. e \in LogFiles
    BY <1>1, <2>2, <2>3 DEF LogFiles
  <2>5. disk' = Append(disk, e)
    BY <1>3 DEF Written
  <2>6. /\ e.device = d /\ e.type = b.type /\ e.file = b.file
        /\ e.second = now /\ e.removed = FALSE /\ e.blocks = <<b>>
    OBVIOUS
  <2> HIDE DEF e
  <2>7. /\ disk' \in Seq(LogFiles) /\ Len(disk') = Len(disk) + 1
        /\ \A j \in 1..Len(disk) : disk'[j] = disk[j]
        /\ disk'[Len(disk) + 1] = e
    BY <1>1, <2>4, <2>5, AppendProperties
  <2>8. DOMAIN disk' = DOMAIN disk \cup {i}
    <3>1. 1..(Len(disk) + 1) = 1..Len(disk) \cup {Len(disk) + 1}
      BY <1>1
    <3>2. QED
      BY <1>1, <2>1, <2>7, <3>1, LenProperties
  <2>9. disk'[i] = e /\ \A j \in DOMAIN disk : disk'[j] = disk[j]
    BY <1>1, <2>1, <2>7
  <2>10. QED
    BY <1>3, <2>1, <2>6, <2>7, <2>8, <2>9 DEF Grown
<1>4. QED
  BY <1>2, <1>3

\* Storing a block in a new file, in one of its name, or in the open one.
LEMMA MadeIsStored ==
  ASSUME TypeOK, NEW d \in Devices, writer[d].batch # <<>>,
         IsCreate(First(d)), NEW now \in Seconds, NEW i,
         i = Named(d, First(d), now), disk' = Written(i, d, First(d), now),
         faults' = faults
  PROVE  Opened(First(d), i) \in Entries /\ Stored(d, Opened(First(d), i), i)
<1> DEFINE b == First(d)
<1>1. /\ b \in Blocks /\ b.type \in Types
      /\ b.file \in 1..MaxFiles /\ b.trans \in 0..LastBlock
  BY FirstIsTyped
<1>2. DOMAIN disk = 1..Len(disk) /\ Len(disk) \in Nat
  BY LenProperties DEF TypeOK
<1>3. /\ i \in DOMAIN disk \cup {Len(disk) + 1}
      /\ i \in DOMAIN disk => /\ disk[i].device = d /\ disk[i].type = b.type
                              /\ disk[i].file = b.file
  <2>1. CASE \E j \in DOMAIN disk : HasName(j, d, b, now)
    <3>1. i \in DOMAIN disk /\ HasName(i, d, b, now)
      BY <2>1 DEF Named
    <3>2. QED
      BY <3>1 DEF HasName
  <2>2. CASE ~\E j \in DOMAIN disk : HasName(j, d, b, now)
    BY <1>2, <2>2 DEF Named
  <2>3. QED
    BY <2>1, <2>2
<1>4. i \in Nat /\ i # NoFile
  BY <1>2, <1>3 DEF NoFile
<1>5. Grown(i, d, b)
  <2>1. now \in Nat
    BY SecondsAreNat DEF TypeOK
  <2>2. QED
    BY <1>1, <1>3, <2>1, WrittenGrows
<1>6. ~IsEnd(b)
  BY DeviceLogsAssumption DEF IsCreate, IsEnd
<1>7. Opened(b, i) \in Entries
  BY <1>1, <1>4 DEF Opened, Entries
<1>8. QED
  BY <1>4, <1>5, <1>6, <1>7 DEF Stored

LEMMA WrittenIsStored ==
  ASSUME Base, NEW d \in Devices, writer[d].batch # <<>>,
         ~IsStale(Entry(d), First(d)), ~IsEnd(First(d)), ~IsCreate(First(d)),
         Entry(d).file = First(d).file, Entry(d).fp # NoFile,
         disk' = Written(Entry(d).fp, d, First(d), 0), faults' = faults
  PROVE  LET e == [Entry(d) EXCEPT !.trans = First(d).trans]
         IN e \in Entries /\ Stored(d, e, Entry(d).fp)
<1> DEFINE b == First(d)
           c == Entry(d)
<1>1. /\ b \in Blocks /\ b.type \in Types /\ c \in Entries
      /\ b.file \in 1..MaxFiles /\ b.trans \in 0..LastBlock
  BY FirstIsTyped DEF Base
<1>2. /\ c.fp \in DOMAIN disk /\ disk[c.fp].device = d
      /\ disk[c.fp].type = b.type /\ disk[c.fp].file = b.file
  BY <1>1 DEF Base, EntryOK, Entry
<1>3. Grown(c.fp, d, b)
  BY <1>1, <1>2, WrittenGrows DEF Base
<1>4. c.trans <= b.trans
  BY <1>1 DEF IsStale, Entries
<1> DEFINE e == [c EXCEPT !.trans = b.trans]
<1>5. e \in Entries /\ e = Opened(b, c.fp)
  BY <1>1 DEF Entries, Opened
<1>6. QED
  BY <1>2, <1>3, <1>4, <1>5 DEF Stored

\* The outcome e, whichever branch it comes from.
Outcomed(d, e) ==
  \/ Skipped(d, e) \/ NotMade(d, e) \/ Ended(d, e) \/ Unopened(d, e)
  \/ \E i \in Nat : Stored(d, e, i)

LEMMA ProcessCases ==
  ASSUME Base, NEW d \in Devices, Process(d)
  PROVE  /\ writer[d].on /\ writer[d].batch # <<>>
         /\ \E e \in Entries :
              /\ Outcomed(d, e)
              /\ writer' = [writer EXCEPT ![d] = Processed(d, e)]
<1> DEFINE b == First(d)
           c == Entry(d)
           Moved(e) == writer' = [writer EXCEPT ![d] = Processed(d, e)]
<1>1. writer[d].on /\ writer[d].batch # <<>>
  BY DEF Process
<1>2. /\ b \in Blocks /\ b.type \in Types /\ c \in Entries
      /\ b.file \in 1..MaxFiles /\ b.trans \in 0..LastBlock
  BY <1>1, FirstIsTyped DEF Base
<1>3. ASSUME NEW o,
             writer' = [writer EXCEPT ![d].batch = Tail(@),
                                      ![d].current[b.type] = o.entry]
      PROVE  Moved(o.entry)
  <2>1. writer \in [Devices -> Writers] /\ writer[d] \in Writers
    BY DEF Base, TypeOK
  <2>2. QED
    BY <1>3, <2>1 DEF Processed, Writers
<1>4. CASE IsStale(c, b) /\ faults' = faults /\ disk' = disk /\ Moved(c)
  <2>1. Skipped(d, c)
    BY <1>4 DEF Skipped, IsStale
  <2>2. QED
    BY <1>1, <1>2, <1>4, <2>1 DEF Outcomed
<1>5. CASE /\ IsCreate(b) /\ faults' = faults
           /\ \E now \in Seconds :
                LET i == Named(d, b, now)
                IN disk' = Written(i, d, b, now) /\ Moved(Opened(b, i))
  <2>1. PICK now \in Seconds :
          LET i == Named(d, b, now)
          IN disk' = Written(i, d, b, now) /\ Moved(Opened(b, i))
    BY <1>5
  <2> DEFINE i == Named(d, b, now)
  <2>2. Opened(b, i) \in Entries /\ Stored(d, Opened(b, i), i)
    BY <1>1, <1>5, <2>1, MadeIsStored DEF Base
  <2>3. i \in Nat
    BY <2>2 DEF Opened, Entries
  <2>4. QED
    BY <1>1, <2>1, <2>2, <2>3 DEF Outcomed
<1>6. CASE /\ IsCreate(b) /\ faults' = faults + 1 /\ disk' = disk
           /\ \E e \in {c, Opened(b, NoFile)} : Moved(e)
  <2>1. PICK e \in {c, Opened(b, NoFile)} : Moved(e)
    BY <1>6
  <2>2. e \in Entries
    BY <1>2 DEF Opened, NoFile, Entries
  <2>3. NotMade(d, e)
    BY <1>6 DEF NotMade
  <2>4. QED
    BY <1>1, <2>1, <2>2, <2>3 DEF Outcomed
<1>7. CASE /\ ~IsStale(c, b) /\ IsEnd(b) /\ faults' = faults /\ disk' = disk
           /\ Moved([c EXCEPT !.fp = NoFile, !.trans = b.trans])
  <2> DEFINE e == [c EXCEPT !.fp = NoFile, !.trans = b.trans]
             r == [fp |-> NoFile, file |-> c.file, trans |-> b.trans]
  <2>1. PICK f \in Entries : f = [c EXCEPT !.fp = NoFile]
    BY <1>2 DEF NoFile, Entries
  <2>2. e \in Entries /\ e = r
    <3>1. e = [f EXCEPT !.trans = b.trans]
      BY <2>1
    <3>2. f.fp = NoFile /\ f.file = c.file
      BY <1>2, <2>1 DEF Entries
    <3> HIDE DEF e
    <3>3. e = r /\ e \in Entries
      BY <1>2, <3>1, <3>2 DEF Entries
    <3>4. QED
      BY <3>3
  <2>3. Ended(d, e)
    BY <1>7, <2>2 DEF Ended
  <2>4. QED
    BY <1>1, <1>7, <2>2, <2>3 DEF Outcomed
<1>8. CASE /\ ~IsStale(c, b) /\ ~IsEnd(b) /\ ~IsCreate(b) /\ faults' = faults
           /\ disk' = WriteFile(d, b, c).disk
           /\ Moved(WriteFile(d, b, c).entry)
  <2>1. CASE c.file # b.file
    <3>1. disk' = disk /\ Moved(c)
      BY <1>8, <2>1 DEF WriteFile, Outcome
    <3>2. Skipped(d, c)
      BY <1>8, <2>1, <3>1 DEF Skipped
    <3>3. QED
      BY <1>1, <1>2, <3>1, <3>2 DEF Outcomed
  <2> DEFINE e == [c EXCEPT !.trans = b.trans]
  <2>2. CASE c.file = b.file /\ c.fp = NoFile
    <3>1. disk' = disk /\ Moved(e)
      BY <1>8, <2>2 DEF WriteFile, Outcome
    <3>2. e \in Entries /\ e = Opened(b, NoFile)
      BY <1>2, <2>2 DEF Opened, Entries
    <3>3. Unopened(d, e)
      BY <1>8, <2>2, <3>1, <3>2 DEF Unopened
    <3>4. QED
      BY <1>1, <3>1, <3>2, <3>3 DEF Outcomed
  <2>3. CASE c.file = b.file /\ c.fp # NoFile
    <3>1. disk' = Written(c.fp, d, b, 0) /\ Moved(e)
      BY <1>8, <2>3 DEF WriteFile, Outcome
    <3>2. e \in Entries /\ Stored(d, e, c.fp)
      BY <1>1, <1>8, <2>3, <3>1, WrittenIsStored
    <3>3. c.fp \in Nat
      BY <1>2 DEF Entries
    <3>4. QED
      BY <1>1, <3>1, <3>2, <3>3 DEF Outcomed
  <2>4. QED
    BY <2>1, <2>2, <2>3
<1>9. QED
  <2> DEFINE Done(o) == /\ writer' = [writer EXCEPT ![d].batch = Tail(@),
                                      ![d].current[b.type] = o.entry]
                        /\ disk' = o.disk
  <2>1. \/ IsStale(c, b) /\ Done(Outcome(c, disk)) /\ faults' = faults
        \/ /\ IsCreate(b) /\ faults' = faults
           /\ \E o \in CreateFile(d, b, c).done : Done(o)
        \/ /\ IsCreate(b) /\ faults' = faults + 1
           /\ \E o \in CreateFile(d, b, c).failed : Done(o)
        \/ ~IsStale(c, b) /\ IsEnd(b) /\ Done(StopFile(b, c))
           /\ faults' = faults
        \/ ~IsStale(c, b) /\ ~IsEnd(b) /\ ~IsCreate(b)
           /\ Done(WriteFile(d, b, c)) /\ faults' = faults
    BY DEF Process, First, Entry
  <2>2. \A o : Done(o) => disk' = o.disk /\ Moved(o.entry)
    BY <1>3
  <2> HIDE DEF Done, Moved
  <2>3. CASE IsStale(c, b) /\ Done(Outcome(c, disk)) /\ faults' = faults
    <3>1. disk' = disk /\ Moved(c)
      BY <2>2, <2>3 DEF Outcome
    <3>2. QED
      BY <1>4, <2>3, <3>1
  <2>4. CASE /\ IsCreate(b) /\ faults' = faults
             /\ \E o \in CreateFile(d, b, c).done : Done(o)
    <3>1. PICK now \in Seconds :
            Done(Outcome(Opened(b, Named(d, b, now)),
                         Written(Named(d, b, now), d, b, now)))
      BY <2>4 DEF CreateFile, Opened
    <3>2. /\ disk' = Written(Named(d, b, now), d, b, now)
          /\ Moved(Opened(b, Named(d, b, now)))
      BY <2>2, <3>1 DEF Outcome
    <3>3. QED
      BY <1>5, <2>4, <3>2
  <2>5. CASE /\ IsCreate(b) /\ faults' = faults + 1
             /\ \E o \in CreateFile(d, b, c).failed : Done(o)
    <3>1. PICK e \in {c, Opened(b, NoFile)} : Done(Outcome(e, disk))
      BY <2>5 DEF CreateFile, Opened
    <3>2. disk' = disk /\ Moved(e)
      BY <2>2, <3>1 DEF Outcome
    <3>3. QED
      BY <1>6, <2>5, <3>2
  <2>6. CASE /\ ~IsStale(c, b) /\ IsEnd(b) /\ Done(StopFile(b, c))
             /\ faults' = faults
    <3>1. /\ disk' = disk
          /\ Moved([c EXCEPT !.fp = NoFile, !.trans = b.trans])
      BY <2>2, <2>6 DEF StopFile, Outcome
    <3>2. QED
      BY <1>7, <2>6, <3>1
  <2>7. CASE /\ ~IsStale(c, b) /\ ~IsEnd(b) /\ ~IsCreate(b)
             /\ Done(WriteFile(d, b, c)) /\ faults' = faults
    <3>1. disk' = WriteFile(d, b, c).disk /\ Moved(WriteFile(d, b, c).entry)
      BY <2>2, <2>7
    <3>2. QED
      BY <1>8, <2>7, <3>1
  <2>8. QED
    BY <2>1, <2>3, <2>4, <2>5, <2>6, <2>7

-----------------------------------------------------------------------------
(***************************************************************************)
(* What Handler makes of the handler of a device: the block is queued, by  *)
(* a handler that is there or a new one, or there is none.                 *)
(***************************************************************************)
Fresh == [t \in Types |-> NotOpen]

Queued(d, b, w) ==
  \/ /\ writer[d].on /\ w.on /\ w.stop = writer[d].stop
     /\ w.queue = Append(writer[d].queue, b)
     /\ w.batch = writer[d].batch /\ w.current = writer[d].current
  \/ /\ ~writer[d].on /\ w.on /\ ~w.stop /\ w.queue = <<b>>
     /\ w.batch = <<>> /\ w.current = Fresh
  \/ ~w.on /\ w = writer[d]

LEMMA NewWriterFacts ==
  /\ NotOpen \in Entries /\ NoWriter \in Writers /\ NewWriter \in Writers
  /\ NewWriter.on /\ ~NewWriter.stop /\ NewWriter.queue = <<>>
  /\ NewWriter.batch = <<>> /\ NewWriter.current = Fresh
  /\ ~NoWriter.on /\ ~NoWriter.stop /\ NoWriter.queue = <<>>
  /\ NoWriter.batch = <<>> /\ NoWriter.current = Fresh
<1>1. NotOpen \in Entries
  BY DeviceLogsAssumption DEF NotOpen, Entries, NoFile
<1>2. Fresh \in [Types -> Entries] /\ <<>> \in Seq(Blocks)
  BY <1>1, BlockSeqs DEF Fresh
<1>3. /\ NoWriter \in Writers /\ ~NoWriter.on /\ ~NoWriter.stop
      /\ NoWriter.queue = <<>> /\ NoWriter.batch = <<>>
      /\ NoWriter.current = Fresh
  BY <1>2 DEF NoWriter, Writers, Fresh
<1>4. /\ NewWriter \in Writers /\ NewWriter.on /\ ~NewWriter.stop
      /\ NewWriter.queue = <<>> /\ NewWriter.batch = <<>>
      /\ NewWriter.current = Fresh
  BY <1>3 DEF NewWriter, Writers
<1>5. QED
  BY <1>1, <1>3, <1>4

LEMMA HandlerQueues ==
  ASSUME TypeOK, NEW d \in Devices, NEW b \in Blocks, StoreLogBag(d, b)
  PROVE  \E w \in Writers : /\ Queued(d, b, w)
                            /\ writer' = [writer EXCEPT ![d] = w]
<1> DEFINE u == IF IsCreate(b) THEN WithHandler(d) ELSE writer[d]
<1>1. writer[d] \in Writers
  BY DEF TypeOK
<1>2. /\ u \in Writers
      /\ \/ u = writer[d]
         \/ ~writer[d].on /\ u = NewWriter
  BY <1>1, NewWriterFacts DEF WithHandler
<1> DEFINE q == Append(u.queue, b)
           w == IF u.on THEN [u EXCEPT !.queue = q] ELSE u
<1>3. writer' = [writer EXCEPT ![d] = w]
  BY DEF StoreLogBag
<1>4. q \in Seq(Blocks)
  BY <1>2, BlockSeqs DEF Writers
<1>5. CASE u.on
  <2>1. w = [u EXCEPT !.queue = q]
    BY <1>5
  <2> HIDE DEF w, q, u
  <2>2. /\ w \in Writers /\ w.on /\ w.stop = u.stop /\ w.queue = q
        /\ w.batch = u.batch /\ w.current = u.current
    BY <1>2, <1>4, <1>5, <2>1 DEF Writers
  <2>3. CASE u = writer[d]
    <3>1. Queued(d, b, w)
      BY <1>5, <2>2, <2>3 DEF Queued, q
    <3>2. QED
      BY <1>3, <2>2, <3>1
  <2>4. CASE ~writer[d].on /\ u = NewWriter
    <3>1. q = <<b>>
      BY <2>4, NewWriterFacts DEF q
    <3>2. Queued(d, b, w)
      BY <1>5, <2>2, <2>4, <3>1, NewWriterFacts DEF Queued
    <3>3. QED
      BY <1>3, <2>2, <3>2
  <2>5. QED
    BY <1>2, <2>3, <2>4
<1>6. CASE ~u.on
  <2>1. w = u
    BY <1>6
  <2>2. u = writer[d]
    BY <1>2, <1>6, NewWriterFacts
  <2> HIDE DEF w, u
  <2>3. Queued(d, b, w) /\ w \in Writers
    BY <1>1, <1>6, <2>1, <2>2 DEF Queued
  <2>4. QED
    BY <1>3, <2>3
<1>7. QED
  BY <1>5, <1>6

\* The handler when the head of its batch has been seen to.
LEMMA ProcessedFacts ==
  ASSUME TypeOK, NEW d \in Devices, writer[d].batch # <<>>, NEW e \in Entries
  PROVE  /\ Processed(d, e) \in Writers
         /\ Processed(d, e).on = writer[d].on
         /\ Processed(d, e).stop = writer[d].stop
         /\ Processed(d, e).queue = writer[d].queue
         /\ Processed(d, e).batch = Tail(writer[d].batch)
         /\ Processed(d, e).current[First(d).type] = e
         /\ \A t \in Types : t # First(d).type =>
              Processed(d, e).current[t] = writer[d].current[t]
<1> DEFINE tl == Tail(writer[d].batch)
           cs == [writer[d].current EXCEPT ![First(d).type] = e]
<1>1. writer[d] \in Writers /\ First(d).type \in Types
  BY FirstIsTyped DEF TypeOK
<1>2. tl \in Seq(Blocks) /\ cs \in [Types -> Entries]
  BY <1>1, BlockSeqs DEF Writers
<1>3. PICK x \in Writers : x = [writer[d] EXCEPT !.batch = tl]
  BY <1>1, <1>2 DEF Writers
<1>4. /\ x.on = writer[d].on /\ x.stop = writer[d].stop /\ x.batch = tl
      /\ x.queue = writer[d].queue /\ x.current = writer[d].current
  BY <1>1, <1>3 DEF Writers
<1>5. Processed(d, e) = [x EXCEPT !.current = cs]
  BY <1>3, <1>4 DEF Processed
<1> HIDE DEF tl, cs
<1>6. /\ Processed(d, e) \in Writers /\ Processed(d, e).on = x.on
      /\ Processed(d, e).stop = x.stop /\ Processed(d, e).queue = x.queue
      /\ Processed(d, e).batch = x.batch /\ Processed(d, e).current = cs
  BY <1>2, <1>5 DEF Writers
<1>7. /\ cs[First(d).type] = e
      /\ \A t \in Types : t # First(d).type => cs[t] = writer[d].current[t]
  BY <1>1 DEF cs, Writers
<1>8. QED
  BY <1>4, <1>6, <1>7 DEF tl

-----------------------------------------------------------------------------
(***************************************************************************)
(* Types.                                                                  *)
(***************************************************************************)
\* Removing a file only marks it.
Removed(i) ==
  /\ disk' \in Seq(LogFiles) /\ DOMAIN disk' = DOMAIN disk
  /\ \A j \in DOMAIN disk : j # i => disk'[j] = disk[j]
  /\ disk'[i].device = disk[i].device /\ disk'[i].type = disk[i].type
  /\ disk'[i].file = disk[i].file /\ disk'[i].second = disk[i].second
  /\ disk'[i].blocks = disk[i].blocks /\ disk'[i].removed

LEMMA RemovedFacts ==
  ASSUME disk \in Seq(LogFiles), NEW i \in DOMAIN disk,
         disk' = [disk EXCEPT ![i].removed = TRUE]
  PROVE  Removed(i)
<1>1. DOMAIN disk = 1..Len(disk) /\ disk[i] \in LogFiles
  BY LenProperties, ElementOfSeq
<1> DEFINE e == [disk[i] EXCEPT !.removed = TRUE]
<1>2. /\ e \in LogFiles /\ e.device = disk[i].device
      /\ e.type = disk[i].type /\ e.file = disk[i].file
      /\ e.second = disk[i].second /\ e.blocks = disk[i].blocks /\ e.removed
  BY <1>1 DEF LogFiles
<1>3. disk' = [disk EXCEPT ![i] = e] /\ e \in LogFiles
  BY <1>2
<1> HIDE DEF e
<1>4. /\ disk' \in Seq(LogFiles) /\ Len(disk') = Len(disk) /\ disk'[i] = e
      /\ \A j \in 1..Len(disk) : j # i => disk'[j] = disk[j]
  <2>1. i \in 1..Len(disk) /\ disk \in Seq(LogFiles)
    BY <1>1
  <2>2. QED
    BY ONLY <1>3, <2>1, ExceptSeq
<1>5. QED
  BY <1>1, <1>2, <1>4, LenProperties DEF Removed

\* The device goes on to a block of this file or of the next.
LEMMA FollowingTyped ==
  ASSUME TypeOK, NEW d \in Devices, NEW t \in Types,
         sending[d][t].file <= MaxFiles
  PROVE  /\ Current(d, t) \in Blocks
         /\ [sending EXCEPT ![d][t] = Following(@)]
              \in [Devices -> [Types -> Places]]
<1>1. /\ sending[d][t] \in Places /\ sending[d] \in [Types -> Places]
      /\ sending \in [Devices -> [Types -> Places]]
  BY DEF TypeOK
<1>2. sending[d][t].file \in 1..MaxFiles /\ sending[d][t].trans \in 0..LastBlock
  BY <1>1, DeviceLogsAssumption DEF Places
<1>3. Current(d, t) \in Blocks
  BY <1>2 DEF Current, Blocks
<1>4. Following(sending[d][t]) \in Places
  <2> DEFINE s == sending[d][t]
  <2>1. CASE s.trans = LastBlock
    BY <1>2, <2>1, DeviceLogsAssumption DEF Following, Places
  <2>2. CASE s.trans # LastBlock
    <3>1. Following(s) = [s EXCEPT !.trans = @ + 1]
      BY <2>2 DEF Following
    <3>2. s.trans + 1 \in 0..LastBlock
      BY <1>2, <2>2, DeviceLogsAssumption
    <3> HIDE DEF s
    <3>3. [s EXCEPT !.trans = @ + 1] \in Places
      BY <1>1, <3>2 DEF Places, s
    <3>4. QED
      BY <3>1, <3>3 DEF s
  <2>3. QED
    BY <2>1, <2>2
<1>5. QED
  BY <1>1, <1>3, <1>4

\* Handler leaves handlers and acknowledged blocks.
LEMMA HandleTyped ==
  ASSUME TypeOK, NEW d \in Devices, NEW b \in Blocks, NEW asks,
         Handle(d, b, asks)
  PROVE  /\ writer' \in [Devices -> Writers] /\ cond' \in BOOLEAN
         /\ acked' \in [Devices -> SUBSET Blocks]
<1>1. CASE enabled
  <2>1. StoreLogBag(d, b)
    BY <1>1 DEF Handle
  <2>2. writer' \in [Devices -> Writers]
    BY <2>1, HandlerQueues DEF TypeOK
  <2>3. cond' \in BOOLEAN
    BY <2>1 DEF StoreLogBag, TypeOK
  <2>4. acked' \in [Devices -> SUBSET Blocks]
    BY <1>1 DEF Handle, TypeOK
  <2>5. QED
    BY <2>2, <2>3, <2>4
<1>2. CASE ~enabled
  BY <1>2 DEF Handle, TypeOK
<1>3. QED
  BY <1>1, <1>2

LEMMA TypesAtInit == Init => TypeOK /\ CleanerRecord
<1> SUFFICES ASSUME Init PROVE TypeOK /\ CleanerRecord
  OBVIOUS
<1>1. writer \in [Devices -> Writers]
  BY NewWriterFacts DEF Init
<1>2. sending \in [Devices -> [Types -> Places]]
  BY DeviceLogsAssumption DEF Init, Places
<1>3. disk \in Seq(LogFiles) /\ acked \in [Devices -> SUBSET Blocks]
  BY DEF Init
<1>4. QED
  BY <1>1, <1>2, <1>3 DEF Init, TypeOK, CleanerRecord, Idle

\* A step on the handlers alone.
LEMMA WritersTyped ==
  ASSUME TypeOK, NEW d \in Devices,
         StartLogger(d) \/ Take(d) \/ StopWriter(d) \/ JoinWriter(d)
  PROVE  writer' \in [Devices -> Writers] /\ acked' \in [Devices -> SUBSET Blocks]
<1>1. writer \in [Devices -> Writers] /\ writer[d] \in Writers
  BY DEF TypeOK
<1>2. CASE StartLogger(d)
  BY <1>1, <1>2, NewWriterFacts DEF StartLogger, WithHandler, TypeOK
<1>3. CASE Take(d)
  <2> DEFINE q == writer[d].queue
  <2>1. q \in Seq(Blocks) /\ <<>> \in Seq(Blocks)
    BY <1>1 DEF Writers
  <2>2. PICK x \in Writers : x = [writer[d] EXCEPT !.batch = q]
    BY <1>1, <2>1 DEF Writers
  <2>3. Swap(writer[d]) = [x EXCEPT !.queue = <<>>]
    BY <2>2 DEF Swap
  <2>4. Swap(writer[d]) \in Writers
    BY <2>1, <2>3 DEF Writers
  <2>5. writer' = [writer EXCEPT ![d] = Swap(writer[d])]
    BY <1>3 DEF Take
  <2>6. acked' = acked
    BY <1>3 DEF Take
  <2>7. QED
    BY <1>1, <2>4, <2>5, <2>6 DEF TypeOK
<1>4. CASE StopWriter(d)
  <2>1. [writer[d] EXCEPT !.stop = TRUE] \in Writers
    BY <1>1 DEF Writers
  <2>2. writer' = [writer EXCEPT ![d] = [writer[d] EXCEPT !.stop = TRUE]]
    BY <1>4 DEF StopWriter
  <2>3. QED
    BY <1>1, <1>4, <2>1, <2>2 DEF StopWriter, TypeOK
<1>5. CASE JoinWriter(d)
  BY <1>1, <1>5, NewWriterFacts DEF JoinWriter, TypeOK
<1>6. QED
  BY <1>2, <1>3, <1>4, <1>5

\* The thread of CycleDelete, field by field.
CleanerIs(at, enable, dirs, todo, listed) ==
  cleaner' = [ at |-> at, enable |-> enable, dirs |-> dirs, todo |-> todo,
               listed |-> listed ]

LEMMA CleanerSteps ==
  ASSUME CleanerRecord
  PROVE  LET c == cleaner IN
         /\ \A x : Wake(x) =>
              CleanerIs("round", c.enable, Dirs, c.todo, c.listed)
         /\ GetFileNames =>
              CleanerIs(c.at, c.enable, c.dirs, Files(Head(c.dirs)), TRUE)
         /\ RemoveOldest => \E i \in Oldest(c.todo) :
              /\ disk' = [disk EXCEPT ![i].removed = TRUE]
              /\ CleanerIs(c.at, c.enable, c.dirs, c.todo \ {i}, c.listed)
         /\ NextDir => CleanerIs(c.at, c.enable, Tail(c.dirs), {}, FALSE)
         /\ EndRound =>
              CleanerIs("checking", c.enable, c.dirs, c.todo, c.listed)
         /\ CheckEnable => \E a \in {"waiting", "off"} :
              CleanerIs(a, c.enable, c.dirs, c.todo, c.listed)
         /\ RequestQuit => \E e \in {FALSE, c.enable} :
              CleanerIs(c.at, e, c.dirs, c.todo, c.listed)
         /\ \A o : InitManager(o) =>
              \/ cleaner' = cleaner
              \/ CleanerIs("checking", TRUE, <<>>, {}, FALSE)
<1> DEFINE c == cleaner
<1> USE DEF CleanerRecord, CleanerIs
<1>1. ASSUME NEW x, Wake(x)
      PROVE  CleanerIs("round", c.enable, Dirs, c.todo, c.listed)
  BY <1>1 DEF Wake
<1>2. GetFileNames =>
        CleanerIs(c.at, c.enable, c.dirs, Files(Head(c.dirs)), TRUE)
  BY DEF GetFileNames
<1>3. ASSUME RemoveOldest
      PROVE  \E i \in Oldest(c.todo) :
               /\ disk' = [disk EXCEPT ![i].removed = TRUE]
               /\ CleanerIs(c.at, c.enable, c.dirs, c.todo \ {i}, c.listed)
  BY <1>3 DEF RemoveOldest
<1>4. NextDir => CleanerIs(c.at, c.enable, Tail(c.dirs), {}, FALSE)
  BY DEF NextDir
<1>5. EndRound => CleanerIs("checking", c.enable, c.dirs, c.todo, c.listed)
  BY DEF EndRound
<1>6. CheckEnable => \E a \in {"waiting", "off"} :
        CleanerIs(a, c.enable, c.dirs, c.todo, c.listed)
  BY DEF CheckEnable
<1>7. RequestQuit => \E e \in {FALSE, c.enable} :
        CleanerIs(c.at, e, c.dirs, c.todo, c.listed)
  BY DEF RequestQuit, QuitStep
<1>8. ASSUME NEW o, InitManager(o)
      PROVE  \/ cleaner' = cleaner
             \/ CleanerIs("checking", TRUE, <<>>, {}, FALSE)
  BY <1>8 DEF InitManager, Idle
<1>9. QED
  BY <1>1, <1>2, <1>3, <1>4, <1>5, <1>6, <1>7, <1>8

LEMMA CleanerFields ==
  ASSUME NEW a, NEW e, NEW ds, NEW td, NEW l, CleanerIs(a, e, ds, td, l)
  PROVE  /\ CleanerRecord' /\ cleaner'.at = a /\ cleaner'.enable = e
         /\ cleaner'.dirs = ds /\ cleaner'.todo = td /\ cleaner'.listed = l
BY DEF CleanerIs, CleanerRecord

\* The files that are there never get fewer.
FilesStay == disk' \in Seq(LogFiles) /\ DOMAIN disk \subseteq DOMAIN disk'

CleanerTyped ==
  /\ cleaner.at \in {"off", "checking", "waiting", "round"}
  /\ cleaner.enable \in BOOLEAN /\ cleaner.listed \in BOOLEAN
  /\ cleaner.todo \subseteq DOMAIN disk

LEMMA CleanerKept ==
  ASSUME TypeOK, CleanerRecord, FilesStay, cleaner' = cleaner
  PROVE  CleanerRecord' /\ CleanerTyped'
BY DEF TypeOK, CleanerRecord, CleanerTyped, FilesStay

LEMMA CycleTyped ==
  ASSUME TypeOK, CleanerRecord, CycleDelete \/ Wake(TRUE)
  PROVE  /\ CleanerRecord' /\ CleanerTyped' /\ FilesStay
         /\ cleaner.at # "off"
<1> DEFINE c == cleaner
<1>1. /\ disk \in Seq(LogFiles) /\ c.todo \subseteq DOMAIN disk
      /\ c.at \in {"off", "checking", "waiting", "round"}
      /\ c.enable \in BOOLEAN /\ c.listed \in BOOLEAN
  BY DEF TypeOK
<1>2. CASE Wake(TRUE) \/ Wake(FALSE)
  <2>1. CleanerIs("round", c.enable, Dirs, c.todo, c.listed)
    BY <1>2, CleanerSteps
  <2>2. disk' = disk /\ c.at = "waiting"
    BY <1>2 DEF Wake
  <2>3. QED
    BY <1>1, <2>1, <2>2, CleanerFields DEF CleanerTyped, FilesStay
<1>3. CASE EndRound
  <2>1. CleanerIs("checking", c.enable, c.dirs, c.todo, c.listed)
    BY <1>3, CleanerSteps
  <2>2. disk' = disk /\ c.at = "round"
    BY <1>3 DEF EndRound
  <2>3. QED
    BY <1>1, <2>1, <2>2, CleanerFields DEF CleanerTyped, FilesStay
<1>4. CASE CheckEnable
  <2>1. PICK a \in {"waiting", "off"} :
          CleanerIs(a, c.enable, c.dirs, c.todo, c.listed)
    BY <1>4, CleanerSteps
  <2>2. disk' = disk /\ c.at = "checking"
    BY <1>4 DEF CheckEnable
  <2>3. QED
    BY <1>1, <2>1, <2>2, CleanerFields DEF CleanerTyped, FilesStay
<1>5. CASE GetFileNames
  <2>1. CleanerIs(c.at, c.enable, c.dirs, Files(Head(c.dirs)), TRUE)
    BY <1>5, CleanerSteps
  <2>2. disk' = disk /\ c.at = "round"
    BY <1>5 DEF GetFileNames, InRound
  <2>3. Files(Head(c.dirs)) \subseteq DOMAIN disk
    BY DEF Files
  <2>4. QED
    BY <1>1, <2>1, <2>2, <2>3, CleanerFields DEF CleanerTyped, FilesStay
<1>6. CASE RemoveOldest
  <2>1. PICK i \in Oldest(c.todo) :
          /\ disk' = [disk EXCEPT ![i].removed = TRUE]
          /\ CleanerIs(c.at, c.enable, c.dirs, c.todo \ {i}, c.listed)
    BY <1>6, CleanerSteps
  <2>2. i \in DOMAIN disk /\ c.at = "round"
    BY <1>1, <1>6, <2>1 DEF Oldest, RemoveOldest, InRound
  <2>3. disk' \in Seq(LogFiles) /\ DOMAIN disk' = DOMAIN disk
    BY <1>1, <2>1, <2>2, RemovedFacts DEF Removed
  <2>4. QED
    BY <1>1, <2>1, <2>2, <2>3, CleanerFields DEF CleanerTyped, FilesStay
<1>7. CASE NextDir
  <2>1. CleanerIs(c.at, c.enable, Tail(c.dirs), {}, FALSE)
    BY <1>7, CleanerSteps
  <2>2. disk' = disk /\ c.at = "round"
    BY <1>7 DEF NextDir, InRound
  <2>3. /\ CleanerRecord' /\ cleaner'.at = c.at /\ cleaner'.enable = c.enable
        /\ cleaner'.todo = {} /\ ~cleaner'.listed /\ cleaner'.listed \in BOOLEAN
    BY <2>1 DEF CleanerIs, CleanerRecord
  <2>4. QED
    BY <1>1, <2>2, <2>3 DEF CleanerTyped, FilesStay
<1>8. QED
  BY <1>2, <1>3, <1>4, <1>5, <1>6, <1>7 DEF CycleDelete

\* Process adds to the files, if it changes them.
LEMMA OutcomeGrows ==
  ASSUME TypeOK, NEW d \in Devices, NEW e \in Entries, Outcomed(d, e)
  PROVE  /\ faults' \in {faults, faults + 1}
         /\ disk' = disk \/ \E i \in Nat : Stored(d, e, i)
         /\ disk' \in Seq(LogFiles) /\ DOMAIN disk \subseteq DOMAIN disk'
<1>1. disk \in Seq(LogFiles)
  BY DEF TypeOK
<1>2. CASE \E i \in Nat : Stored(d, e, i)
  BY <1>2 DEF Stored, Grown
<1>3. CASE Skipped(d, e) \/ NotMade(d, e) \/ Ended(d, e) \/ Unopened(d, e)
  BY <1>1, <1>3 DEF Skipped, NotMade, Ended, Unopened
<1>4. QED
  BY <1>2, <1>3 DEF Outcomed

LEMMA TypesKept ==
  ASSUME Base, CleanerRecord, [Next]_vars
  PROVE  TypeOK' /\ CleanerRecord'
<1> USE DEF Base
<1>1. /\ phase \in {"down", "up", "quit", "join", "handlers"}
      /\ enabled \in BOOLEAN /\ cond \in BOOLEAN /\ known \subseteq Devices
      /\ writer \in [Devices -> Writers] /\ disk \in Seq(LogFiles)
      /\ sending \in [Devices -> [Types -> Places]]
      /\ acked \in [Devices -> SUBSET Blocks]
      /\ faults \in Nat /\ repeats \in Nat /\ sessions \in Nat
      /\ CleanerTyped
      /\ phase \in {"down", "handlers"} => cleaner.at = "off"
  BY DEF TypeOK, CleanerTyped
<1>2. CASE UNCHANGED vars
  BY <1>2 DEF vars, manager, luck, TypeOK, CleanerRecord
<1>3. ASSUME NEW o \in Outcomes, InitManager(o)
      PROVE  TypeOK' /\ CleanerRecord'
  <2>1. disk' = disk /\ phase' = "up"
    BY <1>3 DEF InitManager
  <2>2. CleanerRecord' /\ CleanerTyped'
    <3>1. CASE cleaner' = cleaner
      BY <1>1, <2>1, <3>1, CleanerKept DEF FilesStay
    <3>2. CASE CleanerIs("checking", TRUE, <<>>, {}, FALSE)
      <4>1. /\ CleanerRecord' /\ cleaner'.at = "checking" /\ cleaner'.todo = {}
            /\ cleaner'.enable \in BOOLEAN /\ cleaner'.listed \in BOOLEAN
        BY <3>2 DEF CleanerIs, CleanerRecord
      <4>2. QED
        BY <4>1 DEF CleanerTyped
    <3>3. QED
      BY <1>3, <3>1, <3>2, CleanerSteps
  <2>3. /\ enabled' \in BOOLEAN /\ sessions' \in Nat
        /\ UNCHANGED <<known, writer, disk, cond, sending, acked, luck>>
    BY <1>1, <1>3 DEF InitManager
  <2>4. QED
    BY <1>1, <2>1, <2>2, <2>3 DEF luck, TypeOK, CleanerTyped
<1>4. ASSUME NEW d \in Devices, AddDevice(d)
      PROVE  TypeOK' /\ CleanerRecord'
  BY <1>1, <1>4 DEF AddDevice, luck, TypeOK, CleanerRecord, CleanerTyped
<1>5. ASSUME NEW d \in Devices,
             StartLogger(d) \/ Take(d) \/ StopWriter(d) \/ JoinWriter(d)
      PROVE  TypeOK' /\ CleanerRecord'
  <2>1. writer' \in [Devices -> Writers] /\ acked' \in [Devices -> SUBSET Blocks]
    BY <1>5, WritersTyped
  <2>2. UNCHANGED <<manager, disk, cleaner, cond, sending, luck>>
    BY <1>5 DEF StartLogger, Take, StopWriter, JoinWriter
  <2>3. QED
    BY <1>1, <2>1, <2>2
       DEF manager, luck, TypeOK, CleanerRecord, CleanerTyped
<1>6. ASSUME NEW d \in Devices, NEW t \in Types, NEW x \in BOOLEAN,
             Push(d, t, x)
      PROVE  TypeOK' /\ CleanerRecord'
  <2>1. /\ Current(d, t) \in Blocks
        /\ [sending EXCEPT ![d][t] = Following(@)]
             \in [Devices -> [Types -> Places]]
    BY <1>6, FollowingTyped DEF Push
  <2>2. /\ writer' \in [Devices -> Writers] /\ cond' \in BOOLEAN
        /\ acked' \in [Devices -> SUBSET Blocks]
    BY <1>6, <2>1, HandleTyped DEF Push
  <2>3. sending' \in [Devices -> [Types -> Places]]
    BY <1>1, <1>6, <2>1 DEF Push
  <2>4. repeats' \in Nat /\ UNCHANGED <<manager, disk, cleaner, faults>>
    BY <1>1, <1>6 DEF Push
  <2>5. QED
    BY <1>1, <2>2, <2>3, <2>4 DEF manager, TypeOK, CleanerRecord, CleanerTyped
<1>7. ASSUME NEW d \in Devices, NEW t \in Types, LoseBlock(d, t)
      PROVE  TypeOK' /\ CleanerRecord'
  <2>1. sending' \in [Devices -> [Types -> Places]]
    BY <1>7, FollowingTyped DEF LoseBlock
  <2>2. faults' \in Nat
    BY <1>1, <1>7 DEF LoseBlock
  <2>3. UNCHANGED <<manager, writer, disk, cleaner, cond, acked, repeats>>
    BY <1>7 DEF LoseBlock
  <2>4. QED
    BY <1>1, <2>1, <2>2, <2>3 DEF manager, TypeOK, CleanerRecord, CleanerTyped
<1>8. ASSUME NEW d \in Devices, NEW b \in Blocks, PushLate(d, b)
      PROVE  TypeOK' /\ CleanerRecord'
  <2>1. /\ writer' \in [Devices -> Writers] /\ cond' \in BOOLEAN
        /\ acked' \in [Devices -> SUBSET Blocks]
    BY <1>8, HandleTyped DEF PushLate
  <2>2. faults' \in Nat /\ UNCHANGED <<manager, disk, cleaner, sending, repeats>>
    BY <1>1, <1>8 DEF PushLate
  <2>3. QED
    BY <1>1, <2>1, <2>2 DEF manager, TypeOK, CleanerRecord, CleanerTyped
<1>9. ASSUME NEW d \in Devices, Process(d)
      PROVE  TypeOK' /\ CleanerRecord'
  <2>1. PICK e \in Entries :
          /\ writer[d].batch # <<>> /\ Outcomed(d, e)
          /\ writer' = [writer EXCEPT ![d] = Processed(d, e)]
    BY <1>9, ProcessCases
  <2>2. writer' \in [Devices -> Writers]
    BY <1>1, <2>1, ProcessedFacts
  <2>3. faults' \in Nat /\ FilesStay
    BY <1>1, <2>1, OutcomeGrows DEF FilesStay
  <2>4. UNCHANGED <<manager, cleaner, cond, sending, acked, repeats>>
    BY <1>9 DEF Process
  <2>5. CleanerRecord' /\ CleanerTyped'
    BY <2>3, <2>4, CleanerKept
  <2>6. QED
    BY <1>1, <2>2, <2>3, <2>4, <2>5 DEF manager, TypeOK, CleanerTyped, FilesStay
<1>10. CASE CycleDelete \/ Wake(TRUE)
  <2>1. /\ CleanerRecord' /\ CleanerTyped' /\ FilesStay
        /\ phase \notin {"down", "handlers"}
    BY <1>1, <1>10, CycleTyped
  <2>2. /\ UNCHANGED <<manager, writer, sending, acked, luck>>
        /\ cond' \in BOOLEAN
    BY <1>1, <1>10 DEF CycleDelete, Wake, EndRound, CheckEnable
  <2>3. QED
    BY <1>1, <2>1, <2>2 DEF manager, luck, TypeOK, CleanerTyped, FilesStay
<1>11. CASE RequestQuit
  <2>1. PICK e \in {FALSE, cleaner.enable} :
          CleanerIs(cleaner.at, e, cleaner.dirs, cleaner.todo, cleaner.listed)
    BY <1>11, CleanerSteps
  <2>2. /\ UNCHANGED <<enabled, sessions, known, writer, disk, sending, acked,
                       luck>>
        /\ cond' \in BOOLEAN /\ phase' \in {"quit", "join"}
    BY <1>1, <1>11 DEF RequestQuit, QuitStep
  <2>3. /\ CleanerRecord' /\ cleaner'.at = cleaner.at
        /\ cleaner'.enable \in BOOLEAN /\ cleaner'.listed = cleaner.listed
        /\ cleaner'.todo = cleaner.todo
    BY <1>1, <2>1 DEF CleanerIs, CleanerRecord, CleanerTyped
  <2>4. CleanerTyped'
    BY <1>1, <2>2, <2>3 DEF CleanerTyped
  <2>5. QED
    BY <1>1, <2>2, <2>3, <2>4 DEF luck, TypeOK, CleanerTyped
<1>12. CASE JoinCleaner \/ EndDestory
  BY <1>1, <1>12 DEF JoinCleaner, EndDestory, luck, TypeOK, CleanerRecord,
                     CleanerTyped
<1>13. QED
  BY <1>2, <1>3, <1>4, <1>5, <1>6, <1>7, <1>8, <1>9, <1>10, <1>11, <1>12
     DEF Next, Stopping

-----------------------------------------------------------------------------
(***************************************************************************)
(* What a file holds.  A block that does not create its file is written    *)
(* only if the entry has not passed it, and the entry has not been passed  *)
(* by the file (EntryOK).                                                  *)
(***************************************************************************)
SameFiles ==
  /\ DOMAIN disk' = DOMAIN disk
  /\ \A i \in DOMAIN disk :
       /\ disk'[i].device = disk[i].device /\ disk'[i].type = disk[i].type
       /\ disk'[i].file = disk[i].file /\ disk'[i].second = disk[i].second
       /\ disk'[i].blocks = disk[i].blocks

EntriesCloseOnly ==
  \A d \in Devices, t \in Types :
    \/ writer'[d].current[t] = writer[d].current[t]
    \/ writer'[d].current[t].fp = NoFile

LEMMA ContentsStay ==
  ASSUME Base, InOrder, SameFiles, EntriesCloseOnly
  PROVE  EntryOK' /\ InOrder'
<1>1. EntryOK'
  <2> SUFFICES ASSUME NEW d \in Devices, NEW t \in Types,
                      writer'[d].current[t].fp # NoFile
               PROVE  LET c == writer'[d].current[t] IN
                      /\ c.fp \in DOMAIN disk'
                      /\ disk'[c.fp].device = d /\ disk'[c.fp].type = t
                      /\ disk'[c.fp].file = c.file
                      /\ disk'[c.fp].blocks[Len(disk'[c.fp].blocks)].trans
                           <= c.trans
    BY DEF EntryOK
  <2>1. writer'[d].current[t] = writer[d].current[t]
    BY DEF EntriesCloseOnly
  <2>2. QED
    BY <2>1 DEF EntryOK, Base, SameFiles
<1>2. InOrder'
  BY DEF InOrder, SameFiles
<1>3. QED
  BY <1>1, <1>2

LEMMA StoredInOrder ==
  ASSUME Base, InOrder, NEW d \in Devices, writer[d].batch # <<>>,
         NEW e \in Entries, NEW i \in Nat, Stored(d, e, i)
  PROVE  InOrder'
<1> DEFINE b == First(d)
<1>1. b \in Blocks /\ b.type \in Types
  BY FirstIsTyped DEF Base
<1>2. /\ DOMAIN disk' = DOMAIN disk \cup {i} /\ disk \in Seq(LogFiles)
      /\ DOMAIN disk = 1..Len(disk)
      /\ \A j \in DOMAIN disk : j # i => disk'[j] = disk[j]
      /\ disk'[i].type = b.type /\ disk'[i].file = b.file
  BY LenProperties DEF Stored, Grown, Base, TypeOK
<1> SUFFICES ASSUME NEW j \in DOMAIN disk', NEW k \in DOMAIN disk'[j].blocks
             PROVE  LET bs == disk'[j].blocks IN
                    /\ bs[k].file = disk'[j].file /\ bs[k].type = disk'[j].type
                    /\ k > 1 /\ ~IsCreate(bs[k]) =>
                         bs[k - 1].trans <= bs[k].trans
  BY DEF InOrder
<1>3. CASE j # i
  BY <1>2, <1>3 DEF InOrder
<1>4. CASE j = i /\ i \notin DOMAIN disk
  <2>1. disk'[j].blocks = <<b>>
    BY <1>4 DEF Stored, Grown
  <2>2. k = 1 /\ disk'[j].blocks[k] = b
    BY <2>1
  <2>3. QED
    BY <1>2, <1>4, <2>2
<1>5. CASE j = i /\ i \in DOMAIN disk
  <2> DEFINE bs == disk[i].blocks
  <2>1. bs \in Seq(Blocks)
    BY <1>2, <1>5, FilesTyped
  <2>2. /\ disk'[j].blocks = Append(bs, b)
        /\ disk'[j].type = disk[i].type /\ disk'[j].file = disk[i].file
    <3>1. disk'[j].blocks = Append(bs, b)
      BY <1>5 DEF Stored, Grown
    <3>2. disk[i].type = b.type /\ disk[i].file = b.file
      BY <1>5 DEF Stored, Grown
    <3>3. QED
      BY <1>2, <1>5, <3>1, <3>2
  <2> HIDE DEF bs
  <2>3. /\ Len(bs) \in Nat /\ DOMAIN bs = 1..Len(bs)
        /\ DOMAIN disk'[j].blocks = 1..(Len(bs) + 1)
        /\ disk'[j].blocks[Len(bs) + 1] = b
        /\ \A l \in 1..Len(bs) : disk'[j].blocks[l] = bs[l]
    <3> DEFINE as == Append(bs, b)
    <3>1. /\ as \in Seq(Blocks) /\ Len(as) = Len(bs) + 1
          /\ as[Len(bs) + 1] = b /\ \A l \in 1..Len(bs) : as[l] = bs[l]
      BY <1>1, <2>1, BlockSeqs
    <3> HIDE DEF as
    <3>2. DOMAIN as = 1..(Len(bs) + 1)
      BY <3>1, BlockSeqs
    <3>3. QED
      BY <2>1, <2>2, <3>1, <3>2, BlockSeqs DEF as
  <2>4. CASE k = Len(bs) + 1
    <3>1. SUFFICES ASSUME k > 1, ~IsCreate(b)
                   PROVE  bs[k - 1].trans <= b.trans
      BY <1>2, <1>5, <2>3, <2>4
    <3>2. /\ i = Entry(d).fp /\ Entry(d).trans <= b.trans /\ i # NoFile
      BY <3>1 DEF Stored
    <3>3. bs[Len(bs)].trans <= Entry(d).trans
      BY <1>1, <3>2 DEF Base, EntryOK, Entry, bs
    <3>4. /\ bs[Len(bs)].trans \in Nat /\ Entry(d).trans \in Nat
          /\ b.trans \in Nat
      <4>1. Len(bs) \in 1..Len(bs)
        BY <2>3, <2>4, <3>1
      <4>2. bs[Len(bs)] \in Blocks
        BY <2>1, <4>1, ElementOfSeq
      <4>3. \A x \in Blocks : x.trans \in Nat
        BY DeviceLogsAssumption DEF Blocks, Block
      <4>4. Entry(d) \in Entries
        BY FirstIsTyped DEF Base
      <4>5. QED
        BY <1>1, <4>2, <4>3, <4>4, DeviceLogsAssumption DEF Entries
    <3>5. QED
      BY <2>3, <2>4, <3>2, <3>3, <3>4
  <2>5. CASE k \in 1..Len(bs)
    <3>1. /\ bs[k].file = disk[i].file /\ bs[k].type = disk[i].type
          /\ k > 1 /\ ~IsCreate(bs[k]) => bs[k - 1].trans <= bs[k].trans
      BY <1>5, <2>3, <2>5 DEF InOrder, bs
    <3>2. k > 1 => k - 1 \in 1..Len(bs)
      BY <2>3, <2>5
    <3>3. QED
      BY <2>2, <2>3, <2>5, <3>1, <3>2
  <2>6. QED
    BY <2>3, <2>4, <2>5
<1>6. QED
  BY <1>3, <1>4, <1>5, <1>2

\* The entry of the block is set to e, and no other entry changes.
EntrySet(d, e) ==
  /\ writer'[d].current[First(d).type] = e
  /\ \A x \in Devices, t \in Types :
       x # d \/ t # First(d).type =>
         writer'[x].current[t] = writer[x].current[t]

LEMMA ProcessSetsEntry ==
  ASSUME TypeOK, NEW d \in Devices, writer[d].batch # <<>>, NEW e \in Entries,
         writer' = [writer EXCEPT ![d] = Processed(d, e)]
  PROVE  EntrySet(d, e)
<1>1. /\ writer'[d] = Processed(d, e)
      /\ \A x \in Devices : x # d => writer'[x] = writer[x]
  BY DEF TypeOK
<1>2. QED
  BY <1>1, ProcessedFacts DEF EntrySet

LEMMA StoredEntries ==
  ASSUME Base, NEW d \in Devices, writer[d].batch # <<>>,
         NEW e \in Entries, NEW i \in Nat, Stored(d, e, i), EntrySet(d, e)
  PROVE  EntryOK'
<1> DEFINE b == First(d)
<1>1. b \in Blocks /\ b.type \in Types /\ b.trans \in 0..LastBlock
  BY FirstIsTyped DEF Base
<1>2. Grown(i, d, b) /\ e = Opened(b, i) /\ i \in DOMAIN disk'
  BY DEF Stored, Grown
<1> SUFFICES ASSUME NEW x \in Devices, NEW t \in Types,
                    writer'[x].current[t].fp # NoFile
             PROVE  LET c == writer'[x].current[t] IN
                    /\ c.fp \in DOMAIN disk'
                    /\ disk'[c.fp].device = x /\ disk'[c.fp].type = t
                    /\ disk'[c.fp].file = c.file
                    /\ disk'[c.fp].blocks[Len(disk'[c.fp].blocks)].trans
                         <= c.trans
  BY DEF EntryOK
<1>3. CASE x = d /\ t = b.type
  <2>1. writer'[x].current[t] = e
    BY <1>3 DEF EntrySet
  <2>2. e.fp = i /\ e.file = b.file /\ e.trans = b.trans
    BY <1>2 DEF Opened
  <2>3. /\ disk'[i].device = d /\ disk'[i].type = b.type
        /\ disk'[i].file = b.file
    BY <1>2 DEF Grown
  <2>4. disk'[i].blocks[Len(disk'[i].blocks)] = b
    <3>1. CASE i \in DOMAIN disk
      <4>1. disk[i].blocks \in Seq(Blocks)
        BY <3>1, FilesTyped DEF Base, TypeOK
      <4>2. disk'[i].blocks = Append(disk[i].blocks, b)
        BY <1>2, <3>1 DEF Grown
      <4>3. QED
        BY <1>1, <4>1, <4>2, BlockSeqs
    <3>2. CASE i \notin DOMAIN disk
      <4>1. disk'[i].blocks = <<b>>
        BY <1>2, <3>2 DEF Grown
      <4>2. QED
        BY <4>1
    <3>3. QED
      BY <3>1, <3>2
  <2>5. b.trans <= b.trans
    BY <1>1, DeviceLogsAssumption
  <2>6. QED
    BY <1>2, <1>3, <2>1, <2>2, <2>3, <2>4, <2>5
<1>4. CASE ~(x = d /\ t = b.type)
  <2> DEFINE c == writer[x].current[t]
  <2>1. writer'[x].current[t] = c
    BY <1>1, <1>4 DEF EntrySet
  <2> HIDE DEF c
  <2>2. /\ c.fp # NoFile /\ c.fp \in DOMAIN disk
        /\ disk[c.fp].device = x /\ disk[c.fp].type = t
        /\ disk[c.fp].file = c.file
        /\ disk[c.fp].blocks[Len(disk[c.fp].blocks)].trans <= c.trans
    BY <2>1 DEF Base, EntryOK, c
  <2>3. c.fp # i
    BY <1>2, <1>4, <2>2 DEF Grown
  <2>4. c.fp \in DOMAIN disk' /\ disk'[c.fp] = disk[c.fp]
    BY <1>2, <2>2, <2>3 DEF Grown
  <2>5. QED
    BY <2>1, <2>2, <2>4
<1>5. QED
  BY <1>3, <1>4

LEMMA ProcessContents ==
  ASSUME Base, InOrder, NEW d \in Devices, Process(d)
  PROVE  EntryOK' /\ InOrder'
<1>1. PICK e \in Entries :
        /\ writer[d].batch # <<>> /\ Outcomed(d, e) /\ EntrySet(d, e)
  BY ProcessCases, ProcessSetsEntry DEF Base
<1>2. CASE \E i \in Nat : Stored(d, e, i)
  BY <1>1, <1>2, StoredEntries, StoredInOrder
<1>3. CASE Skipped(d, e) \/ NotMade(d, e) \/ Ended(d, e) \/ Unopened(d, e)
  <2>1. disk' = disk
    BY <1>3 DEF Skipped, NotMade, Ended, Unopened
  <2>2. e = Entry(d) \/ e.fp = NoFile
    BY <1>3 DEF Skipped, NotMade, Ended, Unopened, Opened
  <2>3. EntriesCloseOnly
    BY <1>1, <2>2 DEF EntriesCloseOnly, Entry, EntrySet
  <2>4. SameFiles
    BY <2>1 DEF SameFiles
  <2>5. QED
    BY <2>3, <2>4, ContentsStay
<1>4. QED
  BY <1>1, <1>2, <1>3 DEF Outcomed

\* The other steps leave the blocks of every file, and close entries at most.
LEMMA OthersKeepContents ==
  ASSUME Base, [Next]_vars, ~\E d \in Devices : Process(d)
  PROVE  SameFiles /\ EntriesCloseOnly
<1>1. writer \in [Devices -> Writers]
  BY DEF Base, TypeOK
<1>2. ASSUME disk' = disk, writer' = writer
      PROVE  SameFiles /\ EntriesCloseOnly
  BY <1>2 DEF SameFiles, EntriesCloseOnly
<1>3. ASSUME NEW d \in Devices, NEW w \in Writers, disk' = disk,
             writer' = [writer EXCEPT ![d] = w],
             w.current = writer[d].current \/ w.current = Fresh
      PROVE  SameFiles /\ EntriesCloseOnly
  <2>1. \A t \in Types : Fresh[t].fp = NoFile
    BY DEF Fresh, NotOpen
  <2>2. QED
    BY <1>1, <1>3, <2>1 DEF SameFiles, EntriesCloseOnly
<1>4. CASE UNCHANGED vars
  BY <1>2, <1>4 DEF vars
<1>5. ASSUME NEW d \in Devices, NEW b \in Blocks, NEW asks,
             Handle(d, b, asks), disk' = disk
      PROVE  SameFiles /\ EntriesCloseOnly
  <2>1. CASE enabled
    <3>1. PICK w \in Writers : /\ Queued(d, b, w)
                               /\ writer' = [writer EXCEPT ![d] = w]
      BY <1>5, <2>1, HandlerQueues DEF Handle, Base
    <3>2. QED
      BY <1>3, <1>5, <3>1 DEF Queued
  <2>2. CASE ~enabled
    BY <1>2, <1>5, <2>2 DEF Handle
  <2>3. QED
    BY <2>1, <2>2
<1>6. ASSUME NEW d \in Devices, NEW t \in Types, NEW x \in BOOLEAN,
             Push(d, t, x)
      PROVE  SameFiles /\ EntriesCloseOnly
  <2>1. Current(d, t) \in Blocks
    BY <1>6, FollowingTyped DEF Push, Base
  <2>2. QED
    BY <1>5, <1>6, <2>1 DEF Push
<1>7. ASSUME NEW d \in Devices, NEW b \in Blocks, PushLate(d, b)
      PROVE  SameFiles /\ EntriesCloseOnly
  BY <1>5, <1>7 DEF PushLate
<1>8. ASSUME NEW d \in Devices, StartLogger(d) \/ JoinWriter(d)
      PROVE  SameFiles /\ EntriesCloseOnly
  <2>1. CASE StartLogger(d)
    BY <1>3, <2>1, NewWriterFacts DEF StartLogger, WithHandler
  <2>2. CASE JoinWriter(d)
    BY <1>3, <2>2, NewWriterFacts DEF JoinWriter
  <2>3. QED
    BY <1>8, <2>1, <2>2
<1>9. ASSUME NEW d \in Devices, Take(d) \/ StopWriter(d)
      PROVE  SameFiles /\ EntriesCloseOnly
  <2>1. writer[d] \in Writers /\ disk' = disk
    BY <1>1, <1>9 DEF Take, StopWriter
  <2>2. CASE Take(d)
    <3>1. writer' = [writer EXCEPT ![d] = Swap(writer[d])]
      BY <2>2 DEF Take
    <3>2. Swap(writer[d]).current = writer[d].current
      BY <2>1 DEF Swap, Writers
    <3>3. QED
      BY <1>1, <2>1, <3>1, <3>2 DEF SameFiles, EntriesCloseOnly
  <2>3. CASE StopWriter(d)
    <3>1. writer' = [writer EXCEPT ![d] = [writer[d] EXCEPT !.stop = TRUE]]
      BY <2>3 DEF StopWriter
    <3>2. [writer[d] EXCEPT !.stop = TRUE].current = writer[d].current
      BY <2>1 DEF Writers
    <3>3. QED
      BY <1>1, <2>1, <3>1, <3>2 DEF SameFiles, EntriesCloseOnly
  <2>4. QED
    BY <1>9, <2>2, <2>3
<1>10. CASE CycleDelete \/ Wake(TRUE)
  <2>1. writer' = writer
    BY <1>10 DEF CycleDelete, Wake, EndRound, CheckEnable
  <2>2. CASE RemoveOldest
    <3>1. PICK i \in DOMAIN disk : disk' = [disk EXCEPT ![i].removed = TRUE]
      BY <2>2 DEF RemoveOldest, Oldest, Base, TypeOK
    <3>2. Removed(i)
      BY <3>1, RemovedFacts DEF Base, TypeOK
    <3>3. SameFiles
      BY <3>2 DEF Removed, SameFiles
    <3>4. QED
      BY <2>1, <3>3 DEF EntriesCloseOnly
  <2>3. CASE ~RemoveOldest
    <3>1. disk' = disk
      BY <1>10, <2>3 DEF CycleDelete, Wake, EndRound, CheckEnable,
                         GetFileNames, NextDir
    <3>2. QED
      BY <1>2, <2>1, <3>1
  <2>4. QED
    BY <2>2, <2>3
<1>11. CASE \/ \E o \in Outcomes : InitManager(o)
            \/ Stopping
            \/ \E d \in Devices : \/ AddDevice(d)
                                  \/ \E t \in Types : LoseBlock(d, t)
  <2>1. disk' = disk /\ writer' = writer
    BY <1>11 DEF InitManager, Stopping, RequestQuit, JoinCleaner, EndDestory,
                 AddDevice, LoseBlock
  <2>2. QED
    BY <1>2, <2>1
<1>12. QED
  BY <1>4, <1>6, <1>7, <1>8, <1>9, <1>10, <1>11 DEF Next

Contents == TypeOK /\ CleanerRecord /\ EntryOK /\ InOrder

LEMMA ContentsInductive ==
  /\ Init => Contents
  /\ Contents /\ [Next]_vars => Contents'
<1>1. Init => Contents
  <2> SUFFICES ASSUME Init PROVE Contents
    OBVIOUS
  <2>1. TypeOK /\ CleanerRecord
    BY TypesAtInit
  <2>2. EntryOK
    BY NewWriterFacts DEF Init, EntryOK, Fresh, NotOpen
  <2>3. InOrder
    BY DEF Init, InOrder
  <2>4. QED
    BY <2>1, <2>2, <2>3 DEF Contents
<1>2. ASSUME Contents, [Next]_vars
      PROVE  Contents'
  <2>1. TypeOK' /\ CleanerRecord'
    BY <1>2, TypesKept DEF Contents, Base
  <2>2. EntryOK' /\ InOrder'
    <3>1. CASE \E d \in Devices : Process(d)
      BY <1>2, <3>1, ProcessContents DEF Contents, Base
    <3>2. CASE ~\E d \in Devices : Process(d)
      BY <1>2, <3>2, OthersKeepContents, ContentsStay DEF Contents, Base
    <3>3. QED
      BY <3>1, <3>2
  <2>3. QED
    BY <2>1, <2>2 DEF Contents
<1>3. QED
  BY <1>1, <1>2

\* Every variable of the log handlers, of the files they write and of the
\* thread that removes files has its type in every state.
THEOREM TypeCorrect == Spec => []TypeOK
<1>1. Contents => TypeOK
  BY DEF Contents
<1>2. QED
  BY ContentsInductive, <1>1, PTL DEF Spec

\* LoggerHandler::Write: whatever is lost, repeated or late, and however often
\* the SDK is started, a file holds blocks of its own only and, from each time
\* it is created on, in their order.
THEOREM FilesInOrder == Spec => []InOrder
<1>1. Contents => InOrder
  BY DEF Contents
<1>2. QED
  BY ContentsInductive, <1>1, PTL DEF Spec

-----------------------------------------------------------------------------
(***************************************************************************)
(* Which file is removed.  The files are made in the order of their        *)
(* seconds, and those CycleDelete has listed and not yet removed are older *)
(* than the files of the directory it did not list.                        *)
(***************************************************************************)
TimeOK ==
  \A i, j \in DOMAIN disk : i < j => disk[i].second <= disk[j].second

ListOK ==
  IF cleaner.listed
  THEN /\ cleaner.at = "round" /\ cleaner.dirs # <<>>
       /\ cleaner.todo \subseteq Files(Head(cleaner.dirs))
       /\ \A i \in cleaner.todo :
            \A j \in Files(Head(cleaner.dirs)) \ cleaner.todo :
              disk[i].second <= disk[j].second
  ELSE cleaner.todo = {}

Aged == TimeOK /\ ListOK /\ OldestFirst

\* At most one file is added, and no file is removed.
FilesAdd ==
  /\ DOMAIN disk \subseteq DOMAIN disk'
  /\ \A j \in DOMAIN disk :
       /\ disk'[j].type = disk[j].type /\ disk'[j].second = disk[j].second
       /\ disk'[j].removed = disk[j].removed
  /\ \A j \in DOMAIN disk' \ DOMAIN disk :
       j = Len(disk) + 1 /\ disk'[j].second \in Seconds /\ ~disk'[j].removed

LEMMA ProcessAddsFiles ==
  ASSUME Base, NEW d \in Devices, Process(d)
  PROVE  FilesAdd
<1>1. PICK e \in Entries : Outcomed(d, e)
  BY ProcessCases
<1>2. CASE disk' = disk
  BY <1>2 DEF FilesAdd
<1>3. ASSUME NEW i \in Nat, Stored(d, e, i)
      PROVE  FilesAdd
  BY <1>3 DEF Stored, Grown, FilesAdd
<1>4. QED
  BY <1>1, <1>2, <1>3, OutcomeGrows DEF Base

\* A new file is not older than any other.
LEMMA NewIsYoungest ==
  ASSUME TypeOK, TimeOK, NEW i \in DOMAIN disk, NEW now \in Seconds
  PROVE  disk[i].second <= now /\ now \in Nat
<1>1. /\ DOMAIN disk = 1..Len(disk) /\ Len(disk) \in Nat
      /\ \A j \in DOMAIN disk : disk[j].second \in Nat
  BY FilesTyped DEF TypeOK
<1>2. Len(disk) \in DOMAIN disk /\ disk # <<>>
  BY <1>1
<1>3. disk[i].second <= disk[Len(disk)].second
  BY <1>1, <1>2 DEF TimeOK
<1>4. now \in {disk[Len(disk)].second, disk[Len(disk)].second + 1}
  BY <1>2 DEF Seconds, Last
<1>5. QED
  BY <1>1, <1>2, <1>3, <1>4

LEMMA AddedKeepsAge ==
  ASSUME TypeOK, Aged, FilesAdd,
         cleaner'.at = cleaner.at, cleaner'.dirs = cleaner.dirs,
         cleaner'.todo = cleaner.todo, cleaner'.listed = cleaner.listed
  PROVE  Aged'
<1>1. /\ DOMAIN disk = 1..Len(disk) /\ Len(disk) \in Nat
      /\ \A j \in DOMAIN disk : disk[j].second \in Nat
      /\ cleaner.todo \subseteq DOMAIN disk
  BY FilesTyped DEF TypeOK
<1>2. ASSUME NEW i \in DOMAIN disk, NEW j \in DOMAIN disk' \ DOMAIN disk
      PROVE  i < j /\ disk'[i].second <= disk'[j].second
  <2>1. j = Len(disk) + 1 /\ disk'[j].second \in Seconds
    BY DEF FilesAdd
  <2>2. disk[i].second <= disk'[j].second
    BY <2>1, NewIsYoungest DEF Aged
  <2>3. QED
    BY <1>1, <2>1, <2>2 DEF FilesAdd
<1>3. TimeOK'
  <2> SUFFICES ASSUME NEW i \in DOMAIN disk', NEW j \in DOMAIN disk', i < j
               PROVE  disk'[i].second <= disk'[j].second
    BY DEF TimeOK
  <2>1. CASE i \in DOMAIN disk /\ j \in DOMAIN disk
    BY <2>1 DEF FilesAdd, Aged, TimeOK
  <2>2. CASE j \notin DOMAIN disk /\ i \in DOMAIN disk
    BY <1>2, <2>2
  <2>3. CASE i \notin DOMAIN disk
    <3>1. i = Len(disk) + 1
      BY <2>3 DEF FilesAdd
    <3>2. j \in DOMAIN disk \/ j = Len(disk) + 1
      BY DEF FilesAdd
    <3>3. QED
      BY <1>1, <3>1, <3>2
  <2>4. QED
    BY <2>1, <2>2, <2>3
<1>4. ListOK'
  <2>1. CASE ~cleaner.listed
    BY <2>1 DEF ListOK, Aged
  <2>2. CASE cleaner.listed
    <3> DEFINE t == Head(cleaner.dirs)
    <3>1. /\ cleaner.at = "round" /\ cleaner.dirs # <<>>
          /\ cleaner.todo \subseteq Files(t)
          /\ \A i \in cleaner.todo : \A j \in Files(t) \ cleaner.todo :
               disk[i].second <= disk[j].second
      BY <2>2 DEF ListOK, Aged
    <3> HIDE DEF t
    <3>2. cleaner.todo \subseteq Files(t)'
      BY <3>1 DEF Files, FilesAdd, t
    <3>3. ASSUME NEW i \in cleaner.todo, NEW j \in Files(t)' \ cleaner.todo
          PROVE  disk'[i].second <= disk'[j].second
      <4>1. i \in DOMAIN disk /\ j \in DOMAIN disk'
        BY <1>1 DEF Files
      <4>2. CASE j \in DOMAIN disk
        <5>1. j \in Files(t)
          BY <4>2 DEF Files, FilesAdd, t
        <5>2. QED
          BY <3>1, <4>1, <4>2, <5>1 DEF FilesAdd
      <4>3. CASE j \notin DOMAIN disk
        BY <1>2, <4>1, <4>3
      <4>4. QED
        BY <4>2, <4>3
    <3>4. QED
      BY <2>2, <3>1, <3>2, <3>3 DEF ListOK, t
  <2>3. QED
    BY <2>1, <2>2
<1>5. OldestFirst'
  <2> SUFFICES ASSUME NEW i \in DOMAIN disk', NEW j \in DOMAIN disk',
                      disk'[i].type = disk'[j].type,
                      disk'[i].removed, ~disk'[j].removed
               PROVE  disk'[i].second <= disk'[j].second
    BY DEF OldestFirst
  <2>1. i \in DOMAIN disk
    BY DEF FilesAdd
  <2>2. CASE j \in DOMAIN disk
    BY <2>1, <2>2 DEF FilesAdd, Aged, OldestFirst
  <2>3. CASE j \notin DOMAIN disk
    BY <1>2, <2>1, <2>3
  <2>4. QED
    BY <2>2, <2>3
<1>6. QED
  BY <1>3, <1>4, <1>5 DEF Aged

\* The oldest of the listed files is no younger than any that stays.
LEMMA RemovalKeepsAge ==
  ASSUME TypeOK, CleanerRecord, Aged, RemoveOldest
  PROVE  Aged'
<1> DEFINE c == cleaner
           t == Head(cleaner.dirs)
<1>1. PICK i \in Oldest(c.todo) :
        /\ disk' = [disk EXCEPT ![i].removed = TRUE]
        /\ CleanerIs(c.at, c.enable, c.dirs, c.todo \ {i}, c.listed)
  BY CleanerSteps
<1>2. /\ c.listed /\ c.at = "round" /\ c.dirs # <<>>
      /\ c.todo \subseteq Files(t)
      /\ \A x \in c.todo : \A j \in Files(t) \ c.todo :
           disk[x].second <= disk[j].second
  BY DEF RemoveOldest, InRound, Aged, ListOK
<1>3. i \in c.todo /\ \A j \in c.todo : disk[i].second <= disk[j].second
  BY <1>1 DEF Oldest
<1>4. /\ i \in DOMAIN disk /\ disk[i].type = t
      /\ Files(t) \subseteq DOMAIN disk
  BY <1>2, <1>3 DEF Files
<1>5. Removed(i)
  BY <1>1, <1>4, RemovedFacts DEF TypeOK
<1>6. /\ DOMAIN disk' = DOMAIN disk /\ disk'[i].removed
      /\ \A j \in DOMAIN disk :
           disk'[j].second = disk[j].second /\ disk'[j].type = disk[j].type
      /\ \A j \in DOMAIN disk : j # i => disk'[j].removed = disk[j].removed
  BY <1>5 DEF Removed
<1>7. /\ cleaner'.at = c.at /\ cleaner'.dirs = c.dirs
      /\ cleaner'.todo = c.todo \ {i} /\ cleaner'.listed = c.listed
  BY <1>1, CleanerFields
<1> HIDE DEF t
<1>8. TimeOK'
  BY <1>6 DEF Aged, TimeOK
<1>9. ListOK'
  <2>1. Files(t)' = Files(t) \ {i}
    BY <1>4, <1>6, <1>7 DEF Files, t
  <2>2. \A x \in cleaner'.todo : \A j \in Files(t)' \ cleaner'.todo :
          disk'[x].second <= disk'[j].second
    BY <1>2, <1>4, <1>6, <1>7, <2>1
  <2>3. cleaner'.todo \subseteq Files(t)'
    BY <1>2, <1>7, <2>1
  <2>4. QED
    BY <1>2, <1>7, <2>2, <2>3 DEF ListOK, t
<1>10. OldestFirst'
  <2> SUFFICES ASSUME NEW x \in DOMAIN disk, NEW j \in DOMAIN disk,
                      disk[x].type = disk[j].type,
                      disk'[x].removed, ~disk'[j].removed
               PROVE  disk[x].second <= disk[j].second
    BY <1>6 DEF OldestFirst
  <2>1. j # i /\ ~disk[j].removed
    BY <1>6
  <2>2. CASE x # i
    BY <1>6, <2>1, <2>2 DEF Aged, OldestFirst
  <2>3. CASE x = i
    <3>1. j \in Files(t)
      BY <1>4, <2>1, <2>3 DEF Files
    <3>2. QED
      BY <1>2, <1>3, <2>3, <3>1
  <2>4. QED
    BY <2>2, <2>3
<1>11. QED
  BY <1>8, <1>9, <1>10 DEF Aged

\* The other steps of the thread leave the files alone.
LEMMA CycleKeepsAge ==
  ASSUME TypeOK, CleanerRecord, Aged, CycleDelete \/ Wake(TRUE)
  PROVE  Aged'
<1> DEFINE c == cleaner
<1>1. ASSUME disk' = disk, ListOK'
      PROVE  Aged'
  BY <1>1 DEF Aged, TimeOK, OldestFirst
<1>2. ASSUME disk' = disk, ~c.listed, cleaner'.listed = c.listed,
             cleaner'.todo = c.todo
      PROVE  Aged'
  BY <1>1, <1>2 DEF Aged, ListOK
<1>3. CASE Wake(TRUE) \/ Wake(FALSE)
  <2>1. CleanerIs("round", c.enable, Dirs, c.todo, c.listed)
    BY <1>3, CleanerSteps
  <2>2. disk' = disk /\ c.at = "waiting"
    BY <1>3 DEF Wake
  <2>3. ~c.listed
    BY <2>2 DEF Aged, ListOK
  <2>4. QED
    BY <1>2, <2>1, <2>2, <2>3, CleanerFields
<1>4. CASE EndRound
  <2>1. CleanerIs("checking", c.enable, c.dirs, c.todo, c.listed)
    BY <1>4, CleanerSteps
  <2>2. disk' = disk /\ c.dirs = <<>>
    BY <1>4 DEF EndRound
  <2>3. ~c.listed
    BY <2>2 DEF Aged, ListOK
  <2>4. QED
    BY <1>2, <2>1, <2>2, <2>3, CleanerFields
<1>5. CASE CheckEnable
  <2>1. PICK a \in {"waiting", "off"} :
          CleanerIs(a, c.enable, c.dirs, c.todo, c.listed)
    BY <1>5, CleanerSteps
  <2>2. disk' = disk /\ c.at = "checking"
    BY <1>5 DEF CheckEnable
  <2>3. ~c.listed
    BY <2>2 DEF Aged, ListOK
  <2>4. QED
    BY <1>2, <2>1, <2>2, <2>3, CleanerFields
<1>6. CASE GetFileNames
  <2>1. CleanerIs(c.at, c.enable, c.dirs, Files(Head(c.dirs)), TRUE)
    BY <1>6, CleanerSteps
  <2>2. /\ cleaner'.at = c.at /\ cleaner'.dirs = c.dirs /\ cleaner'.listed
        /\ cleaner'.todo = Files(Head(c.dirs))
    BY <2>1 DEF CleanerIs
  <2>3. disk' = disk /\ c.at = "round" /\ c.dirs # <<>>
    BY <1>6 DEF GetFileNames, InRound
  <2>4. Files(Head(c.dirs))' = Files(Head(c.dirs))
    BY <2>2, <2>3 DEF Files
  <2>5. ListOK'
    BY <2>2, <2>3, <2>4 DEF ListOK
  <2>6. QED
    BY <1>1, <2>3, <2>5
<1>7. CASE NextDir
  <2>1. CleanerIs(c.at, c.enable, Tail(c.dirs), {}, FALSE)
    BY <1>7, CleanerSteps
  <2>2. ListOK'
    BY <2>1 DEF CleanerIs, ListOK
  <2>3. QED
    BY <1>1, <1>7, <2>2 DEF NextDir
<1>8. QED
  BY <1>3, <1>4, <1>5, <1>6, <1>7, RemovalKeepsAge DEF CycleDelete

LEMMA AgedInductive ==
  /\ Init => Aged
  /\ Contents /\ Aged /\ [Next]_vars => Aged'
<1>1. Init => Aged
  BY DEF Init, Aged, TimeOK, ListOK, OldestFirst, Idle
<1>2. ASSUME Contents, Aged, [Next]_vars
      PROVE  Aged'
  <2>1. TypeOK /\ CleanerRecord /\ Base
    BY <1>2 DEF Contents, Base
  <2>2. ASSUME disk' = disk, cleaner' = cleaner
        PROVE  Aged'
    BY <1>2, <2>1, <2>2, AddedKeepsAge DEF FilesAdd
  <2>3. CASE UNCHANGED vars
    BY <2>2, <2>3 DEF vars
  <2>4. ASSUME NEW d \in Devices, Process(d)
        PROVE  Aged'
    <3>1. FilesAdd
      BY <2>1, <2>4, ProcessAddsFiles
    <3>2. cleaner' = cleaner
      BY <2>4 DEF Process
    <3>3. QED
      BY <1>2, <2>1, <3>1, <3>2, AddedKeepsAge
  <2>5. CASE CycleDelete \/ Wake(TRUE)
    BY <1>2, <2>1, <2>5, CycleKeepsAge
  <2>6. CASE RequestQuit
    <3>1. PICK e \in {FALSE, cleaner.enable} :
            CleanerIs(cleaner.at, e, cleaner.dirs, cleaner.todo,
                      cleaner.listed)
      BY <2>1, <2>6, CleanerSteps
    <3>2. /\ cleaner'.at = cleaner.at /\ cleaner'.dirs = cleaner.dirs
          /\ cleaner'.todo = cleaner.todo /\ cleaner'.listed = cleaner.listed
      BY <3>1 DEF CleanerIs
    <3>3. FilesAdd
      BY <2>6 DEF RequestQuit, FilesAdd
    <3>4. QED
      BY <1>2, <2>1, <3>2, <3>3, AddedKeepsAge
  <2>7. ASSUME NEW o \in Outcomes, InitManager(o)
        PROVE  Aged'
    <3>1. disk' = disk
      BY <2>7 DEF InitManager
    <3>2. CASE cleaner' = cleaner
      BY <2>2, <3>1, <3>2
    <3>3. CASE CleanerIs("checking", TRUE, <<>>, {}, FALSE)
      <4>1. ListOK'
        BY <3>3 DEF CleanerIs, ListOK
      <4>2. QED
        BY <1>2, <3>1, <4>1 DEF Aged, TimeOK, OldestFirst
    <3>4. QED
      BY <2>1, <2>7, <3>2, <3>3, CleanerSteps
  <2>8. CASE \/ JoinCleaner \/ EndDestory
             \/ \E d \in Devices :
                  \/ AddDevice(d) \/ StartLogger(d)
                  \/ \E t \in Types : \/ \E x \in BOOLEAN : Push(d, t, x)
                                      \/ LoseBlock(d, t)
                  \/ \E b \in Blocks : PushLate(d, b)
                  \/ Take(d) \/ StopWriter(d) \/ JoinWriter(d)
    <3>1. disk' = disk /\ cleaner' = cleaner
      BY <2>8 DEF JoinCleaner, EndDestory, AddDevice, StartLogger, Push,
                  LoseBlock, PushLate, Take, StopWriter, JoinWriter
    <3>2. QED
      BY <2>2, <3>1
  <2>9. QED
    BY <1>2, <2>3, <2>4, <2>5, <2>6, <2>7, <2>8 DEF Next, Stopping
<1>3. QED
  BY <1>1, <1>2

\* CycleDelete: whatever the handlers write while it goes over a directory, a
\* file is never gone while an older one of its directory is there.
THEOREM RemovesOldest == Spec => []OldestFirst
<1>1. Init => Contents /\ Aged
  BY ContentsInductive, AgedInductive
<1>2. Contents /\ Aged /\ [Next]_vars => (Contents /\ Aged)'
  BY ContentsInductive, AgedInductive
<1>3. Contents /\ Aged => OldestFirst
  BY DEF Aged
<1>4. QED
  BY <1>1, <1>2, <1>3, PTL DEF Spec

-----------------------------------------------------------------------------
(***************************************************************************)
(* What becomes of an acknowledged block.  Without faults the blocks of a  *)
(* type come in order, so a block that waits and is not at the start of    *)
(* its file waits behind that start, or its file is open.  The lemmas are  *)
(* about p, the blocks that wait; cur, the entries; s, where the device    *)
(* is; and A, the acknowledged blocks.                                     *)
(***************************************************************************)
NotAfter(x, y) == x.file < y.file \/ (x.file = y.file /\ x.trans <= y.trans)
Starts(x, b) == IsCreate(x) /\ x.type = b.type /\ x.file = b.file
Inside(b) == ~IsCreate(b) /\ ~IsEnd(b)

\* The blocks that wait are in order, behind the entries, before the device.
Ordered(p, cur, s) ==
  /\ \A k, l \in 1..Len(p) :
       k < l /\ p[k].type = p[l].type => NotAfter(p[k], p[l])
  /\ \A k \in 1..Len(p) : /\ NotAfter(p[k], s[p[k].type])
                          /\ NotAfter(cur[p[k].type], p[k])
  /\ \A t \in Types : NotAfter(cur[t], s[t])

\* The start of the file of an acknowledged block, of one that waits and of
\* the one the device is in, waits before it or has been seen to.
Founded(p, cur, s, A) ==
  /\ \A a \in A : NotAfter(a, s[a.type]) /\ \E x \in A : Starts(x, a)
  /\ \A k \in 1..Len(p) : p[k] \in A /\ Inside(p[k]) =>
       \/ \E j \in 1..Len(p) : j < k /\ Starts(p[j], p[k])
       \/ cur[p[k].type].file = p[k].file /\ cur[p[k].type].fp # NoFile
  /\ \A a \in A : IsCreate(a) /\ a.file = s[a.type].file =>
       \/ \E j \in 1..Len(p) : Starts(p[j], a)
       \/ /\ cur[a.type].file = a.file
          /\ cur[a.type].fp # NoFile \/ cur[a.type].trans = LastBlock

LEMMA BlockFields ==
  /\ LastBlock \in Nat /\ LastBlock > 0
  /\ \A b \in Blocks : /\ b.type \in Types /\ b.file \in Nat /\ b.file > 0
                       /\ b.trans \in Nat /\ b.trans <= LastBlock
  /\ \A e \in Entries : /\ e.fp \in Nat /\ e.file \in Nat
                        /\ e.trans \in Nat /\ e.trans <= LastBlock
  /\ \A q \in Places : /\ q.file \in Nat /\ q.file > 0
                       /\ q.trans \in Nat /\ q.trans <= LastBlock
BY DeviceLogsAssumption DEF Blocks, Block, Entries, Places

Placed(x) == x.file \in Nat /\ x.trans \in Nat

LEMMA AllPlaced ==
  /\ \A b \in Blocks : Placed(b)
  /\ \A e \in Entries : Placed(e)
  /\ \A q \in Places : Placed(q)
BY BlockFields DEF Placed

LEMMA Transitive ==
  ASSUME NEW x, NEW y, NEW z, Placed(x), Placed(y), Placed(z),
         NotAfter(x, y), NotAfter(y, z)
  PROVE  NotAfter(x, z)
BY DEF Placed, NotAfter

\* A block the device is at is queued; it may go on, as far as s2.
LEMMA AppendOrdered ==
  ASSUME NEW p \in Seq(Blocks), NEW cur \in [Types -> Entries],
         NEW s \in [Types -> Places], NEW s2 \in [Types -> Places],
         NEW b \in Blocks, NEW q, q = Append(p, b),
         NotAfter(b, s[b.type]), NotAfter(s[b.type], b),
         \A t \in Types : NotAfter(s[t], s2[t]),
         Ordered(p, cur, s)
  PROVE  Ordered(q, cur, s2)
<1>1. /\ q \in Seq(Blocks) /\ Len(q) = Len(p) + 1 /\ q[Len(p) + 1] = b
      /\ Len(p) \in Nat /\ \A k \in 1..Len(p) : q[k] = p[k]
      /\ \A k \in 1..Len(p) : p[k] \in Blocks
      /\ \A k \in 1..Len(q) : q[k] \in Blocks
      /\ \A k \in 1..Len(q) : k = Len(p) + 1 \/ k \in 1..Len(p)
  BY BlockSeqs
<1>2. \A k, l \in 1..Len(q) :
        k < l /\ q[k].type = q[l].type => NotAfter(q[k], q[l])
  <2> SUFFICES ASSUME NEW k \in 1..Len(q), NEW l \in 1..Len(q), k < l,
                      q[k].type = q[l].type
               PROVE  NotAfter(q[k], q[l])
    OBVIOUS
  <2>1. k \in 1..Len(p)
    BY <1>1
  <2>2. CASE l \in 1..Len(p)
    BY <1>1, <2>1, <2>2 DEF Ordered
  <2>3. CASE l = Len(p) + 1
    <3>1. NotAfter(q[k], s[b.type]) /\ q[k] \in Blocks
      BY <1>1, <2>1, <2>3 DEF Ordered
    <3>2. QED
      BY <1>1, <2>3, <3>1, Transitive, AllPlaced, BlockFields
  <2>4. QED
    BY <1>1, <2>2, <2>3
<1>3. ASSUME NEW k \in 1..Len(q)
      PROVE  NotAfter(q[k], s2[q[k].type]) /\ NotAfter(cur[q[k].type], q[k])
  <2> DEFINE t == q[k].type
  <2>1. /\ q[k] \in Blocks /\ t \in Types /\ s[t] \in Places
        /\ s2[t] \in Places /\ cur[t] \in Entries
    <3>1. q[k] \in Blocks
      BY <1>1
    <3>2. t \in Types
      BY <3>1, BlockFields
    <3>3. QED
      BY <3>1, <3>2
  <2>2. NotAfter(q[k], s[t]) /\ NotAfter(cur[t], q[k])
    <3>1. CASE k \in 1..Len(p)
      BY <1>1, <3>1 DEF Ordered
    <3>2. CASE k = Len(p) + 1
      <4>1. NotAfter(cur[t], s[t])
        BY <2>1 DEF Ordered
      <4>2. QED
        BY <1>1, <2>1, <3>2, <4>1, Transitive, AllPlaced
    <3>3. QED
      BY <1>1, <3>1, <3>2
  <2>3. NotAfter(s[t], s2[t])
    BY <2>1
  <2> HIDE DEF t
  <2>4. QED
    <3>1. NotAfter(q[k], s2[t])
      BY <2>1, <2>2, <2>3, Transitive, AllPlaced
    <3>2. QED
      BY <2>2, <3>1 DEF t
<1>4. ASSUME NEW t \in Types
      PROVE  NotAfter(cur[t], s2[t])
  <2>1. NotAfter(cur[t], s[t]) /\ NotAfter(s[t], s2[t])
    BY DEF Ordered
  <2>2. cur[t] \in Entries /\ s[t] \in Places /\ s2[t] \in Places
    OBVIOUS
  <2>3. QED
    BY <2>1, <2>2, Transitive, AllPlaced
<1>5. QED
  BY <1>2, <1>3, <1>4 DEF Ordered

LEMMA AppendFounded ==
  ASSUME NEW p \in Seq(Blocks), NEW cur \in [Types -> Entries],
         NEW s \in [Types -> Places], NEW s2 \in [Types -> Places],
         NEW b \in Blocks, NEW q, q = Append(p, b),
         NEW A \in SUBSET Blocks, NEW A2 \in SUBSET Blocks,
         \A a \in A2 : a \in A \/ a = b,
         b.file = s[b.type].file, b.trans = s[b.type].trans,
         \A t \in Types : NotAfter(s[t], s2[t]),
         \A a \in A2 : \E x \in A2 : Starts(x, a),
         Ordered(p, cur, s), Founded(p, cur, s, A)
  PROVE  Founded(q, cur, s2, A2)
<1>1. /\ q \in Seq(Blocks) /\ Len(q) = Len(p) + 1 /\ q[Len(p) + 1] = b
      /\ Len(p) \in Nat /\ \A k \in 1..Len(p) : q[k] = p[k]
      /\ \A k \in 1..Len(p) : p[k] \in Blocks
      /\ \A k \in 1..Len(q) : q[k] \in Blocks
      /\ \A k \in 1..Len(q) : k = Len(p) + 1 \/ k \in 1..Len(p)
      /\ \A k \in 1..Len(p) : k \in 1..Len(q)
      /\ Len(p) + 1 \in 1..Len(q)
  BY BlockSeqs
<1>2. NotAfter(b, s[b.type]) /\ b.type \in Types
  BY BlockFields DEF NotAfter
<1>3. ASSUME NEW a \in A2
      PROVE  NotAfter(a, s[a.type]) /\ NotAfter(a, s2[a.type])
  <2>1. a \in Blocks /\ a.type \in Types
    BY BlockFields
  <2>2. NotAfter(a, s[a.type])
    BY <1>2 DEF Founded
  <2>3. /\ NotAfter(s[a.type], s2[a.type])
        /\ s[a.type] \in Places /\ s2[a.type] \in Places
    BY <2>1
  <2>4. QED
    BY <2>1, <2>2, <2>3, Transitive, AllPlaced
<1>4. ASSUME Inside(b), b \in A2
      PROVE  \/ \E j \in 1..Len(p) : Starts(p[j], b)
             \/ cur[b.type].file = b.file /\ cur[b.type].fp # NoFile
  <2>1. PICK x \in A : Starts(x, b)
    BY <1>4 DEF Inside, Starts
  <2>2. /\ IsCreate(x) /\ x.type = b.type /\ x.file = s[x.type].file
    BY <2>1 DEF Starts
  <2>3. \/ \E j \in 1..Len(p) : Starts(p[j], x)
        \/ /\ cur[x.type].file = x.file
           /\ cur[x.type].fp # NoFile \/ cur[x.type].trans = LastBlock
    BY <2>2 DEF Founded
  <2>4. CASE \E j \in 1..Len(p) : Starts(p[j], x)
    BY <2>1, <2>4 DEF Starts
  <2>5. CASE cur[x.type].file = x.file /\ cur[x.type].fp # NoFile
    BY <2>1, <2>5 DEF Starts
  <2>6. CASE cur[x.type].file = x.file /\ cur[x.type].trans = LastBlock
    <3>1. NotAfter(cur[b.type], s[b.type])
      BY <1>2 DEF Ordered
    <3>2. cur[b.type] \in Entries /\ s[b.type] \in Places
      BY <1>2
    <3>3. LastBlock <= s[b.type].trans
      BY <2>1, <2>6, <3>1, <3>2, BlockFields DEF Starts, NotAfter
    <3>4. b.trans = LastBlock
      BY <3>3, BlockFields
    <3>5. QED
      BY <1>4, <3>4 DEF Inside, IsEnd
  <2>7. QED
    BY <2>3, <2>4, <2>5, <2>6
<1>5. ASSUME NEW k \in 1..Len(q), q[k] \in A2, Inside(q[k])
      PROVE  \/ \E j \in 1..Len(q) : j < k /\ Starts(q[j], q[k])
             \/ cur[q[k].type].file = q[k].file /\ cur[q[k].type].fp # NoFile
  <2>1. CASE q[k] = b
    <3>1. CASE cur[b.type].file = b.file /\ cur[b.type].fp # NoFile
      BY <2>1, <3>1
    <3>2. ASSUME NEW j \in 1..Len(p), Starts(p[j], b)
          PROVE  j < k
      <4>1. CASE k = Len(p) + 1
        BY <1>1, <4>1
      <4>2. CASE k \in 1..Len(p) /\ k < j
        <5>1. p[k] = b
          BY <1>1, <2>1, <4>2
        <5>2. p[j].type = b.type /\ p[j].file = b.file /\ p[j].trans = 0
          BY <3>2 DEF Starts, IsCreate
        <5>3. NotAfter(b, p[j])
          BY <4>2, <5>1, <5>2 DEF Ordered
        <5>4. b.trans = 0
          BY <5>2, <5>3, BlockFields DEF NotAfter
        <5>5. QED
          BY <1>5, <2>1, <5>4 DEF Inside, IsCreate
      <4>3. CASE k \in 1..Len(p) /\ k = j
        BY <1>1, <1>5, <2>1, <3>2, <4>3 DEF Inside, Starts
      <4>4. QED
        BY <1>1, <4>1, <4>2, <4>3
    <3>3. QED
      BY <1>1, <1>4, <1>5, <2>1, <3>1, <3>2
  <2>2. CASE q[k] # b
    <3>1. k \in 1..Len(p) /\ q[k] = p[k] /\ p[k] \in A
      BY <1>1, <1>5, <2>2
    <3>2. \/ \E j \in 1..Len(p) : j < k /\ Starts(p[j], p[k])
          \/ cur[p[k].type].file = p[k].file /\ cur[p[k].type].fp # NoFile
      BY <1>5, <3>1 DEF Founded
    <3>3. QED
      BY <1>1, <3>1, <3>2
  <2>3. QED
    BY <2>1, <2>2
<1>6. ASSUME NEW a \in A2, IsCreate(a), a.file = s2[a.type].file
      PROVE  \/ \E j \in 1..Len(q) : Starts(q[j], a)
             \/ /\ cur[a.type].file = a.file
                /\ cur[a.type].fp # NoFile \/ cur[a.type].trans = LastBlock
  <2>1. CASE a = b
    BY <1>1, <1>6, <2>1 DEF Starts
  <2>2. CASE a # b
    <3>1. a \in A /\ a \in Blocks /\ a.type \in Types
      BY <2>2, BlockFields
    <3>2. NotAfter(a, s[a.type]) /\ NotAfter(s[a.type], s2[a.type])
      BY <1>3, <3>1
    <3>3. s[a.type] \in Places /\ s2[a.type] \in Places
      BY <3>1
    <3>4. a.file = s[a.type].file
      BY <1>6, <3>1, <3>2, <3>3, BlockFields DEF NotAfter
    <3>5. \/ \E j \in 1..Len(p) : Starts(p[j], a)
          \/ /\ cur[a.type].file = a.file
             /\ cur[a.type].fp # NoFile \/ cur[a.type].trans = LastBlock
      BY <1>6, <3>1, <3>4 DEF Founded
    <3>6. QED
      BY <1>1, <3>5
  <2>3. QED
    BY <2>1, <2>2
<1>7. QED
  BY <1>3, <1>5, <1>6 DEF Founded

\* The entry goes from c to e when block b is passed over, ends its file,
\* finds its file closed, or is stored.
Seen(b, c, e) ==
  \/ e = c /\ ~IsCreate(b)
  \/ IsEnd(b) /\ e.fp = NoFile /\ e.file = c.file /\ e.trans = b.trans
  \/ /\ Inside(b) /\ c.fp = NoFile /\ c.file = b.file
     /\ e.fp = NoFile /\ e.file = b.file /\ e.trans = b.trans
  \/ ~IsEnd(b) /\ e.fp # NoFile /\ e.file = b.file /\ e.trans = b.trans

\* The waiting blocks p without the first.
IsTail(q, p) ==
  /\ q \in Seq(Blocks) /\ Len(p) \in Nat /\ Len(q) = Len(p) - 1
  /\ 1 \in 1..Len(p) /\ p[1] \in Blocks
  /\ \A k \in 1..Len(q) : /\ k + 1 \in 1..Len(p) /\ q[k] = p[k + 1]
                          /\ q[k] \in Blocks /\ q[k].type \in Types
  /\ \A j \in 1..Len(p) : j # 1 => j - 1 \in 1..Len(q)

LEMMA TailFacts ==
  ASSUME NEW p \in Seq(Blocks), p # <<>>
  PROVE  IsTail(Tail(p), p)
<1> DEFINE q == Tail(p)
<1>1. /\ q \in Seq(Blocks) /\ Len(p) \in Nat /\ Len(q) = Len(p) - 1
      /\ Len(p) > 0 /\ \A k \in 1..Len(q) : q[k] = p[k + 1]
      /\ \A k \in 1..Len(p) : p[k] \in Blocks
  BY BlockSeqs
<1> HIDE DEF q
<1>2. \A k \in 1..Len(q) : k + 1 \in 1..Len(p)
  BY <1>1
<1>3. \A k \in 1..Len(q) : q[k] \in Blocks
  BY <1>1, <1>2
<1>4. /\ 1 \in 1..Len(p) /\ p[1] \in Blocks
      /\ \A j \in 1..Len(p) : j # 1 => j - 1 \in 1..Len(q)
  BY <1>1
<1>5. IsTail(q, p)
  BY <1>1, <1>2, <1>3, <1>4, BlockFields DEF IsTail
<1>6. QED
  BY <1>5 DEF q

LEMMA TailOrdered ==
  ASSUME NEW p \in Seq(Blocks), p # <<>>, NEW q, q = Tail(p),
         NEW cur \in [Types -> Entries], NEW cur2 \in [Types -> Entries],
         NEW s \in [Types -> Places],
         \A t \in Types : t # p[1].type => cur2[t] = cur[t],
         NotAfter(cur2[p[1].type], p[1]),
         Ordered(p, cur, s)
  PROVE  Ordered(q, cur2, s)
<1> DEFINE b == p[1]
<1>1. /\ Len(p) \in Nat /\ Len(q) = Len(p) - 1 /\ b \in Blocks
      /\ 1 \in 1..Len(p)
      /\ \A k \in 1..Len(q) : /\ k + 1 \in 1..Len(p) /\ q[k] = p[k + 1]
                              /\ q[k] \in Blocks /\ q[k].type \in Types
  BY TailFacts DEF IsTail
<1>2. b.type \in Types /\ cur2[b.type] \in Entries
  BY <1>1, BlockFields
<1>3. NotAfter(b, s[b.type])
  BY <1>1 DEF Ordered
<1>4. ASSUME NEW k \in 1..Len(q), NEW l \in 1..Len(q), k < l,
             q[k].type = q[l].type
      PROVE  NotAfter(q[k], q[l])
  <2>1. /\ k + 1 \in 1..Len(p) /\ l + 1 \in 1..Len(p)
        /\ q[k] = p[k + 1] /\ q[l] = p[l + 1]
    BY <1>1
  <2>2. k + 1 < l + 1
    BY <1>4
  <2>3. p[k + 1].type = p[l + 1].type
    BY <1>4, <2>1
  <2>4. NotAfter(p[k + 1], p[l + 1])
    BY <2>1, <2>2, <2>3 DEF Ordered
  <2>5. QED
    BY <2>1, <2>4
<1>5. ASSUME NEW k \in 1..Len(q)
      PROVE  NotAfter(q[k], s[q[k].type]) /\ NotAfter(cur2[q[k].type], q[k])
  <2>1. /\ NotAfter(q[k], s[q[k].type]) /\ NotAfter(cur[q[k].type], q[k])
    BY <1>1 DEF Ordered
  <2>2. CASE q[k].type = b.type
    <3>1. NotAfter(b, q[k])
      BY <1>1, <2>2 DEF Ordered
    <3>2. NotAfter(cur2[b.type], q[k])
      BY <1>1, <1>2, <3>1, Transitive, AllPlaced
    <3>3. QED
      BY <2>1, <2>2, <3>2
  <2>3. CASE q[k].type # b.type
    BY <1>1, <2>1, <2>3
  <2>4. QED
    BY <2>2, <2>3
<1>6. ASSUME NEW t \in Types
      PROVE  NotAfter(cur2[t], s[t])
  <2>1. CASE t = b.type
    <3>1. s[t] \in Places
      OBVIOUS
    <3>2. QED
      BY <1>1, <1>2, <1>3, <2>1, <3>1, Transitive, AllPlaced
  <2>2. CASE t # b.type
    BY <2>2 DEF Ordered
  <2>3. QED
    BY <2>1, <2>2
<1>7. QED
  BY <1>4, <1>5, <1>6 DEF Ordered

LEMMA TailFounded ==
  ASSUME NEW p \in Seq(Blocks), p # <<>>, NEW q, q = Tail(p),
         NEW cur \in [Types -> Entries], NEW cur2 \in [Types -> Entries],
         NEW s \in [Types -> Places], NEW A \in SUBSET Blocks,
         \A t \in Types : t # p[1].type => cur2[t] = cur[t],
         Seen(p[1], cur[p[1].type], cur2[p[1].type]),
         Ordered(p, cur, s), Founded(p, cur, s, A)
  PROVE  Founded(q, cur2, s, A)
<1> DEFINE b == p[1]
           c == cur[b.type]
           e == cur2[b.type]
<1>1. /\ Len(p) \in Nat /\ Len(q) = Len(p) - 1 /\ b \in Blocks
      /\ 1 \in 1..Len(p)
      /\ \A k \in 1..Len(q) : /\ k + 1 \in 1..Len(p) /\ q[k] = p[k + 1]
                              /\ q[k] \in Blocks /\ q[k].type \in Types
      /\ \A j \in 1..Len(p) : j # 1 => j - 1 \in 1..Len(q)
  BY TailFacts DEF IsTail
<1>2. /\ b.type \in Types /\ c \in Entries /\ e \in Entries
      /\ s[b.type] \in Places
  BY <1>1, BlockFields
<1>3. NotAfter(b, s[b.type]) /\ NotAfter(c, b)
  BY <1>1 DEF Ordered
<1>4. IsCreate(b) => /\ e.fp # NoFile /\ e.file = b.file
  <2>1. Seen(b, c, e)
    OBVIOUS
  <2>2. ~(IsCreate(b) /\ IsEnd(b))
    BY BlockFields DEF IsCreate, IsEnd
  <2> HIDE DEF b, c, e
  <2>3. QED
    BY <2>1, <2>2 DEF Seen, Inside
<1>5. ASSUME NEW j \in 1..Len(p), NEW x, Starts(p[j], x)
      PROVE  \/ j # 1 /\ j - 1 \in 1..Len(q) /\ Starts(q[j - 1], x)
             \/ /\ j = 1 /\ x.type = b.type
                /\ cur2[x.type].file = x.file /\ cur2[x.type].fp # NoFile
  <2>1. CASE j = 1
    BY <1>4, <1>5, <2>1 DEF Starts
  <2>2. CASE j # 1
    <3>1. j - 1 \in 1..Len(q) /\ (j - 1) + 1 = j
      BY <1>1, <2>2
    <3>2. q[j - 1] = p[j]
      BY <1>1, <3>1
    <3>3. QED
      BY <1>5, <2>2, <3>1, <3>2
  <2>3. QED
    BY <2>1, <2>2
<1>6. ASSUME NEW k \in 1..Len(q), q[k] \in A, Inside(q[k])
      PROVE  \/ \E j \in 1..Len(q) : j < k /\ Starts(q[j], q[k])
             \/ cur2[q[k].type].file = q[k].file /\ cur2[q[k].type].fp # NoFile
  <2> DEFINE x == q[k]
  <2>1. /\ k + 1 \in 1..Len(p) /\ x = p[k + 1] /\ x \in Blocks
        /\ x.type \in Types
    BY <1>1
  <2>2. \/ \E j \in 1..Len(p) : j < k + 1 /\ Starts(p[j], x)
        \/ cur[x.type].file = x.file /\ cur[x.type].fp # NoFile
    BY <1>6, <2>1 DEF Founded
  <2>3. CASE \E j \in 1..Len(p) : j < k + 1 /\ Starts(p[j], x)
    <3>1. PICK j \in 1..Len(p) : j < k + 1 /\ Starts(p[j], x)
      BY <2>3
    <3>2. j - 1 < k
      BY <3>1
    <3>3. QED
      BY <1>5, <3>1, <3>2
  <2>4. CASE cur[x.type].file = x.file /\ cur[x.type].fp # NoFile
    <3>1. CASE x.type # b.type
      BY <2>1, <2>4, <3>1
    <3>2. CASE x.type = b.type
      <4>1. NotAfter(b, x)
        BY <1>1, <2>1, <3>2 DEF Ordered
      <4>2. b.file = x.file /\ c.file = x.file /\ c.fp # NoFile
        BY <1>1, <1>2, <1>3, <2>1, <2>4, <3>2, <4>1, BlockFields DEF NotAfter
      <4>3. ~IsEnd(b)
        BY <1>1, <1>6, <2>1, <4>1, <4>2, BlockFields
           DEF NotAfter, IsEnd, Inside
      <4>4. e.file = x.file /\ e.fp # NoFile
        BY <4>2, <4>3 DEF Seen
      <4>5. QED
        BY <3>2, <4>4
    <3>3. QED
      BY <3>1, <3>2
  <2>5. QED
    BY <2>2, <2>3, <2>4
<1>7. ASSUME NEW a \in A, IsCreate(a), a.file = s[a.type].file
      PROVE  \/ \E j \in 1..Len(q) : Starts(q[j], a)
             \/ /\ cur2[a.type].file = a.file
                /\ cur2[a.type].fp # NoFile \/ cur2[a.type].trans = LastBlock
  <2>1. a \in Blocks /\ a.type \in Types
    BY BlockFields
  <2>2. \/ \E j \in 1..Len(p) : Starts(p[j], a)
        \/ /\ cur[a.type].file = a.file
           /\ cur[a.type].fp # NoFile \/ cur[a.type].trans = LastBlock
    BY <1>7 DEF Founded
  <2>3. CASE \E j \in 1..Len(p) : Starts(p[j], a)
    BY <1>5, <2>3
  <2>4. CASE /\ cur[a.type].file = a.file
             /\ cur[a.type].fp # NoFile \/ cur[a.type].trans = LastBlock
    <3>1. CASE a.type # b.type
      BY <2>1, <2>4, <3>1
    <3>2. CASE a.type = b.type
      <4>1. b.file = a.file /\ c.file = a.file
        BY <1>1, <1>2, <1>3, <1>7, <2>1, <2>4, <3>2, BlockFields
           DEF NotAfter
      <4>2. CASE e = c
        BY <2>4, <3>2, <4>2
      <4>3. CASE IsEnd(b) /\ e.file = c.file /\ e.trans = b.trans
        BY <3>2, <4>1, <4>3 DEF IsEnd
      <4>4. CASE Inside(b) /\ c.fp = NoFile
        <5>1. c.trans = LastBlock
          BY <2>4, <3>2, <4>4
        <5>2. b.trans = LastBlock
          BY <1>1, <1>2, <1>3, <4>1, <5>1, BlockFields DEF NotAfter
        <5>3. QED
          BY <4>4, <5>2 DEF Inside, IsEnd
      <4>5. CASE e.fp # NoFile /\ e.file = b.file
        BY <3>2, <4>1, <4>5
      <4>6. QED
        BY <4>2, <4>3, <4>4, <4>5 DEF Seen
    <3>3. QED
      BY <3>1, <3>2
  <2>5. QED
    BY <2>2, <2>3, <2>4
<1>8. QED
  BY <1>6, <1>7 DEF Founded

\* The blocks that wait at a handler: its batch, then its queue.
JoinedFacts(x, y) ==
  /\ x \o y \in Seq(Blocks)
  /\ \A b : (\E k \in 1..Len(x \o y) : (x \o y)[k] = b) =>
       (\E k \in DOMAIN x : x[k] = b) \/ (\E k \in DOMAIN y : y[k] = b)
  /\ \A b \in Blocks : x \o Append(y, b) = Append(x \o y, b)
  /\ x = <<>> => x \o y = y
  /\ x # <<>> => /\ x \o y # <<>> /\ (x \o y)[1] = Head(x)
                 /\ Tail(x) \o y = Tail(x \o y)

LEMMA Joined ==
  ASSUME NEW x \in Seq(Blocks), NEW y \in Seq(Blocks)
  PROVE  JoinedFacts(x, y)
<1> DEFINE z == x \o y
<1>1. /\ z \in Seq(Blocks) /\ Len(z) = Len(x) + Len(y)
      /\ Len(x) \in Nat /\ Len(y) \in Nat
      /\ DOMAIN x = 1..Len(x) /\ DOMAIN y = 1..Len(y)
      /\ \A k \in 1..(Len(x) + Len(y)) :
           z[k] = IF k <= Len(x) THEN x[k] ELSE y[k - Len(x)]
  BY ConcatProperties, BlockSeqs
<1> HIDE DEF z
<1>2. ASSUME NEW b, NEW k \in 1..Len(z), z[k] = b
      PROVE  (\E l \in DOMAIN x : x[l] = b) \/ (\E l \in DOMAIN y : y[l] = b)
  <2>1. CASE k <= Len(x)
    BY <1>1, <1>2, <2>1
  <2>2. CASE ~(k <= Len(x))
    <3>1. k - Len(x) \in 1..Len(y) /\ z[k] = y[k - Len(x)]
      BY <1>1, <2>2
    <3>2. QED
      BY <1>1, <1>2, <3>1
  <2>3. QED
    BY <2>1, <2>2
<1>3. ASSUME NEW b \in Blocks
      PROVE  x \o Append(y, b) = Append(z, b)
  <2>1. Append(y, b) = y \o <<b>> /\ Append(z, b) = z \o <<b>>
    BY <1>1, AppendIsConcat
  <2>2. <<b>> \in Seq(Blocks)
    OBVIOUS
  <2>3. (x \o y) \o <<b>> = x \o (y \o <<b>>)
    BY <2>2, ConcatAssociative
  <2>4. QED
    BY <2>1, <2>3 DEF z
<1>4. x = <<>> => z = y
  BY ConcatEmptySeq DEF z
<1>5. ASSUME x # <<>>
      PROVE  z # <<>> /\ z[1] = Head(x) /\ Tail(x) \o y = Tail(z)
  <2> DEFINE u == Tail(x)
             v == Tail(z)
             w == u \o y
  <2>1. Len(x) > 0 /\ Head(x) = x[1]
    BY <1>5, BlockSeqs
  <2>2. z # <<>> /\ z[1] = x[1]
    <3>1. 1 \in 1..(Len(x) + Len(y)) /\ 1 <= Len(x)
      BY <1>1, <2>1
    <3>2. z[1] = x[1] /\ Len(z) # 0
      BY <1>1, <2>1, <3>1
    <3>3. QED
      BY <1>1, <3>2, EmptySeq
  <2>3. /\ u \in Seq(Blocks) /\ Len(u) = Len(x) - 1
        /\ \A k \in 1..Len(u) : u[k] = x[k + 1]
    BY <1>5, BlockSeqs
  <2>4. /\ v \in Seq(Blocks) /\ Len(v) = Len(z) - 1
        /\ \A k \in 1..Len(v) : v[k] = z[k + 1]
    BY <1>1, <2>2, BlockSeqs
  <2> HIDE DEF u, v
  <2>5. /\ w \in Seq(Blocks) /\ Len(w) = Len(u) + Len(y)
        /\ \A k \in 1..(Len(u) + Len(y)) :
             w[k] = IF k <= Len(u) THEN u[k] ELSE y[k - Len(u)]
    BY <2>3, ConcatProperties
  <2> HIDE DEF w
  <2>6. Len(w) = Len(v)
    BY <1>1, <2>3, <2>4, <2>5
  <2>7. ASSUME NEW k \in 1..Len(w)
        PROVE  w[k] = v[k]
    <3>1. /\ k \in 1..(Len(u) + Len(y)) /\ k + 1 \in 1..(Len(x) + Len(y))
          /\ v[k] = z[k + 1]
      BY <1>1, <2>3, <2>4, <2>5, <2>6
    <3>2. CASE k <= Len(u)
      <4>1. k + 1 <= Len(x) /\ k \in 1..Len(u)
        BY <1>1, <2>3, <3>2
      <4>2. w[k] = u[k] /\ u[k] = x[k + 1] /\ z[k + 1] = x[k + 1]
        BY <1>1, <2>3, <2>5, <3>1, <3>2, <4>1
      <4>3. QED
        BY <3>1, <4>2
    <3>3. CASE ~(k <= Len(u))
      <4>1. ~(k + 1 <= Len(x)) /\ (k + 1) - Len(x) = k - Len(u)
        BY <1>1, <2>3, <3>3
      <4>2. w[k] = y[k - Len(u)] /\ z[k + 1] = y[(k + 1) - Len(x)]
        BY <1>1, <2>5, <3>1, <3>3, <4>1
      <4>3. QED
        BY <3>1, <4>1, <4>2
    <3>4. QED
      BY <3>2, <3>3
  <2>8. w = v
    BY <2>4, <2>5, <2>6, <2>7, SeqEqual
  <2>9. QED
    BY <2>1, <2>2, <2>8 DEF u, v, w
<1>6. QED
  BY <1>1, <1>2, <1>3, <1>4, <1>5 DEF JoinedFacts, z

-----------------------------------------------------------------------------
(***************************************************************************)
(* The invariant about acknowledged blocks, device by device.              *)
(***************************************************************************)
Pipe(d) == writer[d].batch \o writer[d].queue

InFile(d, b) ==
  \E i \in DOMAIN disk :
    disk[i].device = d /\ \E k \in DOMAIN disk[i].blocks : disk[i].blocks[k] = b

Held(d, b) == (\E k \in 1..Len(Pipe(d)) : Pipe(d)[k] = b) \/ InFile(d, b)

Good(d) ==
  /\ Ordered(Pipe(d), writer[d].current, sending[d])
  /\ Founded(Pipe(d), writer[d].current, sending[d], acked[d])
  /\ \A b \in acked[d] : ~IsEnd(b) => Held(d, b)

\* A handler that is gone leaves nothing behind.
Unused ==
  \A d \in Devices : ~writer[d].on => writer[d] = NoWriter /\ acked[d] = {}

Kept == Unused /\ (faults = 0 => \A d \in Devices : Good(d))

LEMMA DeviceTypes ==
  ASSUME TypeOK, NEW d \in Devices
  PROVE  /\ writer[d] \in Writers /\ writer[d].batch \in Seq(Blocks)
         /\ writer[d].queue \in Seq(Blocks)
         /\ Pipe(d) \in Seq(Blocks)
         /\ writer[d].current \in [Types -> Entries]
         /\ sending[d] \in [Types -> Places] /\ acked[d] \in SUBSET Blocks
<1>1. /\ writer[d] \in Writers /\ sending[d] \in [Types -> Places]
      /\ acked[d] \in SUBSET Blocks
  BY DEF TypeOK
<1>2. /\ writer[d].batch \in Seq(Blocks) /\ writer[d].queue \in Seq(Blocks)
      /\ writer[d].current \in [Types -> Entries]
  BY <1>1 DEF Writers
<1>3. QED
  BY <1>1, <1>2, Joined DEF JoinedFacts, Pipe

\* The blocks of a file stay in it.
BlocksStay == \A d, b : InFile(d, b) => InFile(d, b)'

LEMMA SameBlocksStay == SameFiles => BlocksStay
BY DEF SameFiles, BlocksStay, InFile

LEMMA GrownBlocksStay ==
  ASSUME TypeOK, NEW d \in Devices, NEW b \in Blocks, NEW i \in Nat,
         Grown(i, d, b)
  PROVE  BlocksStay /\ InFile(d, b)'
<1>1. \A j \in DOMAIN disk : disk[j].blocks \in Seq(Blocks)
  BY FilesTyped DEF TypeOK
<1>2. CASE i \notin DOMAIN disk
  <2>1. BlocksStay
    BY <1>2 DEF Grown, BlocksStay, InFile
  <2>2. disk'[i].blocks = <<b>> /\ disk'[i].device = d /\ i \in DOMAIN disk'
    BY <1>2 DEF Grown
  <2>3. 1 \in DOMAIN disk'[i].blocks /\ disk'[i].blocks[1] = b
    BY <2>2
  <2>4. QED
    BY <2>1, <2>2, <2>3 DEF InFile
<1>3. CASE i \in DOMAIN disk
  <2> DEFINE bs == disk[i].blocks
             as == Append(bs, b)
  <2>1. /\ bs \in Seq(Blocks) /\ disk'[i].blocks = as /\ disk[i].device = d
        /\ disk'[i].device = d /\ DOMAIN disk' = DOMAIN disk
        /\ \A j \in DOMAIN disk : j # i => disk'[j] = disk[j]
    BY <1>1, <1>3 DEF Grown
  <2>2. /\ as \in Seq(Blocks) /\ Len(as) = Len(bs) + 1 /\ Len(bs) \in Nat
        /\ DOMAIN bs = 1..Len(bs)
        /\ as[Len(bs) + 1] = b /\ \A k \in 1..Len(bs) : as[k] = bs[k]
    BY <2>1, BlockSeqs
  <2> HIDE DEF as, bs
  <2>3. DOMAIN as = 1..(Len(bs) + 1)
    BY <2>2, BlockSeqs
  <2>4. /\ \A k \in DOMAIN bs : k \in DOMAIN as /\ as[k] = bs[k]
        /\ Len(bs) + 1 \in DOMAIN as
    <3>1. Len(bs) \in Nat => /\ Len(bs) + 1 \in 1..(Len(bs) + 1)
                             /\ 1..Len(bs) \subseteq 1..(Len(bs) + 1)
      OBVIOUS
    <3>2. QED
      BY <2>2, <2>3, <3>1
  <2>5. InFile(d, b)'
    <3>1. i \in DOMAIN disk' /\ disk'[i].device = d
      BY <1>3, <2>1
    <3>2. \E k \in DOMAIN disk'[i].blocks : disk'[i].blocks[k] = b
      BY <2>1, <2>2, <2>4
    <3>3. QED
      BY <3>1, <3>2 DEF InFile
  <2>6. ASSUME NEW x, NEW y, InFile(x, y)
        PROVE  InFile(x, y)'
    <3>1. PICK j \in DOMAIN disk : disk[j].device = x
                 /\ \E k \in DOMAIN disk[j].blocks : disk[j].blocks[k] = y
      BY <2>6 DEF InFile
    <3>2. j \in DOMAIN disk' /\ disk'[j].device = x
      BY <2>1, <3>1
    <3>3. \E k \in DOMAIN disk'[j].blocks : disk'[j].blocks[k] = y
      BY <2>1, <2>4, <3>1 DEF bs
    <3>4. QED
      BY <3>2, <3>3 DEF InFile
  <2>7. QED
    BY <2>5, <2>6 DEF BlocksStay
<1>4. QED
  BY <1>2, <1>3

\* Nothing happens to this device's blocks.
LEMMA GoodStays ==
  ASSUME NEW d \in Devices, Good(d), BlocksStay, Pipe(d)' = Pipe(d),
         writer'[d].current = writer[d].current,
         sending'[d] = sending[d], acked'[d] = acked[d]
  PROVE  Good(d)'
BY DEF Good, Held, BlocksStay

\* A handler starts with nothing.
LEMMA FreshIsGood ==
  ASSUME NEW s \in [Types -> Places]
  PROVE  Ordered(<<>>, Fresh, s) /\ Founded(<<>>, Fresh, s, {})
<1>1. Len(<<>>) = 0
  OBVIOUS
<1>2. \A t \in Types : NotAfter(Fresh[t], s[t])
  BY BlockFields DEF Fresh, NotOpen, NotAfter
<1>3. Ordered(<<>>, Fresh, s)
  BY <1>1, <1>2 DEF Ordered
<1>4. Founded(<<>>, Fresh, s, {})
  BY <1>1 DEF Founded
<1>5. QED
  BY <1>3, <1>4

LEMMA EmptyGood ==
  ASSUME NEW d \in Devices, sending'[d] \in [Types -> Places],
         writer'[d].batch = <<>>, writer'[d].queue = <<>>,
         writer'[d].current = Fresh, acked'[d] = {}
  PROVE  Good(d)'
<1>1. Pipe(d)' = <<>>
  BY BlockSeqs, ConcatEmptySeq DEF Pipe
<1>2. /\ Ordered(<<>>, Fresh, sending'[d])
      /\ Founded(<<>>, Fresh, sending'[d], {})
  BY FreshIsGood
<1>3. QED
  BY <1>1, <1>2 DEF Good

\* What Handler makes of the handlers and of the acknowledged blocks.
HandledTo(d, b, w) ==
  /\ writer' = [writer EXCEPT ![d] = w]
  /\ Queued(d, b, w) \/ w = writer[d]
  /\ \A e \in Devices : e # d => acked'[e] = acked[e]
  /\ acked'[d] \in {acked[d], acked[d] \cup {b}}
  /\ \/ acked'[d] = acked[d]
     \/ w.on /\ Queued(d, b, w) /\ Created(d, b)
  /\ enabled => Queued(d, b, w)

LEMMA HandleFacts ==
  ASSUME TypeOK, NEW d \in Devices, NEW b \in Blocks, NEW asks,
         Handle(d, b, asks)
  PROVE  \E w \in Writers : HandledTo(d, b, w)
<1>1. /\ writer \in [Devices -> Writers] /\ writer[d] \in Writers
      /\ acked \in [Devices -> SUBSET Blocks]
  BY DEF TypeOK
<1>2. CASE enabled
  <2>1. PICK w \in Writers : /\ Queued(d, b, w)
                             /\ writer' = [writer EXCEPT ![d] = w]
    BY <1>2, HandlerQueues DEF Handle
  <2>2. \/ acked' = acked
        \/ /\ acked' = [acked EXCEPT ![d] = @ \cup {b}]
           /\ Created(d, b) /\ writer'[d].on
    BY <1>2 DEF Handle
  <2>3. writer'[d] = w
    BY <1>1, <2>1
  <2>4. CASE acked' = acked
    BY <2>1, <2>4 DEF HandledTo
  <2>5. CASE /\ acked' = [acked EXCEPT ![d] = @ \cup {b}]
             /\ Created(d, b) /\ writer'[d].on
    <3>1. /\ acked'[d] = acked[d] \cup {b}
          /\ \A e \in Devices : e # d => acked'[e] = acked[e]
      BY <1>1, <2>5
    <3>2. QED
      BY <2>1, <2>3, <2>5, <3>1 DEF HandledTo
  <2>6. QED
    BY <2>2, <2>4, <2>5
<1>3. CASE ~enabled
  <2>1. writer' = [writer EXCEPT ![d] = writer[d]] /\ acked' = acked
    BY <1>1, <1>3 DEF Handle
  <2>2. HandledTo(d, b, writer[d])
    BY <1>3, <2>1 DEF HandledTo
  <2>3. QED
    BY <1>1, <2>2
<1>4. QED
  BY <1>2, <1>3

LEMMA UnusedKept ==
  ASSUME Base, Unused, [Next]_vars
  PROVE  Unused'
<1>1. /\ writer \in [Devices -> Writers]
      /\ acked \in [Devices -> SUBSET Blocks]
  BY DEF Base, TypeOK
<1>2. ASSUME writer' = writer, acked' = acked
      PROVE  Unused'
  BY <1>2 DEF Unused
<1>3. ASSUME NEW d \in Devices, NEW w, writer' = [writer EXCEPT ![d] = w],
             \A e \in Devices : e # d => acked'[e] = acked[e],
             w.on \/ (w = writer[d] /\ acked'[d] = acked[d])
      PROVE  Unused'
  BY <1>1, <1>3 DEF Unused
<1>4. ASSUME NEW d \in Devices, NEW b \in Blocks, NEW asks,
             Handle(d, b, asks)
      PROVE  Unused'
  <2>1. PICK w \in Writers : HandledTo(d, b, w)
    BY <1>4, HandleFacts DEF Base
  <2>2. w.on \/ (w = writer[d] /\ acked'[d] = acked[d])
    <3>1. w.on \/ w = writer[d]
      <4>1. Queued(d, b, w) \/ w = writer[d]
        BY <2>1 DEF HandledTo
      <4>2. Queued(d, b, w) => w.on \/ w = writer[d]
        BY DEF Queued
      <4>3. QED
        BY <4>1, <4>2
    <3>2. w.on \/ acked'[d] = acked[d]
      BY <2>1 DEF HandledTo
    <3>3. QED
      BY <3>1, <3>2
  <2>3. /\ writer' = [writer EXCEPT ![d] = w]
        /\ \A e \in Devices : e # d => acked'[e] = acked[e]
    BY <2>1 DEF HandledTo
  <2>4. QED
    BY <1>3, <2>2, <2>3
<1>5. CASE UNCHANGED vars
  BY <1>2, <1>5 DEF vars
<1>6. ASSUME NEW d \in Devices, NEW t \in Types, NEW x \in BOOLEAN,
             Push(d, t, x)
      PROVE  Unused'
  <2>1. Current(d, t) \in Blocks
    BY <1>6, FollowingTyped DEF Push, Base
  <2>2. QED
    BY <1>4, <1>6, <2>1 DEF Push
<1>7. ASSUME NEW d \in Devices, NEW b \in Blocks, PushLate(d, b)
      PROVE  Unused'
  BY <1>4, <1>7 DEF PushLate
<1>8. ASSUME NEW d \in Devices, StartLogger(d)
      PROVE  Unused'
  <2>1. writer' = [writer EXCEPT ![d] = NewWriter] /\ acked' = acked
    BY <1>8 DEF StartLogger, WithHandler
  <2>2. QED
    BY <1>3, <2>1, NewWriterFacts
<1>9. ASSUME NEW d \in Devices, JoinWriter(d)
      PROVE  Unused'
  BY <1>1, <1>9 DEF JoinWriter, Unused
<1>10. ASSUME NEW d \in Devices, Take(d)
       PROVE  Unused'
  <2>1. /\ writer' = [writer EXCEPT ![d] = Swap(writer[d])]
        /\ writer[d].on /\ acked' = acked /\ writer[d] \in Writers
    BY <1>1, <1>10 DEF Take
  <2>2. Swap(writer[d]).on
    BY <2>1 DEF Swap, Writers
  <2>3. QED
    BY <1>3, <2>1, <2>2
<1>11. ASSUME NEW d \in Devices, StopWriter(d)
       PROVE  Unused'
  <2>1. /\ writer' = [writer EXCEPT ![d] = [writer[d] EXCEPT !.stop = TRUE]]
        /\ writer[d].on /\ acked' = acked /\ writer[d] \in Writers
    BY <1>1, <1>11 DEF StopWriter
  <2>2. [writer[d] EXCEPT !.stop = TRUE].on
    BY <2>1 DEF Writers
  <2>3. QED
    BY <1>3, <2>1, <2>2
<1>12. ASSUME NEW d \in Devices, Process(d)
       PROVE  Unused'
  <2>1. PICK e \in Entries :
          /\ writer[d].on /\ writer[d].batch # <<>>
          /\ writer' = [writer EXCEPT ![d] = Processed(d, e)]
    BY <1>12, ProcessCases
  <2>2. Processed(d, e).on /\ acked' = acked
    BY <1>12, <2>1, ProcessedFacts DEF Base, Process
  <2>3. QED
    BY <1>3, <2>1, <2>2
<1>13. CASE \/ \E o \in Outcomes : InitManager(o)
            \/ Stopping \/ CycleDelete \/ Wake(TRUE)
            \/ \E d \in Devices : \/ AddDevice(d)
                                  \/ \E t \in Types : LoseBlock(d, t)
  <2>1. acked' = acked /\ writer' = writer
    BY <1>13 DEF InitManager, Stopping, RequestQuit, JoinCleaner, EndDestory,
                 AddDevice, LoseBlock, CycleDelete, Wake, EndRound, CheckEnable
  <2>2. QED
    BY <1>2, <2>1
<1>14. QED
  BY <1>5, <1>6, <1>7, <1>8, <1>9, <1>10, <1>11, <1>12, <1>13 DEF Next

\* The device is at the block it sends, and then at a later one.
LEMMA PlaceMoves ==
  ASSUME TypeOK, NEW d \in Devices, NEW t \in Types, NEW x \in BOOLEAN,
         Push(d, t, x)
  PROVE  /\ Current(d, t) \in Blocks /\ Current(d, t).type = t
         /\ Current(d, t).file = sending[d][t].file
         /\ Current(d, t).trans = sending[d][t].trans
         /\ \A u \in Types : NotAfter(sending[d][u], sending'[d][u])
         /\ \A e \in Devices : e # d => sending'[e] = sending[e]
<1> DEFINE s == sending[d][t]
<1>1. /\ Current(d, t) \in Blocks /\ Current(d, t).type = t
      /\ Current(d, t).file = s.file /\ Current(d, t).trans = s.trans
  BY FollowingTyped DEF Push, Current, Block
<1>2. \A u \in Types : /\ sending[d][u] \in Places
                       /\ NotAfter(sending[d][u], sending[d][u])
  <2>1. \A u \in Types : sending[d][u] \in Places
    BY DEF TypeOK
  <2>2. QED
    BY <2>1, BlockFields DEF NotAfter
<1>3. NotAfter(s, Following(s))
  <2>1. CASE s.trans = LastBlock
    BY <1>2, <2>1, BlockFields DEF Following, NotAfter
  <2>2. CASE s.trans # LastBlock
    <3> HIDE DEF s
    <3>1. s \in Places /\ s.file \in Nat /\ s.trans \in Nat
      BY <1>2, BlockFields DEF s
    <3>2. Following(s) = [s EXCEPT !.trans = s.trans + 1]
      BY <2>2 DEF Following
    <3>3. Following(s).file = s.file /\ Following(s).trans = s.trans + 1
      BY <3>1, <3>2 DEF Places
    <3>4. QED
      BY <3>1, <3>3 DEF NotAfter
  <2>3. QED
    BY <2>1, <2>2
<1> DEFINE f == Following(s)
<1>4. \/ sending' = sending
      \/ sending' = [sending EXCEPT ![d][t] = f]
  BY DEF Push
<1>5. CASE sending' = sending
  BY <1>1, <1>2, <1>5
<1>6. CASE sending' = [sending EXCEPT ![d][t] = f]
  <2> HIDE DEF f
  <2>1. /\ sending \in [Devices -> [Types -> Places]]
        /\ sending[d] \in [Types -> Places]
    BY DEF TypeOK
  <2>2. /\ sending'[d] = [sending[d] EXCEPT ![t] = f]
        /\ \A e \in Devices : e # d => sending'[e] = sending[e]
    BY <1>6, <2>1
  <2>3. \A u \in Types : sending'[d][u] = IF u = t THEN f ELSE sending[d][u]
    BY <2>1, <2>2
  <2>4. \A u \in Types : NotAfter(sending[d][u], sending'[d][u])
    BY <1>2, <1>3, <2>3 DEF f
  <2>5. QED
    BY <1>1, <2>2, <2>4
<1>7. QED
  BY <1>4, <1>5, <1>6

\* The block goes behind those that wait at a handler that is there or made.
LEMMA QueuedJoins ==
  ASSUME TypeOK, Unused, NEW d \in Devices, NEW b \in Blocks,
         NEW w \in Writers, Queued(d, b, w), w.on
  PROVE  /\ w.batch \o w.queue = Append(Pipe(d), b)
         /\ w.current = writer[d].current
<1>1. /\ writer[d].batch \in Seq(Blocks) /\ writer[d].queue \in Seq(Blocks)
  BY DeviceTypes
<1>2. CASE writer[d].on
  <2>1. /\ w.queue = Append(writer[d].queue, b)
        /\ w.batch = writer[d].batch /\ w.current = writer[d].current
    BY <1>2 DEF Queued
  <2>2. JoinedFacts(writer[d].batch, writer[d].queue)
    BY <1>1, Joined
  <2>3. writer[d].batch \o Append(writer[d].queue, b) = Append(Pipe(d), b)
    BY <2>2 DEF JoinedFacts, Pipe
  <2>4. QED
    BY <2>1, <2>3
<1>3. CASE ~writer[d].on
  <2>1. /\ w.queue = <<b>> /\ w.batch = <<>> /\ w.current = Fresh
    BY <1>3 DEF Queued
  <2>2. writer[d] = NoWriter
    BY <1>3 DEF Unused
  <2>3. Pipe(d) = <<>> /\ writer[d].current = Fresh
    BY <1>1, <2>2, NewWriterFacts, Joined DEF JoinedFacts, Pipe
  <2>4. <<>> \o <<b>> = <<b>> /\ Append(<<>>, b) = <<b>>
    <3>1. <<b>> \in Seq(Blocks)
      OBVIOUS
    <3>2. <<>> \o <<b>> = <<b>>
      BY <3>1, ConcatEmptySeq
    <3>3. QED
      BY <3>2
  <2>5. QED
    BY <2>1, <2>3, <2>4
<1>4. QED
  BY <1>2, <1>3

\* Handler acknowledges the block it queues.
LEMMA PushKeepsGood ==
  ASSUME TypeOK, TypeOK', Unused, NEW d \in Devices, NEW t \in Types,
         NEW x \in BOOLEAN, Push(d, t, x), \A e \in Devices : Good(e)
  PROVE  \A e \in Devices : Good(e)'
<1> DEFINE b == Current(d, t)
<1>1. /\ b \in Blocks /\ b.type = t /\ b.file = sending[d][t].file
      /\ b.trans = sending[d][t].trans
      /\ \A u \in Types : NotAfter(sending[d][u], sending'[d][u])
      /\ \A e \in Devices : e # d => sending'[e] = sending[e]
  BY PlaceMoves
<1> HIDE DEF b
<1>2. PICK w \in Writers : HandledTo(d, b, w)
  BY <1>1, HandleFacts DEF Push, b
<1>3. /\ writer' = [writer EXCEPT ![d] = w]
      /\ writer'[d] = w /\ \A e \in Devices : e # d => writer'[e] = writer[e]
  <2>1. writer' = [writer EXCEPT ![d] = w] /\ writer \in [Devices -> Writers]
    BY <1>2 DEF HandledTo, TypeOK
  <2>2. QED
    BY <2>1
<1>4. BlocksStay
  BY DEF Push, BlocksStay, InFile
<1>5. ASSUME NEW e \in Devices, e # d
      PROVE  Good(e)'
  <2>1. /\ writer'[e] = writer[e] /\ sending'[e] = sending[e]
        /\ acked'[e] = acked[e]
    BY <1>1, <1>2, <1>3, <1>5 DEF HandledTo
  <2>2. Pipe(e)' = Pipe(e)
    BY <2>1 DEF Pipe
  <2>3. QED
    BY <1>4, <2>1, <2>2, GoodStays
<1>6. CASE ~enabled
  <2>1. writer' = writer /\ acked' = acked /\ sending' = sending
    BY <1>6 DEF Push, Handle
  <2>2. Pipe(d)' = Pipe(d)
    BY <2>1 DEF Pipe
  <2>3. Good(d)'
    BY <1>4, <2>1, <2>2, GoodStays
  <2>4. QED
    BY <1>5, <2>3
<1>7. CASE enabled /\ ~w.on
  <2>1. Queued(d, b, w) /\ acked'[d] = acked[d]
    BY <1>2, <1>7 DEF HandledTo
  <2>2. w = writer[d] /\ ~writer[d].on
    BY <1>7, <2>1 DEF Queued
  <2>3. w = NoWriter /\ acked'[d] = {}
    BY <2>1, <2>2 DEF Unused
  <2>4. sending'[d] \in [Types -> Places]
    BY DEF TypeOK
  <2>5. Good(d)'
    BY <1>3, <2>3, <2>4, NewWriterFacts, EmptyGood
  <2>6. QED
    BY <1>5, <2>5
<1>8. CASE enabled /\ w.on
  <2> DEFINE p == Pipe(d)
             q == Append(p, b)
             cur == writer[d].current
             s == sending[d]
             s2 == sending'[d]
             A == acked[d]
             A2 == acked'[d]
  <2>1. Queued(d, b, w)
    BY <1>2, <1>8 DEF HandledTo
  <2>2. Pipe(d)' = q /\ writer'[d].current = cur
    <3>1. w.batch \o w.queue = q /\ w.current = cur
      BY <1>1, <1>8, <2>1, QueuedJoins
    <3>2. QED
      BY <1>3, <3>1 DEF Pipe
  <2>3. /\ p \in Seq(Blocks) /\ cur \in [Types -> Entries]
        /\ s \in [Types -> Places] /\ s2 \in [Types -> Places]
        /\ A \in SUBSET Blocks
    <3>1. sending'[d] \in [Types -> Places]
      BY DEF TypeOK
    <3>2. QED
      BY <3>1, DeviceTypes
  <2>4. A2 \in {A, A \cup {b}} /\ (A2 = A \/ Created(d, b))
    BY <1>2 DEF HandledTo
  <2>5. /\ Ordered(p, cur, s) /\ Founded(p, cur, s, A)
        /\ \A a \in A : ~IsEnd(a) => Held(d, a)
    BY DEF Good
  <2>6. \A a \in A2 : \E y \in A2 : Starts(y, a)
    <3>1. \A a \in A : \E y \in A : Starts(y, a)
      BY <2>5 DEF Founded
    <3>2. CASE A2 = A
      BY <3>1, <3>2
    <3>3. CASE A2 = A \cup {b} /\ Created(d, b)
      <4>1. \E y \in A2 : Starts(y, b)
        BY <3>3 DEF Created, Starts
      <4>2. QED
        BY <3>1, <3>3, <4>1
    <3>4. QED
      BY <2>4, <3>2, <3>3
  <2>7. NotAfter(b, s[b.type]) /\ NotAfter(s[b.type], b)
    BY <1>1, BlockFields DEF NotAfter
  <2>8. /\ b.file = s[b.type].file /\ b.trans = s[b.type].trans
        /\ \A u \in Types : NotAfter(s[u], s2[u])
    BY <1>1
  <2>9. \A a \in A2 : ~IsEnd(a) => Held(d, a)'
    <3>1. /\ Len(q) = Len(p) + 1 /\ q[Len(p) + 1] = b /\ Len(p) \in Nat
          /\ \A k \in 1..Len(p) : q[k] = p[k]
      BY <1>1, <2>3, BlockSeqs
    <3>2. SUFFICES ASSUME NEW a \in A2, ~IsEnd(a)
                   PROVE  \/ \E k \in 1..Len(q) : q[k] = a
                          \/ InFile(d, a)'
      BY <2>2 DEF Held
    <3> HIDE DEF q
    <3>3. CASE a = b
      <4>1. Len(p) + 1 \in 1..Len(q)
        BY <3>1
      <4>2. QED
        BY <3>1, <3>3, <4>1
    <3>4. CASE a # b
      <4>1. Held(d, a)
        BY <2>4, <2>5, <3>2, <3>4
      <4>2. CASE InFile(d, a)
        BY <1>4, <4>2 DEF BlocksStay
      <4>3. CASE \E k \in 1..Len(p) : p[k] = a
        <5>1. \A k \in 1..Len(p) : k \in 1..Len(q)
          BY <3>1
        <5>2. QED
          BY <3>1, <4>3, <5>1
      <4>4. QED
        BY <4>1, <4>2, <4>3 DEF Held
    <3>5. QED
      BY <3>3, <3>4
  <2> HIDE DEF p, q, cur, s, s2, A, A2
  <2>10. Ordered(q, cur, s2)
    BY <1>1, <2>3, <2>5, <2>7, <2>8, AppendOrdered DEF q
  <2>11. Founded(q, cur, s2, A2)
    <3>1. /\ q = Append(p, b) /\ A2 \in SUBSET Blocks
          /\ \A a \in A2 : a \in A \/ a = b
      BY <1>1, <2>3, <2>4 DEF q
    <3>2. Ordered(p, cur, s) /\ Founded(p, cur, s, A)
      BY <2>5
    <3>3. QED
      BY ONLY <1>1, <2>3, <2>6, <2>8, <3>1, <3>2, AppendFounded
  <2>12. Good(d)'
    BY <2>2, <2>9, <2>10, <2>11 DEF Good, s2, A2
  <2>13. QED
    BY <1>5, <2>12
<1>9. QED
  BY <1>6, <1>7, <1>8

\* What Process makes of the entry, and when it writes the block.
LEMMA OutcomeSeen ==
  ASSUME TypeOK, NEW d \in Devices, NEW e \in Entries, Outcomed(d, e),
         faults' = faults
  PROVE  Seen(First(d), Entry(d), e)
<1>1. faults' # faults + 1
  BY DEF TypeOK
<1>2. CASE Skipped(d, e)
  BY <1>2 DEF Skipped, Seen
<1>3. CASE Ended(d, e)
  BY <1>3 DEF Ended, Seen
<1>4. CASE Unopened(d, e)
  BY <1>4 DEF Unopened, Opened, Seen, Inside
<1>5. CASE \E i \in Nat : Stored(d, e, i)
  BY <1>5 DEF Stored, Opened, Seen
<1>6. QED
  BY <1>1, <1>2, <1>3, <1>4, <1>5 DEF Outcomed, NotMade

LEMMA FirstIsWritten ==
  ASSUME TypeOK, NEW d \in Devices, writer[d].batch # <<>>,
         NEW e \in Entries, Outcomed(d, e), faults' = faults,
         Pipe(d)[1] = First(d), 1 \in 1..Len(Pipe(d)),
         Len(Pipe(d)) \in Nat, Good(d),
         First(d) \in acked[d], ~IsEnd(First(d))
  PROVE  \E i \in Nat : Stored(d, e, i)
<1> DEFINE b == First(d)
           c == Entry(d)
<1>1. /\ b \in Blocks /\ c \in Entries /\ b.type \in Types
  BY FirstIsTyped
<1>2. NotAfter(c, b)
  BY DEF Good, Ordered, Entry
<1>3. ASSUME Inside(b)
      PROVE  c.file = b.file /\ c.fp # NoFile
  <2>1. \/ \E j \in 1..Len(Pipe(d)) : j < 1 /\ Starts(Pipe(d)[j], b)
        \/ c.file = b.file /\ c.fp # NoFile
    BY <1>3 DEF Good, Founded, Entry
  <2>2. \A j \in 1..Len(Pipe(d)) : ~(j < 1)
    OBVIOUS
  <2>3. QED
    BY <2>1, <2>2
<1>4. ~Skipped(d, e)
  <2>1. SUFFICES ASSUME Skipped(d, e) PROVE FALSE
    OBVIOUS
  <2>2. Inside(b) /\ (IsStale(c, b) \/ c.file # b.file)
    BY <2>1 DEF Skipped, Inside
  <2>3. c.file = b.file /\ b.trans < c.trans
    BY <1>3, <2>2 DEF IsStale
  <2>4. QED
    BY <1>1, <1>2, <2>3, BlockFields DEF NotAfter
<1>5. ~NotMade(d, e) /\ ~Ended(d, e)
  BY DEF NotMade, Ended, TypeOK
<1>6. ~Unopened(d, e)
  BY <1>3 DEF Unopened, Inside
<1>7. QED
  BY <1>4, <1>5, <1>6 DEF Outcomed

LEMMA ProcessFacts ==
  ASSUME Base, NEW d \in Devices, Process(d)
  PROVE  \E e \in Entries :
           /\ writer[d].batch # <<>> /\ Outcomed(d, e) /\ EntrySet(d, e)
           /\ writer'[d] = Processed(d, e)
           /\ \A x \in Devices : x # d => writer'[x] = writer[x]
           /\ sending' = sending /\ acked' = acked
<1>1. UNCHANGED <<manager, cleaner, cond, sending, acked, repeats>>
  BY Zenon DEF Process
<1>2. TypeOK
  BY DEF Base
<1>3. PICK e \in Entries :
        /\ writer[d].batch # <<>> /\ Outcomed(d, e)
        /\ writer' = [writer EXCEPT ![d] = Processed(d, e)]
  BY ProcessCases
<1>4. EntrySet(d, e)
  BY <1>2, <1>3, ProcessSetsEntry
<1>5. /\ writer'[d] = Processed(d, e)
      /\ \A x \in Devices : x # d => writer'[x] = writer[x]
  BY <1>2, <1>3 DEF TypeOK
<1>6. QED
  BY <1>1, <1>3, <1>4, <1>5

LEMMA ProcessKeepsGood ==
  ASSUME Base, TypeOK', NEW d \in Devices, Process(d), faults' = faults,
         \A x \in Devices : Good(x)
  PROVE  \A x \in Devices : Good(x)'
<1>1. PICK e \in Entries :
        /\ writer[d].batch # <<>> /\ Outcomed(d, e) /\ EntrySet(d, e)
        /\ writer'[d] = Processed(d, e)
        /\ \A x \in Devices : x # d => writer'[x] = writer[x]
        /\ sending' = sending /\ acked' = acked
  BY ProcessFacts
<1>2. TypeOK
  BY DEF Base
<1>3. sending' = sending /\ acked' = acked
  BY <1>1
<1>4. /\ writer'[d] = Processed(d, e)
      /\ \A x \in Devices : x # d => writer'[x] = writer[x]
  BY <1>1
<1>5. /\ First(d) \in Blocks /\ First(d).type \in Types
      /\ Entry(d) \in Entries
  BY <1>1, FirstIsTyped DEF Base
<1>6. /\ BlocksStay
      /\ \A i \in Nat, b \in Blocks :
           b = First(d) /\ Stored(d, e, i) => InFile(d, b)'
  <2>1. ASSUME NEW i \in Nat, NEW b \in Blocks, b = First(d),
               Stored(d, e, i)
        PROVE  BlocksStay /\ InFile(d, b)'
    <3>1. Grown(i, d, b)
      BY <2>1 DEF Stored
    <3>2. QED
      BY <1>2, <3>1, GrownBlocksStay
  <2>2. CASE disk' = disk
    <3>1. BlocksStay
      BY <2>2 DEF BlocksStay, InFile
    <3>2. QED
      BY <2>1, <3>1
  <2>3. QED
    <3>1. disk' = disk \/ \E i \in Nat : Stored(d, e, i)
      BY <1>1, <1>2, OutcomeGrows
    <3>2. QED
      BY <1>5, <2>1, <2>2, <3>1
<1>7. ASSUME NEW x \in Devices, x # d
      PROVE  Good(x)'
  <2>1. writer'[x] = writer[x]
    BY <1>4, <1>7
  <2>2. Pipe(x)' = Pipe(x)
    BY <2>1 DEF Pipe
  <2>3. QED
    BY <1>3, <1>6, <2>1, <2>2, GoodStays
<1> DEFINE p == Pipe(d)
           q == Tail(p)
           cur == writer[d].current
           cur2 == writer'[d].current
           s == sending[d]
           A == acked[d]
<1>8. /\ p \in Seq(Blocks) /\ cur \in [Types -> Entries]
      /\ s \in [Types -> Places] /\ A \in SUBSET Blocks
      /\ writer[d].batch \in Seq(Blocks) /\ writer[d].queue \in Seq(Blocks)
  BY DeviceTypes DEF Base
<1>9. cur2 \in [Types -> Entries]
  BY DEF TypeOK, Writers
<1>10. p # <<>> /\ p[1] = First(d) /\ Pipe(d)' = q
  <2>1. JoinedFacts(writer[d].batch, writer[d].queue)
    BY <1>8, Joined
  <2>2. /\ p # <<>> /\ p[1] = First(d)
        /\ Tail(writer[d].batch) \o writer[d].queue = Tail(p)
    BY <1>1, <2>1 DEF JoinedFacts, Pipe, First
  <2>3. /\ writer'[d].batch = Tail(writer[d].batch)
        /\ writer'[d].queue = writer[d].queue
    BY <1>1, <1>4, ProcessedFacts DEF Base
  <2>4. QED
    BY <2>2, <2>3 DEF Pipe
<1>11. IsTail(q, p)
  BY <1>8, <1>10, TailFacts
<1>12. /\ Ordered(p, cur, s) /\ Founded(p, cur, s, A)
       /\ \A a \in A : ~IsEnd(a) => Held(d, a)
  BY DEF Good
<1>13. /\ cur2[p[1].type] = e /\ cur[p[1].type] = Entry(d)
       /\ \A t \in Types : t # p[1].type => cur2[t] = cur[t]
  BY <1>1, <1>5, <1>10 DEF EntrySet, Entry
<1>14. Seen(p[1], cur[p[1].type], cur2[p[1].type])
  BY <1>1, <1>10, <1>13, OutcomeSeen DEF Base
<1>15. NotAfter(cur2[p[1].type], p[1])
  <2> DEFINE b == First(d)
             c == Entry(d)
  <2>1. NotAfter(c, b)
    BY <1>10, <1>11, <1>12, <1>13 DEF Ordered, IsTail
  <2>2. Seen(b, c, e)
    BY <1>10, <1>13, <1>14
  <2>3. b \in Blocks /\ c \in Entries /\ e \in Entries
    BY <1>5
  <2> HIDE DEF b, c
  <2>4. NotAfter(e, b)
    BY <2>1, <2>2, <2>3, BlockFields DEF Seen, NotAfter
  <2>5. QED
    BY <1>10, <1>13, <2>4 DEF b
<1>16. \A a \in A : ~IsEnd(a) => Held(d, a)'
  <2> SUFFICES ASSUME NEW a \in A, ~IsEnd(a)
               PROVE  \/ \E k \in 1..Len(q) : q[k] = a
                      \/ InFile(d, a)'
    BY <1>3, <1>10 DEF Held
  <2>1. CASE InFile(d, a)
    BY <1>6, <2>1 DEF BlocksStay
  <2>2. ASSUME NEW k \in 1..Len(p), p[k] = a
        PROVE  \/ \E l \in 1..Len(q) : q[l] = a
               \/ InFile(d, a)'
    <3>1. CASE k = 1
      <4>1. First(d) = a
        BY <1>10, <2>2, <3>1
      <4>2. 1 \in 1..Len(Pipe(d)) /\ Len(Pipe(d)) \in Nat
        BY <1>11 DEF IsTail
      <4>3. PICK i \in Nat : Stored(d, e, i)
        <5>1. /\ Good(d) /\ First(d) \in acked[d] /\ ~IsEnd(First(d))
              /\ Pipe(d)[1] = First(d) /\ faults' = faults
          BY <1>10, <4>1
        <5>2. QED
          BY ONLY <1>1, <1>2, <4>2, <5>1, FirstIsWritten
      <4>4. QED
        BY <1>5, <1>6, <4>1, <4>3
    <3>2. CASE k # 1
      <4> HIDE DEF q, p
      <4>1. k - 1 \in 1..Len(q) /\ (k - 1) + 1 = k
        BY <1>11, <3>2 DEF IsTail
      <4>2. q[k - 1] = p[k]
        BY <1>11, <4>1 DEF IsTail
      <4>3. QED
        BY <2>2, <4>1, <4>2
    <3>3. QED
      BY <3>1, <3>2
  <2>3. Held(d, a)
    BY <1>12
  <2>4. QED
    BY <2>1, <2>2, <2>3 DEF Held
<1> HIDE DEF p, q, cur, cur2, s, A
<1>17. q = Tail(p)
  BY DEF q
<1>18. Ordered(q, cur2, s)
  BY ONLY <1>8, <1>9, <1>10, <1>12, <1>13, <1>15, <1>17, TailOrdered, Zenon
<1>19. Founded(q, cur2, s, A)
  BY ONLY <1>8, <1>9, <1>10, <1>12, <1>13, <1>14, <1>17, TailFounded
<1>20. Good(d)'
  BY <1>3, <1>10, <1>16, <1>18, <1>19 DEF Good, cur2, s, A
<1>21. QED
  BY <1>7, <1>20

\* The other steps leave the blocks of every device as they are.
Undisturbed(d) ==
  /\ Pipe(d)' = Pipe(d) /\ writer'[d].current = writer[d].current
  /\ sending'[d] = sending[d] /\ acked'[d] = acked[d]

LEMMA WriterStepsKeepGood ==
  ASSUME Base, TypeOK', Unused, NEW d \in Devices,
         StartLogger(d) \/ Take(d) \/ StopWriter(d) \/ JoinWriter(d),
         \A e \in Devices : Good(e)
  PROVE  \A e \in Devices : Good(e)'
<1>1. /\ writer \in [Devices -> Writers] /\ writer[d] \in Writers
      /\ acked \in [Devices -> SUBSET Blocks]
  BY DEF Base, TypeOK
<1>2. BlocksStay /\ sending' = sending
  BY DEF StartLogger, Take, StopWriter, JoinWriter, BlocksStay, InFile
<1>3. \A e \in Devices : Undisturbed(e) => Good(e)'
  BY <1>2, GoodStays DEF Undisturbed
<1>4. \A e \in Devices : e # d => /\ writer'[e] = writer[e]
                                  /\ acked'[e] = acked[e]
  BY <1>1 DEF StartLogger, Take, StopWriter, JoinWriter
<1>5. ASSUME NEW e \in Devices, e # d
      PROVE  Good(e)'
  <2>1. writer'[e] = writer[e] /\ acked'[e] = acked[e]
    BY <1>4, <1>5
  <2>2. Undisturbed(e)
    BY <1>2, <2>1 DEF Undisturbed, Pipe
  <2>3. QED
    BY <1>3, <2>2
<1>6. CASE StartLogger(d)
  <2>1. /\ writer'[d] = NewWriter /\ acked' = acked /\ ~writer[d].on
    BY <1>1, <1>6 DEF StartLogger, WithHandler
  <2>2. writer[d] = NoWriter
    BY <2>1 DEF Unused
  <2>3. Undisturbed(d)
    BY <1>2, <2>1, <2>2, NewWriterFacts DEF Undisturbed, Pipe
  <2>4. QED
    BY <1>3, <1>5, <2>3
<1>7. CASE Take(d)
  <2> DEFINE q == writer[d].queue
             w == Swap(writer[d])
  <2>1. /\ writer'[d] = w /\ acked' = acked /\ writer[d].batch = <<>>
    BY <1>1, <1>7 DEF Take
  <2>2. q \in Seq(Blocks) /\ <<>> \in Seq(Blocks)
    BY <1>1, BlockSeqs DEF Writers
  <2>3. PICK y \in Writers : y = [writer[d] EXCEPT !.batch = q]
    BY <1>1, <2>2 DEF Writers
  <2>4. y.batch = q /\ y.current = writer[d].current
    BY <1>1, <2>3 DEF Writers
  <2>5. w = [y EXCEPT !.queue = <<>>]
    BY <2>3 DEF Swap
  <2> HIDE DEF w, q
  <2>6. w.batch = q /\ w.queue = <<>> /\ w.current = writer[d].current
    BY <2>4, <2>5 DEF Writers
  <2>7. q \o <<>> = q /\ <<>> \o q = q
    BY <2>2, ConcatEmptySeq
  <2>8. Undisturbed(d)
    BY <1>2, <2>1, <2>6, <2>7 DEF Undisturbed, Pipe, q
  <2>9. QED
    BY <1>3, <1>5, <2>8
<1>8. CASE StopWriter(d)
  <2> DEFINE w == [writer[d] EXCEPT !.stop = TRUE]
  <2>1. writer'[d] = w /\ acked' = acked
    BY <1>1, <1>8 DEF StopWriter
  <2>2. /\ w.batch = writer[d].batch /\ w.queue = writer[d].queue
        /\ w.current = writer[d].current
    BY <1>1 DEF Writers
  <2> HIDE DEF w
  <2>3. Undisturbed(d)
    BY <1>2, <2>1, <2>2 DEF Undisturbed, Pipe
  <2>4. QED
    BY <1>3, <1>5, <2>3
<1>9. CASE JoinWriter(d)
  <2>1. writer'[d] = NoWriter /\ acked'[d] = {}
    BY <1>1, <1>9 DEF JoinWriter
  <2>2. sending'[d] \in [Types -> Places]
    BY DEF TypeOK
  <2>3. Good(d)'
    BY <2>1, <2>2, NewWriterFacts, EmptyGood
  <2>4. QED
    BY <1>5, <2>3
<1>10. QED
  BY <1>6, <1>7, <1>8, <1>9

LEMMA KeptInductive ==
  /\ Init => Kept
  /\ Contents /\ Contents' /\ Kept /\ [Next]_vars => Kept'
<1>1. Init => Kept
  <2> SUFFICES ASSUME Init PROVE Kept
    OBVIOUS
  <2>1. TypeOK
    BY TypesAtInit
  <2>2. \A d \in Devices : writer[d] = NoWriter /\ acked[d] = {}
    BY DEF Init
  <2>3. Unused
    BY <2>2 DEF Unused
  <2>4. ASSUME NEW d \in Devices
        PROVE  Good(d)
    <3>1. Pipe(d) = <<>> /\ writer[d].current = Fresh
      BY <2>2, NewWriterFacts, BlockSeqs, ConcatEmptySeq DEF Pipe
    <3>2. sending[d] \in [Types -> Places]
      BY <2>1 DEF TypeOK
    <3>3. /\ Ordered(<<>>, Fresh, sending[d])
          /\ Founded(<<>>, Fresh, sending[d], {})
      BY <3>2, FreshIsGood
    <3>4. QED
      BY <2>2, <3>1, <3>3 DEF Good
  <2>5. QED
    BY <2>3, <2>4 DEF Kept
<1>2. ASSUME Contents, Contents', Kept, [Next]_vars
      PROVE  Kept'
  <2>1. Base /\ TypeOK /\ TypeOK' /\ Unused
    BY <1>2 DEF Contents, Base, Kept
  <2>2. Unused'
    BY <1>2, <2>1, UnusedKept
  <2>3. SUFFICES ASSUME faults' = 0 PROVE \A d \in Devices : Good(d)'
    BY <2>2 DEF Kept
  <2>4. faults \in Nat
    BY <2>1 DEF TypeOK
  <2>5. ASSUME faults' = faults
        PROVE  \A d \in Devices : Good(d)
    BY <1>2, <2>3, <2>5 DEF Kept
  <2>6. ASSUME \A d \in Devices : Undisturbed(d), BlocksStay,
               faults' = faults
        PROVE  \A d \in Devices : Good(d)'
    BY <2>5, <2>6, GoodStays DEF Undisturbed
  <2>7. CASE UNCHANGED vars
    <3>1. \A d \in Devices : Undisturbed(d)
      BY <2>7 DEF vars, Undisturbed, Pipe
    <3>2. BlocksStay /\ faults' = faults
      BY <2>7 DEF vars, luck, BlocksStay, InFile
    <3>3. QED
      BY <2>6, <3>1, <3>2
  <2>8. ASSUME NEW d \in Devices, NEW t \in Types, NEW x \in BOOLEAN,
               Push(d, t, x)
        PROVE  \A e \in Devices : Good(e)'
    <3>1. faults' = faults
      BY <2>8 DEF Push
    <3>2. QED
      BY <2>1, <2>5, <2>8, <3>1, PushKeepsGood
  <2>9. ASSUME NEW d \in Devices,
               \/ \E t \in Types : LoseBlock(d, t)
               \/ \E b \in Blocks : PushLate(d, b)
        PROVE  FALSE
    <3>1. faults' = faults + 1
      BY <2>9 DEF LoseBlock, PushLate
    <3>2. QED
      BY <2>3, <2>4, <3>1
  <2>10. ASSUME NEW d \in Devices, Process(d)
         PROVE  \A e \in Devices : Good(e)'
    <3>1. PICK e \in Entries : Outcomed(d, e)
      BY <2>1, <2>10, ProcessCases
    <3>2. faults' = faults
      BY <2>1, <2>3, <2>4, <3>1, OutcomeGrows
    <3>3. QED
      BY <2>1, <2>5, <2>10, <3>2, ProcessKeepsGood
  <2>11. ASSUME NEW d \in Devices,
                StartLogger(d) \/ Take(d) \/ StopWriter(d) \/ JoinWriter(d)
         PROVE  \A e \in Devices : Good(e)'
    <3>1. faults' = faults
      BY <2>11 DEF StartLogger, Take, StopWriter, JoinWriter, luck
    <3>2. QED
      BY <2>1, <2>5, <2>11, <3>1, WriterStepsKeepGood
  <2>12. CASE \/ \E o \in Outcomes : InitManager(o)
              \/ Stopping \/ CycleDelete \/ Wake(TRUE)
              \/ \E d \in Devices : AddDevice(d)
    <3>1. /\ acked' = acked /\ writer' = writer /\ sending' = sending
          /\ faults' = faults
      BY <2>12 DEF InitManager, Stopping, RequestQuit, JoinCleaner, EndDestory,
                   AddDevice, CycleDelete, Wake, EndRound, CheckEnable, luck
    <3>2. \A d \in Devices : Undisturbed(d)
      BY <3>1 DEF Undisturbed, Pipe
    <3>3. BlocksStay
      <4>1. CASE \E d \in Devices : Process(d)
        <5>1. PICK d \in Devices, e \in Entries :
                /\ writer[d].on /\ writer[d].batch # <<>>
                /\ writer' = [writer EXCEPT ![d] = Processed(d, e)]
          BY <2>1, <4>1, ProcessCases
        <5>2. /\ writer'[d].batch = Tail(writer[d].batch)
              /\ writer[d] \in Writers /\ writer[d].batch \in Seq(Blocks)
          BY <2>1, <5>1, ProcessedFacts DEF TypeOK, Writers
        <5>3. Len(Tail(writer[d].batch)) = Len(writer[d].batch) - 1
          BY <5>1, <5>2, BlockSeqs
        <5>4. Len(writer[d].batch) \in Nat
          BY <5>2, BlockSeqs
        <5>5. Len(writer[d].batch) = Len(writer[d].batch) - 1
          <6>1. writer'[d].batch = writer[d].batch
            BY <3>1
          <6>2. QED
            BY <5>2, <5>3, <6>1
        <5>6. QED
          BY <5>4, <5>5
      <4>2. CASE ~\E d \in Devices : Process(d)
        BY <1>2, <2>1, <4>2, OthersKeepContents, SameBlocksStay
      <4>3. QED
        BY <4>1, <4>2
    <3>4. QED
      BY <2>6, <3>1, <3>2, <3>3
  <2>13. QED
    BY <1>2, <2>7, <2>8, <2>9, <2>10, <2>11, <2>12 DEF Next
<1>3. QED
  BY <1>1, <1>2

\* LoggerManager::Handler acknowledges a block before it queues it: without
\* faults of the file system and of the network, an acknowledged block of a
\* file whose start the handler got is in its queue, in its batch, or in a file,
\* for as long as the handler lives and however often answers are lost and
\* blocks repeated.
THEOREM AckedKept == Spec => []AckedIsKept
<1>1. Init => Contents /\ Kept
  BY ContentsInductive, KeptInductive
<1>2. Contents /\ Kept /\ [Next]_vars => (Contents /\ Kept)'
  BY ContentsInductive, KeptInductive
<1>3. Contents /\ Kept => AckedIsKept
  <2> SUFFICES ASSUME Contents, Kept, faults = 0, NEW d \in Devices,
                      NEW b \in {x \in acked[d] : ~IsEnd(x)}
               PROVE  \/ \E k \in DOMAIN writer[d].queue :
                           writer[d].queue[k] = b
                      \/ \E k \in DOMAIN writer[d].batch :
                           writer[d].batch[k] = b
                      \/ InFile(d, b)
    BY DEF AckedIsKept, InFile
  <2>1. Held(d, b)
    BY DEF Kept, Good
  <2>2. writer[d].batch \in Seq(Blocks) /\ writer[d].queue \in Seq(Blocks)
    BY DeviceTypes DEF Contents
  <2>3. JoinedFacts(writer[d].batch, writer[d].queue)
    BY <2>2, Joined
  <2>4. QED
    BY <2>1, <2>3 DEF Held, Pipe, JoinedFacts
<1>4. QED
  BY <1>1, <1>2, <1>3, PTL DEF Spec

==============================================================================
