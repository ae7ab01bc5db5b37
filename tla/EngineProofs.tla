---------------------------- MODULE EngineProofs ----------------------------
(***************************************************************************)
(* Proofs about the engine, alone, with a player and with its events, for   *)
(* every value of its constants that meets the assumptions of module        *)
(* Engine.                                                                  *)
(***************************************************************************)
EXTENDS Player, EngineEvents, IterationProofs, SequenceTheorems

-----------------------------------------------------------------------------
(* The inductive invariant *)

\* the window is numbered without holes, in the order of time, and the stitcher's own fields agree with its last segment
WindowLinked ==
    /\ win = <<>> => nextSeq = 0 /\ lastStart = 0
    /\ win # <<>> => nextSeq = win[Len(win)].seq + 1 /\ lastStart = win[Len(win)].start
    /\ \A i \in DOMAIN win : win[i].file = win[i].seq /\ win[i].seq = nextSeq - 1 - Len(win) + i

\* the playlist on disk names its files by their implicit numbers
PlaylistLinked ==
    /\ playlist.items = <<>> => playlist.first = 0
    /\ \A i \in DOMAIN playlist.items : playlist.items[i].file = playlist.first + i - 1

\* the running engine is never behind the playlist on disk
PlaylistBehind ==
    (pc # "down" /\ playlist.items # <<>>) =>
        win # <<>> /\ playlist.first + Len(playlist.items) <= nextSeq

\* a segment of the playlist that the window has dropped was retired after the playlist was written
Kept(it, items, queue, since) ==
    \/ \E j \in DOMAIN items : items[j].file = it.file /\ items[j].map = it.map
    \/ \E q \in DOMAIN queue :
         /\ it.file \in queue[q].files
         /\ it.map \in queue[q].maps
         /\ since # 0
         /\ since <= queue[q].at

ListedIsKept ==
    (~overdue /\ pc # "down") =>
        \A i \in DOMAIN playlist.items : Kept(playlist.items[i], win, retired, unwritten)

Served(it) == it.file \in DOMAIN segFile /\ segFile[it.file] = it.start /\ it.map \in initFile

WindowServed == ~overdue => \A i \in DOMAIN win : Served(win[i])

UnwrittenPast == unwritten <= lastStart

\* a running engine has room for at least one segment, and writes the playlist only of a window that has one
TickSound ==
    /\ pc # "down" => maxSize \in WindowSizes
    /\ pc = "down" => ~appended
    /\ pc = "write" => appended
    /\ appended => win # <<>>

\* nothing is left of a process that died
DownClean == pc = "down" => win = <<>> /\ retired = <<>> /\ unwritten = 0 /\ prev = NoPrev

IndInv ==
    /\ TypeOK
    /\ WindowLinked
    /\ PlaylistLinked
    /\ PlaylistBehind
    /\ ListedIsKept
    /\ WindowServed
    /\ UnwrittenPast
    /\ TickSound
    /\ DownClean
    /\ PlaylistServable

-----------------------------------------------------------------------------
(* Lemmas about the data *)

\* Removing files leaves a set of numbers, and does not touch the files that stay.
LEMMA WithoutFacts ==
    ASSUME NEW f, NEW S
    PROVE  /\ DOMAIN Without(f, S) = DOMAIN f \ S
           /\ \A k \in DOMAIN f \ S : Without(f, S)[k] = f[k]
  BY DEF Without

\* Writing a file adds its number and does not touch the other files.
LEMMA WithFacts ==
    ASSUME NEW f, NEW n, NEW v
    PROVE  /\ DOMAIN With(f, n, v) = DOMAIN f \cup {n}
           /\ With(f, n, v)[n] = v
           /\ \A k \in DOMAIN f \ {n} : With(f, n, v)[k] = f[k]
  BY DEF With

\* A clip of the plan is well-typed.
LEMMA ClipTyped ==
    ASSUME NEW t \in Nat, NEW p \in Clips(t)
    PROVE  p \in ProgrammeType /\ Lookup(p, t) \in Nat
<1>1. Gap \in ProgrammeType
  BY ProgrammesAssumption DEF Gap, ProgrammeType
<1>2. p \in ProgrammeType
  BY <1>1, ProgrammesAssumption DEF Clips
<1>3. CASE p.kind = "slate"
  BY <1>2, <1>3, TimingAssumption DEF Lookup
<1>4. CASE p.kind # "slate"
  <2>1. Covers(p, t)
    BY <1>4 DEF Clips, Gap
  <2>2. p.start \in Nat /\ p.off \in Nat
    BY <1>2 DEF ProgrammeType
  <2> QED BY <2>1, <2>2, <1>4, <1>2 DEF Lookup, Covers
<1> QED BY <1>2, <1>3, <1>4

\* What resolve comes back with is well-typed.
LEMMA ResolveTyped ==
    ASSUME NEW t \in Nat, NEW p \in Clips(t), NEW r \in Resolve(p, t)
    PROVE  /\ r.src \in Sources
           /\ r.idx \in Nat
           /\ r.shown \in ShownType
<1>1. p \in ProgrammeType /\ Lookup(p, t) \in Nat
  BY ClipTyped
<1>2. CASE r = Own(p, t)
  BY <1>1, <1>2 DEF Own, Shown, ShownType, AnySource, ProgrammeType
<1>3. CASE r = SlateInstead(t)
  BY <1>3, ProgrammesAssumption, TimingAssumption DEF SlateInstead, Shown, ShownType, AnySource
<1> QED BY <1>2, <1>3 DEF Resolve

\* The segment that add makes of a clip is well-typed.
LEMMA SegmentTyped ==
    ASSUME TypeOK, NEW t \in Nat, NEW p \in Clips(t), NEW r \in Resolve(p, t), NEW b
    PROVE  Segment(p, t, r, b) \in SegmentType
<1>1. p \in ProgrammeType
  BY ClipTyped
<1>2. p.brk \in Nat
  BY <1>1 DEF ProgrammeType
<1>3. /\ r.src \in Sources
      /\ r.idx \in Nat
      /\ r.shown \in ShownType
  BY ResolveTyped
<1>4. CueIn(p) \in Nat /\ CueOut(p, t) \in Nat /\ Seq0(t) \in Nat
  BY <1>2 DEF TypeOK, CueIn, CueOut, Seq0
<1>5. NeedsDisc(r, t, PlannedDisc(p, t, b)) \in BOOLEAN
  BY DEF NeedsDisc
<1> QED BY <1>2, <1>3, <1>4, <1>5 DEF Segment, SegmentType, AnySource

\* The second that is tried next is a time.
LEMMA NextSecondTyped ==
    ASSUME TypeOK
    PROVE  NextSecond \in Nat
  BY DEF TypeOK, NextSecond

RetiredType == [files : SUBSET Nat, maps : SUBSET Sources, at : Nat]

\* What the queue of retirements looks like after the window dropped its first n items at stream time t.
LEMMA RetireFacts ==
    ASSUME TypeOK, NEW full \in Seq(SegmentType), NEW n \in 0..Len(full), NEW t \in Nat
    PROVE  LET queue == Retire(full, n, t) IN
           /\ queue \in Seq(RetiredType)
           /\ Len(queue) = IF n = 0 THEN Len(retired) ELSE Len(retired) + 1
           /\ \A i \in 1..Len(retired) : queue[i] = retired[i]
           /\ n # 0 => /\ queue[Len(queue)].at = t
                       /\ \A i \in 1..n : /\ full[i].file \in queue[Len(queue)].files
                                          /\ full[i].map \in queue[Len(queue)].maps
<1>1. retired \in Seq(RetiredType)
  BY DEF TypeOK, RetiredType
<1>2. CASE n = 0
  BY <1>1, <1>2 DEF Retire
<1>3. CASE n # 0
  <2> DEFINE e == [files |-> Names(full, n).files, maps |-> Names(full, n).maps, at |-> t]
  <2>0. \A i \in 1..n : full[i] \in SegmentType
    OBVIOUS
  <2>1. \A i \in 1..n : full[i].file \in Nat /\ full[i].map \in Sources
    BY <2>0 DEF SegmentType
  <2>2. Names(full, n).files = {full[i].file : i \in 1..n} /\ Names(full, n).maps = {full[i].map : i \in 1..n}
    BY DEF Names
  <2>3. e \in RetiredType
    BY <2>1, <2>2 DEF RetiredType
  <2>4. Retire(full, n, t) = Append(retired, e)
    BY <1>3 DEF Retire
  <2>5. \A i \in 1..n : full[i].file \in e.files /\ full[i].map \in e.maps
    BY <2>2
  <2> HIDE DEF e
  <2>6. e.at = t
    BY DEF e
  <2> QED BY <1>1, <1>3, <2>3, <2>4, <2>5, <2>6
<1> QED BY <1>2, <1>3

\* What add does to the window, the queue of retirements and the files, in the terms the invariants are stated in:
\* out segments leave, queue is the queue with them, and its first n entries are deleted.
AddEffect(t, m, out, queue, n) ==
    /\ t \in Nat /\ t > lastStart /\ pc = "release" /\ t <= slot + LiveLead /\ slot <= t
    /\ win' \in Seq(SegmentType)
    /\ Len(win') = Len(win) + 1 - out
    /\ out # 0 => Len(win') = maxSize
    /\ \A i \in 1..(Len(win) - out) : win'[i] = win[out + i]
    /\ win'[Len(win')] = m
    /\ Len(queue) = IF out = 0 THEN Len(retired) ELSE Len(retired) + 1
    /\ \A i \in 1..Len(retired) : queue[i] = retired[i]
    /\ out # 0 => /\ queue[Len(queue)].at = t
                  /\ \A i \in 1..out : /\ win[i].file \in queue[Len(queue)].files
                                       /\ win[i].map \in queue[Len(queue)].maps
    /\ n <= Len(queue)
    /\ \A i \in 1..n : t - queue[i].at >= Retain
    /\ retired' \in Seq(RetiredType)
    /\ Len(retired') = Len(queue) - n
    /\ \A i \in 1..Len(retired') : retired'[i] = queue[n + i]
    /\ segFile' = Without(With(segFile, m.file, t),
                          ExpiredFiles(queue, n) \ FilesInUse(win', retired'))
    /\ initFile' = (initFile \cup {m.map}) \ (ExpiredMaps(queue, n) \ MapsInUse(win', retired'))

\* Every successful add has that effect.
LEMMA AddFacts ==
    ASSUME TypeOK, TickSound, NEW p, NEW r, NEW b, Add(p, r, b)
    PROVE  \E out \in 0..Len(win), queue \in Seq(RetiredType), n \in Nat :
              /\ Segment(p, NextSecond, r, b) \in SegmentType
              /\ AddEffect(NextSecond, Segment(p, NextSecond, r, b), out, queue, n)
<1> DEFINE t == NextSecond
           m == Segment(p, t, r, b)
           full == Append(win, m)
           out == Overflow(full)
           queue == Retire(full, out, t)
<1>1. t \in Nat /\ t > lastStart /\ pc = "release" /\ t <= slot + LiveLead /\ slot <= t
  BY NextSecondTyped DEF Add, Due, NextSecond, TypeOK
<1>2. m \in SegmentType
  BY <1>1, SegmentTyped DEF Add
<1>3. maxSize \in Nat \ {0}
  <2>1. maxSize \in WindowSizes
    BY <1>1 DEF TickSound
  <2>2. maxSize \in Nat /\ LiveLead \in Nat /\ LiveLead < maxSize
    BY <2>1, TimingAssumption
  <2> QED BY <2>2
<1>4. win \in Seq(SegmentType)
  BY DEF TypeOK
<1>5. /\ win' = SubSeq(full, out + 1, Len(full))
      /\ WriteAndCleanup(full, out, t)
  BY DEF Add
<1> HIDE DEF m
<1>6. full \in Seq(SegmentType) /\ Len(full) = Len(win) + 1 /\ full[Len(full)] = m
      /\ \A i \in 1..Len(win) : full[i] = win[i]
  BY <1>2, <1>4
<1>7. out \in 0..Len(win) /\ (out # 0 => Len(win) + 1 - out = maxSize)
  BY <1>3, <1>6 DEF Overflow
<1> HIDE DEF out, t, full
<1>8. /\ win' \in Seq(SegmentType)
      /\ Len(win') = Len(win) + 1 - out
      /\ \A i \in 1..(Len(win) + 1 - out) : win'[i] = full[out + i]
  <2>1. \A i \in (out + 1)..Len(full) : full[i] \in SegmentType
    BY <1>6, <1>7
  <2>2. out + 1 \in Int /\ Len(full) \in Int /\ out + 1 <= Len(full)
    BY <1>6, <1>7
  <2>3. /\ SubSeq(full, out + 1, Len(full)) \in Seq(SegmentType)
        /\ Len(SubSeq(full, out + 1, Len(full))) = IF out + 1 <= Len(full) THEN Len(full) - (out + 1) + 1 ELSE 0
        /\ \A i \in 1..(Len(full) - (out + 1) + 1) : SubSeq(full, out + 1, Len(full))[i] = full[(out + 1) + i - 1]
    BY <2>1, <2>2, SubSeqProperties
  <2>4. Len(full) - (out + 1) + 1 = Len(win) + 1 - out
    BY <1>4, <1>6, <1>7
  <2>5. \A i \in 1..(Len(win) + 1 - out) : (out + 1) + i - 1 = out + i
    BY <1>4, <1>7
  <2> QED BY <1>5, <2>2, <2>3, <2>4, <2>5
<1>9. /\ queue \in Seq(RetiredType)
      /\ Len(queue) = IF out = 0 THEN Len(retired) ELSE Len(retired) + 1
      /\ \A i \in 1..Len(retired) : queue[i] = retired[i]
      /\ out # 0 => /\ queue[Len(queue)].at = t
                    /\ \A i \in 1..out : /\ full[i].file \in queue[Len(queue)].files
                                         /\ full[i].map \in queue[Len(queue)].maps
  <2>1. out \in 0..Len(full)
    BY <1>4, <1>6, <1>7
  <2> QED BY <1>1, <1>6, <2>1, RetireFacts
<1>10. \A i \in 1..out : full[i] = win[i]
  BY <1>4, <1>6, <1>7
<1>11. PICK n \in 0..Len(queue) :
         /\ Expired(queue, n, t)
         /\ retired' = SubSeq(queue, n + 1, Len(queue))
         /\ segFile' = Without(With(segFile, m.file, t),
                               ExpiredFiles(queue, n) \ FilesInUse(win', SubSeq(queue, n + 1, Len(queue))))
         /\ initFile' = (initFile \cup {m.map})
                           \ (ExpiredMaps(queue, n) \ MapsInUse(win', SubSeq(queue, n + 1, Len(queue))))
  BY <1>5, <1>6 DEF WriteAndCleanup
<1> HIDE DEF queue
<1>12. n \in Nat /\ n <= Len(queue) /\ \A i \in 1..n : t - queue[i].at >= Retain
  BY <1>9, <1>11 DEF Expired
<1>13. /\ retired' \in Seq(RetiredType)
       /\ Len(retired') = Len(queue) - n
       /\ \A i \in 1..Len(retired') : retired'[i] = queue[n + i]
  <2>1. \A i \in (n + 1)..Len(queue) : queue[i] \in RetiredType
    BY <1>9, <1>12
  <2>2. n + 1 \in Int /\ Len(queue) \in Int
    BY <1>9, <1>12
  <2>3. /\ SubSeq(queue, n + 1, Len(queue)) \in Seq(RetiredType)
        /\ Len(SubSeq(queue, n + 1, Len(queue))) = IF n + 1 <= Len(queue) THEN Len(queue) - (n + 1) + 1 ELSE 0
        /\ \A i \in 1..(Len(queue) - (n + 1) + 1) : SubSeq(queue, n + 1, Len(queue))[i] = queue[(n + 1) + i - 1]
    BY <2>1, <2>2, SubSeqProperties
  <2>4. Len(queue) - (n + 1) + 1 = Len(queue) - n
    BY <1>9, <1>12
  <2>5. \A i \in 1..(Len(queue) - n) : (n + 1) + i - 1 = n + i
    BY <1>9, <1>12
  <2> QED BY <1>9, <1>11, <1>12, <2>3, <2>4, <2>5
<1>14. win'[Len(win')] = m /\ \A i \in 1..(Len(win) - out) : win'[i] = win[out + i]
  <2>1. \A i \in 1..(Len(win) - out) : i \in 1..(Len(win) + 1 - out) /\ out + i \in 1..Len(win)
    BY <1>4, <1>7
  <2>2. out + (Len(win) + 1 - out) = Len(full) /\ Len(win) + 1 - out \in 1..(Len(win) + 1 - out)
    BY <1>4, <1>6, <1>7
  <2> QED BY <1>6, <1>8, <2>1, <2>2
<1>15. AddEffect(t, m, out, queue, n)
  BY <1>1, <1>7, <1>8, <1>9, <1>10, <1>11, <1>12, <1>13, <1>14 DEF AddEffect
<1> QED
  BY <1>2, <1>7, <1>9, <1>12, <1>15 DEF m, t

-----------------------------------------------------------------------------
(* Types *)

\* Counting the discontinuities of the segments that leave gives a number.
LEMMA DiscCount ==
    ASSUME NEW n \in Nat, NEW s
    PROVE  DiscsAmong(s, n) \in Nat
<1>1. IsFiniteSet(1..n)
  BY FS_Interval
<1>2. IsFiniteSet({i \in 1..n : s[i].disc})
  BY <1>1, FS_Subset
<1> QED BY <1>2, FS_CardinalityType DEF DiscsAmong

\* Reading a playlist back gives a well-typed window of the same length.
LEMMA RestoreTyped ==
    ASSUME TypeOK
    PROVE  /\ RestoreWindow(playlist) \in Seq(SegmentType)
           /\ Len(RestoreWindow(playlist)) = Len(playlist.items)
           /\ DOMAIN RestoreWindow(playlist) = 1..Len(playlist.items)
<1>1. playlist.items \in Seq(ItemType) /\ playlist.first \in Nat
  BY DEF TypeOK
<1>2. \A i \in 1..Len(playlist.items) : playlist.items[i] \in ItemType
  BY <1>1
<1>3. \A i \in 1..Len(playlist.items) : playlist.first + i - 1 \in Nat
  BY <1>1
<1>4. NotShown \in ShownType
  BY DEF NotShown, Shown, ShownType, AnySource
<1>5. \A i \in 1..Len(playlist.items) : RestoreWindow(playlist)[i] \in SegmentType
  <2> TAKE i \in 1..Len(playlist.items)
  <2> DEFINE it == playlist.items[i]
  <2>1. it.file \in Nat /\ it.start \in Nat /\ it.map \in Sources /\ it.cueIn \in Nat /\ it.cueOut \in Nat
    BY <1>2 DEF ItemType
  <2>2. it.disc \in BOOLEAN
    BY <1>2 DEF ItemType
  <2>3. RestoreWindow(playlist)[i] =
          [seq |-> playlist.first + i - 1, file |-> it.file, start |-> it.start,
           disc |-> it.disc, map |-> it.map, src |-> NoSource, idx |-> 0, avail |-> 0,
           shown |-> NotShown, cueIn |-> it.cueIn, cueOut |-> it.cueOut]
    BY <1>1 DEF RestoreWindow
  <2> HIDE DEF it
  <2> QED BY <1>3, <1>4, <2>1, <2>2, <2>3 DEF SegmentType, AnySource
<1>6. DOMAIN RestoreWindow(playlist) = 1..Len(playlist.items)
  BY <1>1 DEF RestoreWindow
<1>7. RestoreWindow(playlist) \in [1..Len(playlist.items) -> SegmentType]
  <2> DEFINE G(i) == [seq |-> playlist.first + i - 1, file |-> playlist.items[i].file,
                      start |-> playlist.items[i].start, disc |-> playlist.items[i].disc,
                      map |-> playlist.items[i].map, src |-> NoSource, idx |-> 0, avail |-> 0,
                      shown |-> NotShown, cueIn |-> playlist.items[i].cueIn,
                      cueOut |-> playlist.items[i].cueOut]
  <2>1. DOMAIN playlist.items = 1..Len(playlist.items)
    BY <1>1
  <2>2. RestoreWindow(playlist) = [i \in 1..Len(playlist.items) |-> G(i)]
    BY <2>1 DEF RestoreWindow
  <2> HIDE DEF G
  <2>3. \A i \in 1..Len(playlist.items) : G(i) \in SegmentType
    BY <1>5, <2>2
  <2> QED BY <2>2, <2>3
<1>8. RestoreWindow(playlist) \in Seq(SegmentType)
  BY <1>1, <1>7, SeqDef
<1> QED BY <1>1, <1>6, <1>8

\* Rendering a window gives a well-typed playlist of the same length.
LEMMA RenderTyped ==
    ASSUME TypeOK, win # <<>>
    PROVE  /\ RenderMediaPlaylist(win, discSeq) \in [first : Nat, discSeq : Nat, items : Seq(ItemType)]
           /\ Len(RenderMediaPlaylist(win, discSeq).items) = Len(win)
           /\ DOMAIN RenderMediaPlaylist(win, discSeq).items = 1..Len(win)
<1> DEFINE items == RenderMediaPlaylist(win, discSeq).items
<1>1. win \in Seq(SegmentType) /\ discSeq \in Nat
  BY DEF TypeOK
<1>2. \A i \in 1..Len(win) : win[i] \in SegmentType
  BY <1>1
<1>3. win[1] \in SegmentType
  BY <1>1
<1>4. items = [i \in 1..Len(win) |->
                  [file |-> win[i].file, start |-> win[i].start, disc |-> win[i].disc,
                   map |-> win[i].map, cueIn |-> win[i].cueIn, cueOut |-> win[i].cueOut]]
  BY <1>1 DEF RenderMediaPlaylist
<1>5. \A i \in 1..Len(win) : items[i] \in ItemType
  <2> TAKE i \in 1..Len(win)
  <2>1. /\ win[i].file \in Nat /\ win[i].start \in Nat /\ win[i].map \in Sources
        /\ win[i].cueIn \in Nat /\ win[i].cueOut \in Nat
    BY <1>2 DEF SegmentType
  <2>2. win[i].disc \in BOOLEAN
    BY <1>2 DEF SegmentType
  <2>3. items[i] = [file |-> win[i].file, start |-> win[i].start, disc |-> win[i].disc,
                    map |-> win[i].map, cueIn |-> win[i].cueIn, cueOut |-> win[i].cueOut]
    BY <1>4
  <2> QED BY <2>1, <2>2, <2>3 DEF ItemType
<1>6. items \in Seq(ItemType) /\ Len(items) = Len(win) /\ DOMAIN items = 1..Len(win)
  BY <1>1, <1>4, <1>5
<1>7. RenderMediaPlaylist(win, discSeq) = [first |-> win[1].seq, discSeq |-> discSeq, items |-> items]
  BY DEF RenderMediaPlaylist
<1>8. win[1].seq \in Nat
  BY <1>3 DEF SegmentType
<1> HIDE DEF items
<1> QED BY <1>1, <1>6, <1>7, <1>8

\* add keeps the types.
LEMMA AddTyped ==
    ASSUME TypeOK, TickSound, NEW p, NEW r, NEW b, Add(p, r, b)
    PROVE  TypeOK'
<1> DEFINE t == NextSecond
           m == Segment(p, t, r, b)
<1>1. PICK out \in 0..Len(win), queue \in Seq(RetiredType), n \in Nat :
         m \in SegmentType /\ AddEffect(t, m, out, queue, n)
  BY AddFacts
<1>2. t \in Nat /\ win' \in Seq(SegmentType) /\ retired' \in Seq(RetiredType)
  BY <1>1 DEF AddEffect
<1>3. DOMAIN segFile' \subseteq Nat
  <2>1. DOMAIN segFile \subseteq Nat /\ m.file \in Nat
    BY <1>1 DEF TypeOK, SegmentType
  <2>2. DOMAIN segFile' \subseteq DOMAIN segFile \cup {m.file}
    <3> DEFINE S == ExpiredFiles(queue, n) \ FilesInUse(win', retired')
    <3>1. segFile' = Without(With(segFile, m.file, t), S)
      BY <1>1 DEF AddEffect
    <3> HIDE DEF S, m, t
    <3>2. DOMAIN segFile' = DOMAIN With(segFile, m.file, t) \ S
      BY <3>1, WithoutFacts
    <3>3. DOMAIN With(segFile, m.file, t) = DOMAIN segFile \cup {m.file}
      BY DEF With
    <3> QED BY <3>2, <3>3
  <2> QED BY <2>1, <2>2
<1>4. initFile' \subseteq Sources
  <2>1. m.map \in Sources /\ initFile \subseteq Sources
    BY <1>1 DEF TypeOK, SegmentType
  <2> QED BY <1>1, <2>1 DEF AddEffect
<1>5. discSeq' \in Nat
  <2>1. Overflow(Append(win, m)) \in Nat
    <3>1. Append(win, m) \in Seq(SegmentType) /\ maxSize \in Nat
      BY <1>1 DEF TypeOK
    <3> QED BY <3>1 DEF Overflow
  <2> DEFINE c == DiscsAmong(Append(win, m), Overflow(Append(win, m)))
  <2>2. c \in Nat
    BY <2>1, DiscCount
  <2>3. discSeq' = discSeq + c
    BY DEF Add
  <2> HIDE DEF c
  <2>4. discSeq \in Nat
    BY DEF TypeOK
  <2> QED BY <2>2, <2>3, <2>4
<1>6. nextSeq' \in Nat /\ prev' \in [src : AnySource, idx : Nat, avail : Nat]
  <2>1. m.seq \in Nat /\ m.src \in AnySource /\ m.idx \in Nat /\ m.avail \in Nat
    BY <1>1 DEF SegmentType
  <2> HIDE DEF m
  <2>2. nextSeq' = m.seq + 1 /\ prev' = [src |-> m.src, idx |-> m.idx, avail |-> m.avail]
    BY DEF Add, m
  <2> QED BY <2>1, <2>2
<1>7. lastStart' = t /\ lastTried' = t /\ appended' = TRUE /\ unwritten' = IF unwritten = 0 THEN t ELSE unwritten
  BY DEF Add
<1>8. overdue' \in BOOLEAN
  BY DEF Add
<1>9. UNCHANGED <<pc, slot, maxSize, playlist, crashes, failures>>
  BY DEF Add, clockVars
<1> HIDE DEF t
<1> QED
  BY <1>2, <1>3, <1>4, <1>5, <1>6, <1>7, <1>8, <1>9 DEF TypeOK, RetiredType

\* prepare keeps the types.
LEMMA PrepareTyped ==
    ASSUME TypeOK, NEW size \in WindowSizes, Prepare(size)
    PROVE  TypeOK'
<1>1. playlist.items \in Seq(ItemType) /\ playlist.first \in Nat /\ playlist.discSeq \in Nat
  BY DEF TypeOK
<1>2. win' \in Seq(SegmentType)
  BY RestoreTyped DEF Prepare
<1>3. size \in Nat
  BY TimingAssumption
<1>4. lastStart' \in Nat
  <2>1. CASE playlist.items = <<>>
    BY <2>1 DEF Prepare
  <2>2. CASE playlist.items # <<>>
    <3>1. playlist.items[Len(playlist.items)] \in ItemType
      BY <1>1, <2>2
    <3> QED BY <2>2, <3>1 DEF Prepare, ItemType
  <2> QED BY <2>1, <2>2
<1>5. DOMAIN segFile' \subseteq Nat
  <2> DEFINE S == DOMAIN segFile \ FilesInUse(playlist.items, <<>>)
  <2>1. segFile' = Without(segFile, S)
    BY DEF Prepare
  <2> HIDE DEF S
  <2> QED BY <2>1, WithoutFacts, ZenonT(60) DEF TypeOK
<1>6. /\ pc' = "idle" /\ maxSize' = size /\ discSeq' = playlist.discSeq
      /\ nextSeq' = playlist.first + Len(playlist.items)
      /\ initFile' \subseteq initFile
      /\ UNCHANGED <<slot, lastTried, appended, prev, retired, playlist, crashes, failures, unwritten, overdue>>
  BY DEF Prepare, clockVars, tickVars, envVars
<1> QED BY <1>1, <1>2, <1>3, <1>4, <1>5, <1>6 DEF TypeOK

\* A crash keeps the types, whatever add had written.
LEMMA CrashTyped ==
    ASSUME TypeOK, Crash, DOMAIN segFile' \subseteq Nat, initFile' \subseteq Sources
    PROVE  TypeOK'
<1>1. NoPrev \in [src : AnySource, idx : Nat, avail : Nat]
  BY DEF NoPrev, AnySource
<1>2. /\ pc' = "down" /\ lastTried' = 0 /\ appended' = FALSE /\ maxSize' = 0 /\ win' = <<>>
      /\ discSeq' = 0 /\ nextSeq' = 0 /\ lastStart' = 0 /\ prev' = NoPrev /\ retired' = <<>>
      /\ crashes' = crashes + 1 /\ unwritten' = 0
      /\ UNCHANGED <<slot, playlist, failures, overdue>>
  BY DEF Crash, clockVars
<1>3. win' \in Seq(SegmentType) /\ retired' \in Seq([files : SUBSET Nat, maps : SUBSET Sources, at : Nat])
  BY <1>2
<1>4. appended' \in BOOLEAN /\ overdue' \in BOOLEAN
  BY <1>2 DEF TypeOK
<1>5. crashes' \in Nat /\ failures' \in Nat /\ slot' \in Nat
  BY <1>2 DEF TypeOK
<1>6. playlist' \in [first : Nat, discSeq : Nat, items : Seq(ItemType)]
  BY <1>2 DEF TypeOK
<1> QED BY <1>1, <1>2, <1>3, <1>4, <1>5, <1>6 DEF TypeOK

\* Every step keeps the types.
LEMMA TypeStep ==
    ASSUME TypeOK, TickSound, [Next]_vars
    PROVE  TypeOK' /\ TickSound'
<1>1. CASE UNCHANGED vars
  BY <1>1 DEF vars, clockVars, tickVars, stVars, diskVars, envVars, TypeOK, TickSound
<1>2. ASSUME NEW size \in WindowSizes, Prepare(size)
      PROVE  TypeOK' /\ TickSound'
  <2>1. pc' = "idle" /\ maxSize' = size /\ ~appended'
    BY <1>2 DEF Prepare, tickVars, TickSound
  <2> QED BY <1>2, <2>1, PrepareTyped DEF TickSound
<1>3. ASSUME NEW t \in 1..MaxTime, TickStart(t)
      PROVE  TypeOK' /\ TickSound'
  <2>1. t \in Nat
    BY BoundsAssumption
  <2> QED BY <1>3, <2>1 DEF TickStart, stVars, diskVars, envVars, TypeOK, TickSound
<1>4. ASSUME NEW p, NEW r, NEW b, Add(p, r, b)
      PROVE  TypeOK' /\ TickSound'
  <2>1. pc' = pc /\ maxSize' = maxSize /\ pc = "release" /\ appended'
    BY <1>4 DEF Add, Due
  <2>2. PICK out \in 0..Len(win), queue \in Seq(RetiredType), n \in Nat :
           AddEffect(NextSecond, Segment(p, NextSecond, r, b), out, queue, n)
    BY <1>4, AddFacts
  <2>3. win' # <<>>
    <3>1. Len(win') = Len(win) + 1 - out /\ Len(win) \in Nat
      BY <2>2 DEF AddEffect, TypeOK
    <3> QED BY <3>1
  <2> QED BY <1>4, <2>1, <2>3, AddTyped DEF TickSound
<1>5. ASSUME NEW p \in Clips(NextSecond), NEW r \in Resolve(p, NextSecond), Lost(p, r)
      PROVE  TypeOK' /\ TickSound'
  <2>1. NextSecond \in Nat /\ r.src \in Sources
    BY NextSecondTyped, ResolveTyped
  <2>2. /\ lastTried' = NextSecond /\ initFile' \in {initFile, initFile \cup {r.src}}
        /\ UNCHANGED <<pc, slot, appended, maxSize, win, discSeq, nextSeq, lastStart, prev, retired,
                       segFile, playlist, crashes, failures, unwritten, overdue>>
    BY <1>5 DEF Lost, clockVars, stVars, envVars
  <2> QED BY <2>1, <2>2 DEF TypeOK, TickSound
<1>6. CASE Duplicate
  BY <1>6, NextSecondTyped
     DEF Duplicate, clockVars, stVars, diskVars, envVars, TypeOK, TickSound
<1>7. CASE EndRelease
  BY <1>7 DEF EndRelease, clockVars, tickVars, stVars, diskVars, envVars, TypeOK, TickSound
<1>8. CASE WritePlaylist
  <2>1. win # <<>>
    BY <1>8 DEF WritePlaylist, TickSound
  <2>2. playlist' \in [first : Nat, discSeq : Nat, items : Seq(ItemType)]
    BY <1>8, <2>1, RenderTyped DEF WritePlaylist
  <2>3. /\ pc' = "announce" /\ unwritten' = 0 /\ pc = "write"
        /\ UNCHANGED <<slot, lastTried, appended, maxSize, win, discSeq, nextSeq, lastStart, prev, retired,
                       segFile, initFile, crashes, failures, overdue>>
    BY <1>8 DEF WritePlaylist, clockVars, tickVars, stVars
  <2> QED BY <2>2, <2>3 DEF TypeOK, TickSound
<1>9. CASE WriteFails
  BY <1>9 DEF WriteFails, clockVars, tickVars, stVars, diskVars, TypeOK, TickSound
<1>10. CASE Announce
  BY <1>10 DEF Announce, clockVars, tickVars, stVars, diskVars, envVars, TypeOK, TickSound
<1>11. CASE CrashBetween
  <2>1. Crash /\ DOMAIN segFile' \subseteq Nat /\ initFile' \subseteq Sources
    BY <1>11 DEF CrashBetween, TypeOK
  <2> QED BY <2>1, CrashTyped DEF Crash, TickSound
<1>12. ASSUME NEW p \in Clips(NextSecond), NEW r \in Resolve(p, NextSecond), CrashInAdd(p, r)
       PROVE  TypeOK' /\ TickSound'
  <2>1. NextSecond \in Nat /\ r.src \in Sources
    BY NextSecondTyped, ResolveTyped
  <2>2. Seq0(NextSecond) \in Nat
    BY <2>1 DEF Seq0, TypeOK
  <2>3. DOMAIN With(segFile, Seq0(NextSecond), NextSecond) \subseteq Nat
    BY <2>2 DEF With, TypeOK
  <2>4. Crash /\ DOMAIN segFile' \subseteq Nat /\ initFile' \subseteq Sources
    BY <1>12, <2>1, <2>3 DEF CrashInAdd, TypeOK
  <2> QED BY <2>4, CrashTyped DEF Crash, TickSound
<1>13. CASE LosePlaylist
  <2>1. NoPlaylist \in [first : Nat, discSeq : Nat, items : Seq(ItemType)]
    BY DEF NoPlaylist
  <2> QED BY <1>13, <2>1 DEF LosePlaylist, clockVars, tickVars, stVars, envVars, TypeOK, TickSound
<1> QED
  BY <1>1, <1>2, <1>3, <1>4, <1>5, <1>6, <1>7, <1>8, <1>9, <1>10, <1>11, <1>12, <1>13 DEF Next, Tick

\* The engine starts with the types.
LEMMA TypeInit == Init => TypeOK /\ TickSound
<1>1. NoPrev \in [src : AnySource, idx : Nat, avail : Nat]
  BY DEF NoPrev, AnySource
<1>2. NoPlaylist \in [first : Nat, discSeq : Nat, items : Seq(ItemType)]
  BY DEF NoPlaylist
<1>3. <<>> \in Seq(SegmentType) /\ <<>> \in Seq([files : SUBSET Nat, maps : SUBSET Sources, at : Nat])
  OBVIOUS
<1>4. DOMAIN <<>> \subseteq Nat
  OBVIOUS
<1>5. Init => TickSound
  BY DEF Init, TickSound
<1>6. Init => appended \in BOOLEAN /\ overdue \in BOOLEAN
  BY DEF Init
<1>7. Init => /\ win \in Seq(SegmentType) /\ prev \in [src : AnySource, idx : Nat, avail : Nat]
              /\ retired \in Seq([files : SUBSET Nat, maps : SUBSET Sources, at : Nat])
              /\ DOMAIN segFile \subseteq Nat /\ initFile \subseteq Sources
              /\ playlist \in [first : Nat, discSeq : Nat, items : Seq(ItemType)]
  BY <1>1, <1>2, <1>3, <1>4 DEF Init
<1>8. Init => /\ pc = "down" /\ slot = 1 /\ lastTried = 0 /\ maxSize = 0 /\ discSeq = 0 /\ nextSeq = 0
              /\ lastStart = 0 /\ crashes = 0 /\ failures = 0 /\ unwritten = 0
  BY DEF Init
<1> QED BY <1>5, <1>6, <1>7, <1>8 DEF TypeOK

\* Every variable of the engine keeps its type, for all window sizes, leads, retention times and schedules.
THEOREM TypeCorrect == Spec => []TypeOK
<1>1. TypeOK /\ TickSound /\ [Next]_vars => TypeOK' /\ TickSound'
  BY TypeStep
<1> QED BY <1>1, TypeInit, PTL DEF Spec

-----------------------------------------------------------------------------
(* What the playlist lists can be fetched *)

\* What is kept is in use, so deleteRetired does not delete it.
LEMMA KeptIsInUse ==
    ASSUME NEW it, NEW items, NEW queue, NEW since, Kept(it, items, queue, since)
    PROVE  it.file \in FilesInUse(items, queue) /\ it.map \in MapsInUse(items, queue)
  BY DEF Kept, FilesInUse, MapsInUse

\* The number of the segment that add makes: the next one, or the second itself when the window is empty.
LEMMA AddNumber ==
    ASSUME IndInv, NEW p, NEW r, NEW b, NEW t \in Nat
    PROVE  LET m == Segment(p, t, r, b) IN
           /\ m.file = m.seq /\ m.start = t
           /\ win # <<>> => m.seq = nextSeq
<1>1. Segment(p, t, r, b).seq = Seq0(t) /\ Segment(p, t, r, b).file = Seq0(t) /\ Segment(p, t, r, b).start = t
  BY DEF Segment
<1>2. win # <<>> => nextSeq # 0
  <2> SUFFICES ASSUME win # <<>> PROVE nextSeq # 0
    OBVIOUS
  <2>1. win[Len(win)] \in SegmentType
    BY DEF IndInv, TypeOK
  <2>2. nextSeq = win[Len(win)].seq + 1
    BY DEF IndInv, WindowLinked
  <2> QED BY <2>1, <2>2 DEF SegmentType
<1> QED BY <1>1, <1>2 DEF Seq0

\* add keeps the numbering.
LEMMA AddLinked ==
    ASSUME IndInv, NEW p, NEW r, NEW b, Add(p, r, b)
    PROVE  WindowLinked' /\ PlaylistLinked' /\ PlaylistBehind' /\ UnwrittenPast' /\ DownClean'
<1> DEFINE t == NextSecond
           m == Segment(p, t, r, b)
<1>1. PICK out \in 0..Len(win), queue \in Seq(RetiredType), n \in Nat :
         m \in SegmentType /\ AddEffect(t, m, out, queue, n)
  BY AddFacts DEF IndInv
<1>2. /\ t \in Nat /\ t > lastStart /\ pc = "release"
      /\ Len(win') = Len(win) + 1 - out
      /\ \A i \in 1..(Len(win) - out) : win'[i] = win[out + i]
      /\ win'[Len(win')] = m
      /\ win' \in Seq(SegmentType)
  BY <1>1 DEF AddEffect
<1>2a. DOMAIN win' = 1..Len(win') /\ Len(win') \in Nat
  BY <1>2
<1>3. /\ m.file = m.seq /\ m.start = t /\ m.seq \in Nat
      /\ win # <<>> => m.seq = nextSeq
  <2>1. m.file = m.seq /\ m.start = t /\ (win # <<>> => m.seq = nextSeq)
    BY <1>2, AddNumber
  <2>2. m.seq \in Nat
    BY <1>1 DEF SegmentType
  <2> QED BY <2>1, <2>2
<1>4. /\ nextSeq' = m.seq + 1 /\ lastStart' = t /\ playlist' = playlist /\ pc' = pc
      /\ unwritten' = IF unwritten = 0 THEN t ELSE unwritten
  BY DEF Add
<1> HIDE DEF m, t
<1>5. Len(win) \in Nat /\ out \in Nat /\ out <= Len(win) /\ lastStart \in Nat /\ unwritten \in Nat /\ nextSeq \in Nat
      /\ DOMAIN win = 1..Len(win)
  BY DEF IndInv, TypeOK
<1>6. WindowLinked'
  <2>1. win' # <<>>
    BY <1>2, <1>5
  <2>2. ASSUME NEW i \in 1..Len(win')
        PROVE  win'[i].file = win'[i].seq /\ win'[i].seq = nextSeq' - 1 - Len(win') + i
    <3>1. CASE i = Len(win')
      <4>1. win'[i] = m
        BY <1>2, <3>1
      <4>2. nextSeq' - 1 - Len(win') + i = m.seq
        BY <1>2a, <1>3, <1>4, <3>1
      <4> QED BY <1>3, <4>1, <4>2
    <3>2. CASE i # Len(win')
      <4>1. i \in 1..(Len(win) - out) /\ out + i \in 1..Len(win) /\ win # <<>>
        BY <1>2, <1>2a, <1>5, <3>2
      <4>2. win[out + i].file = win[out + i].seq /\ win[out + i].seq = nextSeq - 1 - Len(win) + (out + i)
        BY <1>5, <4>1 DEF IndInv, WindowLinked
      <4>3. nextSeq' = nextSeq + 1 /\ Len(win') = Len(win) + 1 - out
        BY <1>2, <1>3, <1>4, <4>1
      <4>4. nextSeq' - 1 - Len(win') + i = nextSeq - 1 - Len(win) + (out + i)
        BY <1>5, <4>3
      <4> QED BY <1>2, <4>1, <4>2, <4>4
    <3> QED BY <3>1, <3>2
  <2> QED BY <1>2, <1>2a, <1>3, <1>4, <2>1, <2>2 DEF WindowLinked
<1>7. PlaylistLinked'
  BY <1>4 DEF IndInv, PlaylistLinked
<1>8. PlaylistBehind'
  <2>1. win' # <<>>
    BY <1>2, <1>5
  <2>2. playlist.items # <<>> => win # <<>> /\ playlist.first + Len(playlist.items) <= nextSeq
    BY <1>2 DEF IndInv, PlaylistBehind
  <2>3. playlist.first + Len(playlist.items) \in Nat
    BY DEF IndInv, TypeOK
  <2> QED BY <1>3, <1>4, <1>5, <2>1, <2>2, <2>3 DEF PlaylistBehind
<1>9. UnwrittenPast'
  BY <1>2, <1>4, <1>5 DEF IndInv, UnwrittenPast
<1>10. DownClean'
  BY <1>2, <1>4 DEF DownClean
<1> QED BY <1>6, <1>7, <1>8, <1>9, <1>10

\* A file that add finds on the disk and that is still in use afterwards keeps its media; so does the new one.
LEMMA AddFiles ==
    ASSUME NEW t, NEW m, NEW out, NEW queue, NEW n, AddEffect(t, m, out, queue, n)
    PROVE  /\ \A f \in DOMAIN segFile :
                 (f # m.file /\ f \in FilesInUse(win', retired')) => f \in DOMAIN segFile' /\ segFile'[f] = segFile[f]
           /\ m.file \in FilesInUse(win', retired') => m.file \in DOMAIN segFile' /\ segFile'[m.file] = t
           /\ \A s \in initFile \cup {m.map} : s \in MapsInUse(win', retired') => s \in initFile'
<1> DEFINE D == ExpiredFiles(queue, n) \ FilesInUse(win', retired')
           w == With(segFile, m.file, t)
<1>1. segFile' = Without(w, D)
  BY DEF AddEffect
<1>2. /\ DOMAIN w = DOMAIN segFile \cup {m.file} /\ w[m.file] = t
      /\ \A f \in DOMAIN segFile \ {m.file} : w[f] = segFile[f]
  BY DEF With
<1>3. \A f \in FilesInUse(win', retired') : f \notin D
  OBVIOUS
<1> HIDE DEF D, w
<1>4. DOMAIN segFile' = DOMAIN w \ D /\ \A f \in DOMAIN w \ D : segFile'[f] = w[f]
  BY <1>1 DEF Without
<1>5. \A s \in initFile \cup {m.map} : s \in MapsInUse(win', retired') => s \in initFile'
  BY DEF AddEffect
<1> QED BY <1>2, <1>3, <1>4, <1>5

\* add keeps what the window and the playlist refer to.
LEMMA AddServed ==
    ASSUME IndInv, NEW p, NEW r, NEW b, Add(p, r, b)
    PROVE  ListedIsKept' /\ WindowServed' /\ PlaylistServable'
<1> DEFINE t == NextSecond
           m == Segment(p, t, r, b)
<1>1. PICK out \in 0..Len(win), queue \in Seq(RetiredType), n \in Nat :
         m \in SegmentType /\ AddEffect(t, m, out, queue, n)
  BY AddFacts DEF IndInv
<1>2. m.file = m.seq /\ m.start = t /\ (win # <<>> => m.seq = nextSeq) /\ t \in Nat
  BY <1>1, AddNumber DEF AddEffect
<1>3. /\ playlist' = playlist /\ pc' = pc
      /\ unwritten' = IF unwritten = 0 THEN t ELSE unwritten
      /\ overdue' = (overdue \/ t - unwritten' >= Retain)
  BY DEF Add
<1> HIDE DEF m, t
<1>4. SUFFICES ASSUME ~overdue'
               PROVE  ListedIsKept' /\ WindowServed' /\ PlaylistServable'
  BY DEF ListedIsKept, WindowServed, PlaylistServable
<1>5. ~overdue /\ t - unwritten' < Retain
  <2>1. unwritten' \in Nat
    BY <1>2, <1>3 DEF IndInv, TypeOK
  <2>2. ~overdue
    BY <1>3, <1>4, Zenon
  <2>3. ~(t - unwritten' >= Retain)
    BY <1>3, <1>4, Zenon
  <2>4. Retain \in Nat
    BY TimingAssumption
  <2>5. \A a, x, c \in Nat : ~(a - x >= c) => a - x < c
    OBVIOUS
  <2>6. t - unwritten' < Retain
    BY <1>2, <2>1, <2>3, <2>4, <2>5, Zenon
  <2> QED BY <2>2, <2>6, Zenon
<1>6. /\ Len(win) \in Nat /\ DOMAIN win = 1..Len(win)
      /\ DOMAIN win' = 1..Len(win') /\ Len(win') = Len(win) + 1 - out
      /\ Len(retired) \in Nat /\ DOMAIN retired = 1..Len(retired)
      /\ DOMAIN retired' = 1..Len(retired') /\ Len(retired') = Len(queue) - n /\ Len(queue) \in Nat
  <2>1. win \in Seq(SegmentType) /\ retired \in Seq(RetiredType)
    BY DEF IndInv, TypeOK, RetiredType
  <2>2. win' \in Seq(SegmentType) /\ retired' \in Seq(RetiredType) /\ Len(win') = Len(win) + 1 - out
        /\ Len(retired') = Len(queue) - n
    BY <1>1 DEF AddEffect
  <2> QED BY <2>1, <2>2
<1>7. \A i \in DOMAIN win : win[i].file # m.file
  <2>1. \A i \in DOMAIN win : win[i].file = nextSeq - 1 - Len(win) + i
    BY DEF IndInv, WindowLinked
  <2>2. nextSeq \in Nat
    BY DEF IndInv, TypeOK
  <2>3. \A i \in DOMAIN win : win[i].file < nextSeq /\ win # <<>>
    BY <1>6, <2>1, <2>2
  <2> QED BY <1>2, <2>2, <2>3
<1>8. \A i \in DOMAIN playlist.items : playlist.items[i].file # m.file
  <2>1. \A i \in DOMAIN playlist.items : playlist.items[i].file = playlist.first + i - 1
    BY DEF IndInv, PlaylistLinked
  <2>2. playlist.items \in Seq(ItemType) /\ playlist.first \in Nat /\ nextSeq \in Nat
    BY DEF IndInv, TypeOK
  <2>3. playlist.items # <<>> => win # <<>> /\ playlist.first + Len(playlist.items) <= nextSeq
    BY <1>1 DEF AddEffect, IndInv, PlaylistBehind
  <2>4. \A i \in DOMAIN playlist.items : playlist.items[i].file < nextSeq /\ win # <<>>
    BY <2>1, <2>2, <2>3
  <2> QED BY <1>2, <2>2, <2>4
<1>9. WindowServed'
  <2> SUFFICES ASSUME NEW i \in DOMAIN win'
               PROVE  Served(win[i])'
    BY DEF WindowServed
  <2>1. win'[i].file \in FilesInUse(win', retired') /\ win'[i].map \in MapsInUse(win', retired')
    BY DEF FilesInUse, MapsInUse
  <2>2. CASE i = Len(win')
    <3>1. win'[i] = m
      BY <1>1, <2>2 DEF AddEffect
    <3> QED BY <1>1, <1>2, <2>1, <3>1, AddFiles DEF Served
  <2>3. CASE i # Len(win')
    <3>1. i \in 1..(Len(win) - out) /\ out + i \in DOMAIN win
      BY <1>6, <2>3, SMTT(60)
    <3>2. win'[i] = win[out + i]
      BY <1>1, <3>1 DEF AddEffect
    <3>3. Served(win[out + i]) /\ win[out + i].file # m.file
      BY <1>5, <1>7, <3>1 DEF IndInv, WindowServed
    <3> QED BY <1>1, <2>1, <3>2, <3>3, AddFiles DEF Served
  <2> QED BY <2>2, <2>3
<1>10. ASSUME NEW i \in DOMAIN playlist.items
       PROVE  Kept(playlist.items[i], win', retired', unwritten')
  <2> DEFINE it == playlist.items[i]
  <2>1. Kept(it, win, retired, unwritten)
    BY <1>1, <1>5 DEF AddEffect, IndInv, ListedIsKept
  <2>2. unwritten' # 0 /\ unwritten' \in Nat /\ unwritten' <= t
    <3>1. lastStart \in Nat /\ unwritten \in Nat /\ unwritten <= lastStart /\ lastStart < t
      BY <1>1, <1>2 DEF AddEffect, IndInv, TypeOK, UnwrittenPast
    <3> QED BY <1>2, <1>3, <3>1
  <2> HIDE DEF it
  <2>3. ASSUME NEW j \in DOMAIN win, win[j].file = it.file, win[j].map = it.map
        PROVE  Kept(it, win', retired', unwritten')
    <3>1. CASE j > out
      <4>1. j - out \in 1..(Len(win) - out) /\ j - out \in DOMAIN win' /\ out + (j - out) = j
        BY <1>6, <3>1
      <4>2. win'[j - out] = win[j]
        BY <1>1, <4>1 DEF AddEffect
      <4> QED BY <2>3, <4>1, <4>2 DEF Kept
    <3>2. CASE j <= out
      <4> DEFINE e == queue[Len(queue)]
      <4>1. out # 0 /\ j \in 1..out
        BY <1>6, <3>2
      <4>2. e.at = t /\ it.file \in e.files /\ it.map \in e.maps /\ Len(queue) = Len(retired) + 1
        BY <1>1, <2>3, <4>1 DEF AddEffect
      <4>3. n # Len(queue)
        <5> SUFFICES ASSUME n = Len(queue) PROVE FALSE
          OBVIOUS
        <5>0. Len(queue) \in 1..n
          BY <1>6, <4>2
        <5>1. t - e.at >= Retain
          BY <1>1, <5>0 DEF AddEffect
        <5> QED BY <1>2, <4>2, <5>1, TimingAssumption
      <4>4. n <= Len(queue)
        BY <1>1 DEF AddEffect
      <4>5. Len(queue) - n \in DOMAIN retired' /\ n + (Len(queue) - n) = Len(queue)
        BY <1>6, <4>3, <4>4
      <4>6. retired'[Len(queue) - n] = e
        BY <1>1, <1>6, <4>5 DEF AddEffect
      <4> HIDE DEF e
      <4> QED BY <2>2, <4>2, <4>5, <4>6 DEF Kept
    <3> QED BY <1>6, <3>1, <3>2
  <2>4. ASSUME NEW q \in DOMAIN retired, it.file \in retired[q].files, it.map \in retired[q].maps,
               unwritten # 0, unwritten <= retired[q].at
        PROVE  Kept(it, win', retired', unwritten')
    <3>1. unwritten' = unwritten
      BY <1>3, <2>4
    <3>2. queue[q] = retired[q] /\ q <= Len(queue)
      BY <1>1, <1>6, SMTT(60) DEF AddEffect
    <3>3. retired[q].at \in Nat
      <4>0. retired \in Seq(RetiredType)
        BY DEF IndInv, TypeOK, RetiredType
      <4>1. retired[q] \in RetiredType
        BY <4>0
      <4> QED BY <4>1 DEF RetiredType
    <3>4. ~(q <= n)
      <4> SUFFICES ASSUME q <= n PROVE FALSE
        OBVIOUS
      <4>1. t - retired[q].at >= Retain
        BY <1>1, <1>6, <3>2, SMTT(60) DEF AddEffect
      <4> QED BY <1>2, <1>5, <2>2, <2>4, <3>1, <3>3, <4>1, TimingAssumption
    <3>5. q - n \in DOMAIN retired' /\ n + (q - n) = q
      BY <1>6, <3>2, <3>4
    <3>6. retired'[q - n] = retired[q]
      BY <1>1, <1>6, <3>2, <3>5 DEF AddEffect
    <3> QED BY <2>2, <2>4, <3>1, <3>5, <3>6 DEF Kept
  <2>5. Kept(it, win', retired', unwritten')
    BY <2>1, <2>3, <2>4 DEF Kept
  <2> QED BY <2>5 DEF it
<1>11. ListedIsKept'
  BY <1>3, <1>10 DEF ListedIsKept
<1>12. PlaylistServable'
  <2> SUFFICES ASSUME NEW i \in DOMAIN playlist.items
               PROVE  /\ playlist.items[i].file \in DOMAIN segFile'
                      /\ segFile'[playlist.items[i].file] = playlist.items[i].start
                      /\ playlist.items[i].map \in initFile'
    BY <1>3 DEF PlaylistServable
  <2>1. /\ playlist.items[i].file \in FilesInUse(win', retired')
        /\ playlist.items[i].map \in MapsInUse(win', retired')
    BY <1>10, KeptIsInUse
  <2>2. /\ playlist.items[i].file \in DOMAIN segFile
        /\ segFile[playlist.items[i].file] = playlist.items[i].start
        /\ playlist.items[i].map \in initFile
    BY <1>5 DEF IndInv, PlaylistServable
  <2> QED BY <1>1, <1>8, <2>1, <2>2, AddFiles
<1> QED BY <1>9, <1>11, <1>12

\* prepare picks up the playlist on the disk and deletes only what it does not list.
LEMMA PrepareKeeps ==
    ASSUME IndInv, NEW size \in WindowSizes, Prepare(size)
    PROVE  /\ WindowLinked' /\ PlaylistLinked' /\ PlaylistBehind' /\ UnwrittenPast' /\ DownClean'
           /\ ListedIsKept' /\ WindowServed' /\ PlaylistServable'
<1>1. playlist.items \in Seq(ItemType) /\ playlist.first \in Nat
  BY DEF IndInv, TypeOK
<1>2. DOMAIN playlist.items = 1..Len(playlist.items) /\ Len(playlist.items) \in Nat
  BY <1>1
<1>3. /\ pc = "down" /\ pc' = "idle" /\ playlist' = playlist /\ overdue' = overdue /\ unwritten' = 0
      /\ nextSeq' = playlist.first + Len(playlist.items)
      /\ lastStart' = IF playlist.items = <<>> THEN 0 ELSE playlist.items[Len(playlist.items)].start
      /\ win' = RestoreWindow(playlist)
  BY DEF Prepare, envVars, IndInv, DownClean
<1>4. Len(win') = Len(playlist.items) /\ DOMAIN win' = 1..Len(playlist.items)
  BY <1>3, RestoreTyped DEF IndInv
<1>5. \A i \in DOMAIN playlist.items :
         /\ win'[i].seq = playlist.first + i - 1
         /\ win'[i].file = playlist.items[i].file
         /\ win'[i].start = playlist.items[i].start
         /\ win'[i].map = playlist.items[i].map
  BY <1>3 DEF RestoreWindow
<1>6. \A i \in DOMAIN playlist.items : playlist.items[i].file = playlist.first + i - 1
  BY DEF IndInv, PlaylistLinked
<1>7. WindowLinked'
  <2>1. \A i \in DOMAIN win' : win'[i].file = win'[i].seq /\ win'[i].seq = nextSeq' - 1 - Len(win') + i
    <3> TAKE i \in DOMAIN win'
    <3>0. i \in Nat
      BY <1>2, <1>4
    <3>1. \A a, b, k \in Nat : (a + b) - 1 - b + k = a + k - 1
      OBVIOUS
    <3>2. (playlist.first + Len(playlist.items)) - 1 - Len(playlist.items) + i = playlist.first + i - 1
      BY <1>1, <1>2, <3>0, <3>1
    <3>3. nextSeq' - 1 - Len(win') + i = playlist.first + i - 1
      BY <1>3, <1>4, <3>2, Zenon
    <3> QED BY <1>2, <1>4, <1>5, <1>6, <3>3
  <2>2. CASE playlist.items = <<>>
    <3>1. Len(win') = 0 /\ nextSeq' = 0 /\ lastStart' = 0
      BY <1>1, <1>2, <1>3, <1>4, <2>2 DEF IndInv, PlaylistLinked
    <3>2. win' = <<>>
      <4>1. win' \in Seq(SegmentType)
        BY <1>3, RestoreTyped DEF IndInv
      <4> QED BY <3>1, <4>1
    <3> QED BY <2>1, <3>1, <3>2 DEF WindowLinked
  <2>3. CASE playlist.items # <<>>
    <3>1. Len(playlist.items) \in DOMAIN playlist.items
      BY <1>1, <1>2, <2>3
    <3>2. lastStart' = win'[Len(win')].start
      BY <1>3, <1>4, <1>5, <2>3, <3>1
    <3>3. win'[Len(win')].seq = playlist.first + Len(playlist.items) - 1
      BY <1>4, <1>5, <3>1
    <3>4. nextSeq' = win'[Len(win')].seq + 1
      BY <1>1, <1>2, <1>3, <3>3
    <3>5. win' # <<>>
      BY <1>4, <3>1
    <3> QED BY <2>1, <3>2, <3>4, <3>5 DEF WindowLinked
  <2> QED BY <2>2, <2>3
<1>8. PlaylistLinked' /\ UnwrittenPast' /\ DownClean'
  <2>1. PlaylistLinked'
    BY <1>3 DEF IndInv, PlaylistLinked
  <2>2. lastStart' \in Nat
    BY PrepareTyped DEF IndInv, TypeOK
  <2> QED BY <1>3, <2>1, <2>2 DEF UnwrittenPast, DownClean
<1>9. PlaylistBehind'
  BY <1>1, <1>2, <1>3, <1>4 DEF PlaylistBehind
<1>10. ListedIsKept'
  <2>1. \A i \in DOMAIN playlist.items : Kept(playlist.items[i], win', retired', unwritten')
    BY <1>2, <1>4, <1>5 DEF Kept
  <2> QED BY <1>3, <2>1 DEF ListedIsKept
<1>11. PlaylistServable'
  <2> SUFFICES ASSUME ~overdue, NEW i \in DOMAIN playlist.items
               PROVE  /\ playlist.items[i].file \in DOMAIN segFile'
                      /\ segFile'[playlist.items[i].file] = playlist.items[i].start
                      /\ playlist.items[i].map \in initFile'
    BY <1>3 DEF PlaylistServable
  <2>1. /\ playlist.items[i].file \in DOMAIN segFile
        /\ segFile[playlist.items[i].file] = playlist.items[i].start
        /\ playlist.items[i].map \in initFile
    BY DEF IndInv, PlaylistServable
  <2>2. /\ playlist.items[i].file \in FilesInUse(playlist.items, <<>>)
        /\ playlist.items[i].map \in MapsInUse(playlist.items, <<>>)
    BY DEF FilesInUse, MapsInUse
  <2>3. initFile' = initFile \cap MapsInUse(playlist.items, <<>>)
    BY DEF Prepare
  <2> DEFINE D == DOMAIN segFile \ FilesInUse(playlist.items, <<>>)
  <2>4. segFile' = Without(segFile, D)
    BY DEF Prepare
  <2>5. playlist.items[i].file \notin D
    BY <2>2
  <2> HIDE DEF D
  <2>6. DOMAIN segFile' = DOMAIN segFile \ D /\ \A f \in DOMAIN segFile \ D : segFile'[f] = segFile[f]
    BY <2>4 DEF Without
  <2> QED BY <2>1, <2>2, <2>3, <2>5, <2>6
<1>12. WindowServed'
  BY <1>2, <1>3, <1>4, <1>5, <1>11 DEF WindowServed, Served, PlaylistServable
<1> QED BY <1>7, <1>8, <1>9, <1>10, <1>11, <1>12

\* A crash leaves the playlist and the files it lists; add may have written a file the playlist does not list yet.
LEMMA CrashKeeps ==
    ASSUME IndInv, Crash,
           \A f \in DOMAIN segFile :
              (\E i \in DOMAIN playlist.items : playlist.items[i].file = f)
                 => f \in DOMAIN segFile' /\ segFile'[f] = segFile[f],
           initFile \subseteq initFile'
    PROVE  /\ WindowLinked' /\ PlaylistLinked' /\ PlaylistBehind' /\ UnwrittenPast' /\ DownClean'
           /\ ListedIsKept' /\ WindowServed' /\ PlaylistServable'
<1>1. /\ pc' = "down" /\ win' = <<>> /\ nextSeq' = 0 /\ lastStart' = 0 /\ prev' = NoPrev /\ retired' = <<>>
      /\ unwritten' = 0 /\ playlist' = playlist /\ overdue' = overdue
  BY DEF Crash
<1>2. WindowLinked' /\ PlaylistBehind' /\ UnwrittenPast' /\ DownClean' /\ ListedIsKept' /\ WindowServed'
  BY <1>1 DEF WindowLinked, PlaylistBehind, UnwrittenPast, DownClean, ListedIsKept, WindowServed
<1>3. PlaylistLinked'
  BY <1>1 DEF IndInv, PlaylistLinked
<1>4. PlaylistServable'
  <2> SUFFICES ASSUME ~overdue, NEW i \in DOMAIN playlist.items
               PROVE  /\ playlist.items[i].file \in DOMAIN segFile'
                      /\ segFile'[playlist.items[i].file] = playlist.items[i].start
                      /\ playlist.items[i].map \in initFile'
    BY <1>1 DEF PlaylistServable
  <2>1. /\ playlist.items[i].file \in DOMAIN segFile
        /\ segFile[playlist.items[i].file] = playlist.items[i].start
        /\ playlist.items[i].map \in initFile
    BY DEF IndInv, PlaylistServable
  <2> QED BY <2>1
<1> QED BY <1>2, <1>3, <1>4

\* A step of a running engine that adds no segment and writes no playlist loses nothing.
LEMMA QuietKeeps ==
    ASSUME IndInv, pc # "down", pc' # "down", initFile \subseteq initFile',
           UNCHANGED <<win, nextSeq, lastStart, retired, segFile, playlist, unwritten, overdue>>
    PROVE  /\ WindowLinked' /\ PlaylistLinked' /\ PlaylistBehind' /\ UnwrittenPast' /\ DownClean'
           /\ ListedIsKept' /\ WindowServed' /\ PlaylistServable'
<1>1. WindowLinked' /\ PlaylistLinked' /\ PlaylistBehind' /\ UnwrittenPast' /\ DownClean'
  BY DEF IndInv, WindowLinked, PlaylistLinked, PlaylistBehind, UnwrittenPast, DownClean
<1>2. ListedIsKept'
  BY DEF IndInv, ListedIsKept
<1>3. WindowServed'
  BY DEF IndInv, WindowServed, Served
<1>4. PlaylistServable'
  BY DEF IndInv, PlaylistServable
<1> QED BY <1>1, <1>2, <1>3, <1>4

\* The playlist that is written lists the window, whose files are all there.
LEMMA WriteKeeps ==
    ASSUME IndInv, WritePlaylist
    PROVE  /\ WindowLinked' /\ PlaylistLinked' /\ PlaylistBehind' /\ UnwrittenPast' /\ DownClean'
           /\ ListedIsKept' /\ WindowServed' /\ PlaylistServable'
<1>1. /\ pc = "write" /\ pc' = "announce" /\ unwritten' = 0
      /\ playlist' = RenderMediaPlaylist(win, discSeq)
      /\ UNCHANGED <<win, nextSeq, lastStart, retired, segFile, initFile, overdue>>
  BY DEF WritePlaylist, stVars
<1>2. win # <<>> /\ win \in Seq(SegmentType) /\ nextSeq \in Nat /\ lastStart \in Nat
  BY <1>1 DEF IndInv, TypeOK, TickSound
<1>3. DOMAIN win = 1..Len(win) /\ Len(win) \in Nat /\ 1 \in DOMAIN win
  BY <1>2
<1>4. /\ playlist'.first = win[1].seq
      /\ DOMAIN playlist'.items = DOMAIN win
      /\ \A i \in DOMAIN win : /\ playlist'.items[i].file = win[i].file
                               /\ playlist'.items[i].start = win[i].start
                               /\ playlist'.items[i].map = win[i].map
  BY <1>1 DEF RenderMediaPlaylist
<1>5. playlist'.items \in Seq(ItemType) /\ Len(playlist'.items) = Len(win)
  <2>1. playlist'.items \in Seq(ItemType)
    BY <1>1, <1>2, RenderTyped DEF IndInv
  <2> QED BY <1>3, <1>4, <2>1
<1>6. \A i \in DOMAIN win : win[i].file = win[i].seq /\ win[i].seq = nextSeq - 1 - Len(win) + i
  BY DEF IndInv, WindowLinked
<1>7. win[1].seq = nextSeq - Len(win)
  <2>1. win[1].seq = nextSeq - 1 - Len(win) + 1
    BY <1>3, <1>6
  <2> QED BY <1>2, <1>3, <2>1
<1>8. PlaylistLinked'
  <2>1. playlist'.items # <<>>
    BY <1>3, <1>4
  <2>2. \A i \in DOMAIN win : nextSeq - 1 - Len(win) + i = (nextSeq - Len(win)) + i - 1
    BY <1>2, <1>3
  <2> QED BY <1>4, <1>6, <1>7, <2>1, <2>2 DEF PlaylistLinked
<1>9. PlaylistBehind'
  <2>1. (nextSeq - Len(win)) + Len(win) <= nextSeq
    BY <1>2, <1>3
  <2> QED BY <1>1, <1>2, <1>4, <1>5, <1>7, <2>1 DEF PlaylistBehind
<1>10. WindowLinked' /\ UnwrittenPast' /\ DownClean'
  BY <1>1, <1>2 DEF IndInv, WindowLinked, UnwrittenPast, DownClean
<1>11. ListedIsKept'
  <2>1. \A i \in DOMAIN win : Kept(playlist'.items[i], win', retired', unwritten')
    BY <1>1, <1>4 DEF Kept
  <2> QED BY <1>4, <2>1 DEF ListedIsKept
<1>12. WindowServed'
  BY <1>1 DEF IndInv, WindowServed, Served
<1>13. PlaylistServable'
  <2>1. ~overdue => \A i \in DOMAIN win : Served(win[i])
    BY DEF IndInv, WindowServed
  <2> QED BY <1>1, <1>4, <2>1 DEF PlaylistServable, Served
<1> QED BY <1>8, <1>9, <1>10, <1>11, <1>12, <1>13

\* The file add was writing when the process died is not one the playlist lists.
LEMMA CrashInAddKeeps ==
    ASSUME IndInv, NEW p, NEW r, CrashInAdd(p, r)
    PROVE  /\ WindowLinked' /\ PlaylistLinked' /\ PlaylistBehind' /\ UnwrittenPast' /\ DownClean'
           /\ ListedIsKept' /\ WindowServed' /\ PlaylistServable'
<1> DEFINE f0 == Seq0(NextSecond)
<1>1. /\ Crash /\ pc = "release" /\ initFile \subseteq initFile'
      /\ segFile' \in {segFile, With(segFile, f0, NextSecond)}
  BY DEF CrashInAdd, Due
<1>2. \A i \in DOMAIN playlist.items : playlist.items[i].file # f0
  <2>1. \A i \in DOMAIN playlist.items : playlist.items[i].file = playlist.first + i - 1
    BY DEF IndInv, PlaylistLinked
  <2>2. playlist.items \in Seq(ItemType) /\ playlist.first \in Nat /\ nextSeq \in Nat
    BY DEF IndInv, TypeOK
  <2>3. playlist.items # <<>> => playlist.first + Len(playlist.items) <= nextSeq
    BY <1>1 DEF IndInv, PlaylistBehind
  <2>4. \A i \in DOMAIN playlist.items : playlist.items[i].file < nextSeq /\ nextSeq # 0
    BY <2>1, <2>2, <2>3
  <2> QED BY <2>2, <2>4 DEF Seq0
<1> HIDE DEF f0
<1>3. ASSUME NEW f \in DOMAIN segFile, \E i \in DOMAIN playlist.items : playlist.items[i].file = f
      PROVE  f \in DOMAIN segFile' /\ segFile'[f] = segFile[f]
  <2>1. f # f0
    BY <1>2, <1>3
  <2> QED BY <1>1, <2>1 DEF With
<1> QED BY <1>1, <1>3, CrashKeeps

\* Every step keeps the inductive invariant.
LEMMA IndStep ==
    ASSUME IndInv, [Next]_vars
    PROVE  IndInv'
<1> DEFINE Rest == /\ WindowLinked /\ PlaylistLinked /\ PlaylistBehind /\ UnwrittenPast /\ DownClean
                   /\ ListedIsKept /\ WindowServed /\ PlaylistServable
<1>0. TypeOK' /\ TickSound'
  BY TypeStep DEF IndInv
<1>1. CASE UNCHANGED vars
  BY <1>1 DEF vars, clockVars, tickVars, stVars, diskVars, envVars, IndInv, TypeOK, WindowLinked, PlaylistLinked,
              PlaylistBehind, UnwrittenPast, DownClean, ListedIsKept, WindowServed, Served, TickSound,
              PlaylistServable
<1>2. ASSUME NEW size \in WindowSizes, Prepare(size)
      PROVE  Rest'
  BY <1>2, PrepareKeeps
<1>3. ASSUME NEW t, TickStart(t)
      PROVE  Rest'
  BY <1>3, QuietKeeps DEF TickStart, stVars, diskVars, envVars
<1>4. ASSUME NEW p, NEW r, NEW b, Add(p, r, b)
      PROVE  Rest'
  BY <1>4, AddLinked, AddServed
<1>5. ASSUME NEW p, NEW r, Lost(p, r)
      PROVE  Rest'
  BY <1>5, QuietKeeps DEF Lost, Due, stVars, envVars
<1>6. ASSUME Duplicate
      PROVE  Rest'
  BY <1>6, QuietKeeps DEF Duplicate, Due, stVars, diskVars, envVars
<1>7. ASSUME EndRelease
      PROVE  Rest'
  BY <1>7, QuietKeeps DEF EndRelease, stVars, diskVars, envVars
<1>8. ASSUME WritePlaylist
      PROVE  Rest'
  BY <1>8, WriteKeeps
<1>9. ASSUME WriteFails
      PROVE  Rest'
  BY <1>9, QuietKeeps DEF WriteFails, stVars, diskVars
<1>10. ASSUME Announce
       PROVE  Rest'
  BY <1>10, QuietKeeps DEF Announce, stVars, diskVars, envVars
<1>11. ASSUME CrashBetween
       PROVE  Rest'
  BY <1>11, CrashKeeps DEF CrashBetween
<1>12. ASSUME NEW p, NEW r, CrashInAdd(p, r)
       PROVE  Rest'
  BY <1>12, CrashInAddKeeps
<1>13. ASSUME LosePlaylist
       PROVE  Rest'
  <2>1. playlist' = NoPlaylist /\ pc' = "down" /\ pc = "down"
        /\ UNCHANGED <<win, nextSeq, lastStart, prev, retired, segFile, initFile, unwritten, overdue>>
    BY <1>13 DEF LosePlaylist, stVars, envVars
  <2>2. playlist'.items = <<>> /\ playlist'.first = 0
    BY <2>1 DEF NoPlaylist
  <2> QED BY <2>1, <2>2 DEF IndInv, WindowLinked, PlaylistLinked, PlaylistBehind, UnwrittenPast, DownClean,
                            ListedIsKept, WindowServed, Served, PlaylistServable
<1>14. Rest' => IndInv'
  BY <1>0 DEF IndInv
<1> HIDE DEF Rest
<1> QED
  BY <1>1, <1>2, <1>3, <1>4, <1>5, <1>6, <1>7, <1>8, <1>9, <1>10, <1>11, <1>12, <1>13, <1>14 DEF Next, Tick

\* The engine starts with the inductive invariant.
LEMMA IndInit == Init => IndInv
<1> SUFFICES ASSUME Init PROVE IndInv
  OBVIOUS
<1>1. TypeOK /\ TickSound
  BY TypeInit
<1>2. /\ pc = "down" /\ win = <<>> /\ nextSeq = 0 /\ lastStart = 0 /\ prev = NoPrev /\ retired = <<>>
      /\ unwritten = 0 /\ playlist.items = <<>> /\ playlist.first = 0
  BY DEF Init, NoPlaylist
<1> QED BY <1>1, <1>2 DEF IndInv, WindowLinked, PlaylistLinked, PlaylistBehind, UnwrittenPast, DownClean,
                         ListedIsKept, WindowServed, PlaylistServable

\* Everything the playlist on disk lists can be fetched, whatever the window, lead and retention, however the clock
\* moves, wherever the process dies and however often: cleanup (stitch.go) never deletes a listed file.
THEOREM ListedFilesStay == Spec => []PlaylistServable
<1>1. IndInv /\ [Next]_vars => IndInv'
  BY IndStep
<1>2. IndInv => PlaylistServable
  BY DEF IndInv
<1> QED BY <1>1, <1>2, IndInit, PTL DEF Spec
-----------------------------------------------------------------------------
(* No segment waits long for its playlist *)

\* until the first failed write, what waits for the playlist was added by the tick that is going on
Prompt ==
    failures = 0 =>
        /\ ~overdue
        /\ unwritten # 0 => pc \in {"release", "write"} /\ appended /\ slot <= unwritten

\* Every step keeps it: one tick adds at most the seconds from its slot up to LiveLead later.
LEMMA PromptStep ==
    ASSUME TypeOK, DownClean, Prompt, [Next]_vars
    PROVE  Prompt'
<1>1. CASE UNCHANGED vars
  BY <1>1 DEF vars, clockVars, tickVars, envVars, Prompt
<1>2. ASSUME NEW size \in WindowSizes, Prepare(size)
      PROVE  Prompt'
  BY <1>2 DEF Prepare, clockVars, tickVars, envVars, Prompt, DownClean
<1>3. ASSUME NEW t, TickStart(t)
      PROVE  Prompt'
  BY <1>3 DEF TickStart, envVars, Prompt
<1>4. ASSUME NEW p, NEW r, NEW b, Add(p, r, b)
      PROVE  Prompt'
  <2> DEFINE t == NextSecond
             since == IF unwritten = 0 THEN t ELSE unwritten
  <2>a. /\ pc = "release" /\ pc' = pc /\ slot' = slot /\ failures' = failures /\ appended' = TRUE
        /\ unwritten' = since /\ t <= slot + LiveLead
    BY <1>4 DEF Add, Due, clockVars
  <2>b. t \in Nat /\ slot <= t /\ slot \in Nat
    BY NextSecondTyped DEF NextSecond, TypeOK
  <2>1. /\ pc = "release" /\ pc' = pc /\ slot' = slot /\ failures' = failures /\ appended' = TRUE
        /\ unwritten' = since /\ t <= slot + LiveLead /\ t \in Nat /\ slot <= t /\ slot \in Nat
    BY <2>a, <2>b
  <2>2. overdue' = (overdue \/ t - since >= Retain)
    BY <1>4 DEF Add
  <2> HIDE DEF t
  <2> SUFFICES ASSUME failures = 0
               PROVE  ~overdue' /\ slot <= since
    BY <2>1 DEF Prompt
  <2>3. since \in Nat /\ slot <= since
    BY <2>1 DEF Prompt, TypeOK
  <2>4. ~(t - since >= Retain)
    <3> HIDE DEF since
    <3>1. LiveLead \in Nat /\ Retain \in Nat /\ LiveLead < Retain
      BY TimingAssumption
    <3> QED BY <2>1, <2>3, <3>1
  <2>5. ~overdue
    BY DEF Prompt
  <2> QED BY <2>2, <2>3, <2>4, <2>5, Zenon
<1>5. ASSUME NEW p, NEW r, Lost(p, r)
      PROVE  Prompt'
  BY <1>5 DEF Lost, clockVars, envVars, Prompt
<1>6. ASSUME Duplicate
      PROVE  Prompt'
  BY <1>6 DEF Duplicate, clockVars, envVars, Prompt
<1>7. ASSUME EndRelease
      PROVE  Prompt'
  BY <1>7 DEF EndRelease, clockVars, tickVars, envVars, Prompt
<1>8. ASSUME WritePlaylist
      PROVE  Prompt'
  BY <1>8 DEF WritePlaylist, Prompt
<1>9. ASSUME WriteFails
      PROVE  Prompt'
  <2>1. failures' = failures + 1 /\ failures \in Nat
    BY <1>9 DEF WriteFails, TypeOK
  <2>2. failures' # 0
    BY <2>1
  <2> QED BY <2>2 DEF Prompt
<1>10. ASSUME Announce
       PROVE  Prompt'
  BY <1>10 DEF Announce, envVars, Prompt
<1>11. ASSUME Crash
       PROVE  Prompt'
  BY <1>11 DEF Crash, Prompt
<1>12. ASSUME LosePlaylist
       PROVE  Prompt'
  BY <1>12 DEF LosePlaylist, clockVars, tickVars, envVars, Prompt
<1> QED
  BY <1>1, <1>2, <1>3, <1>4, <1>5, <1>6, <1>7, <1>8, <1>9, <1>10, <1>11, <1>12
     DEF Next, Tick, CrashBetween, CrashInAdd

\* As long as no playlist write fails, no segment waits SEGMENT_RETAIN_S for one, because SEGMENT_RETAIN_S is longer
\* than LIVE_LEAD_S: a stalled clock, lost seconds and restarts do not matter.
THEOREM PromptPlaylist == Spec => []OverdueNeedsFailures
<1>1. Init => IndInv /\ Prompt
  BY IndInit DEF Init, Prompt
<1>2. IndInv /\ Prompt /\ [Next]_vars => IndInv' /\ Prompt'
  BY IndStep, PromptStep DEF IndInv
<1>3. IndInv /\ Prompt => OverdueNeedsFailures
  <2> SUFFICES ASSUME IndInv, Prompt, overdue PROVE failures > 0
    BY DEF OverdueNeedsFailures
  <2>1. failures # 0
    BY DEF Prompt
  <2> QED BY <2>1 DEF IndInv, TypeOK
<1> QED BY <1>1, <1>2, <1>3, PTL DEF Spec

\* Together: an engine whose playlist writes succeed never lists a file that is not there.
THEOREM AlwaysServable ==
    Spec => [](failures = 0 => \A i \in DOMAIN playlist.items : Served(playlist.items[i]))
<1>1. Init => IndInv /\ Prompt
  BY IndInit DEF Init, Prompt
<1>2. IndInv /\ Prompt /\ [Next]_vars => IndInv' /\ Prompt'
  BY IndStep, PromptStep DEF IndInv
<1>3. IndInv /\ Prompt => (failures = 0 => \A i \in DOMAIN playlist.items : Served(playlist.items[i]))
  BY DEF IndInv, Prompt, PlaylistServable, Served
<1> QED BY <1>1, <1>2, <1>3, PTL DEF Spec
-----------------------------------------------------------------------------
(* Discontinuities *)

\* the stitcher remembers where the last segment of the window came from
PrevIsLast == win # <<>> => prev.src = win[Len(win)].src /\ prev.idx = win[Len(win)].idx

\* add marks every jump between the last segment and the new one.
LEMMA AddMarks ==
    ASSUME IndInv, PrevIsLast, DiscontinuityMarked, NEW p, NEW r, NEW b, Add(p, r, b)
    PROVE  PrevIsLast' /\ DiscontinuityMarked'
<1> DEFINE t == NextSecond
           m == Segment(p, t, r, b)
<1>1. PICK out \in 0..Len(win), queue \in Seq(RetiredType), n \in Nat :
         m \in SegmentType /\ AddEffect(t, m, out, queue, n)
  BY AddFacts DEF IndInv
<1>2. /\ win' \in Seq(SegmentType)
      /\ Len(win') = Len(win) + 1 - out
      /\ \A i \in 1..(Len(win) - out) : win'[i] = win[out + i]
      /\ win'[Len(win')] = m
  BY <1>1 DEF AddEffect
<1>3. m.src = r.src /\ m.idx = r.idx /\ m.start = t /\ m.disc = NeedsDisc(r, t, PlannedDisc(p, t, b))
  BY DEF Segment
<1>4. prev' = [src |-> m.src, idx |-> m.idx, avail |-> m.avail]
  BY DEF Add
<1>5. (win # <<>> /\ ~m.disc) => /\ m.src = prev.src /\ m.idx = prev.idx + 1
                                 /\ m.start = lastStart + 1 /\ prev.src # NoSource
  BY <1>3 DEF NeedsDisc
<1> HIDE DEF m, t
<1>6. PrevIsLast'
  BY <1>2, <1>4 DEF PrevIsLast
<1>7. win \in Seq(SegmentType) /\ Len(win) \in Nat /\ Len(win') \in Nat
  BY <1>2, SMTT(60) DEF IndInv, TypeOK
<1>8. ASSUME NEW i \in 2..Len(win'), ~win'[i].disc, win'[i].src # NoSource
      PROVE  /\ win'[i].src = win'[i - 1].src
             /\ win'[i].idx = win'[i - 1].idx + 1
             /\ win'[i].start = win'[i - 1].start + 1
  <2>1. i - 1 \in 1..(Len(win) - out) /\ out + (i - 1) \in 1..Len(win) /\ out + i - 1 = out + (i - 1)
    BY <1>2, <1>7
  <2>2. win'[i - 1] = win[out + (i - 1)]
    BY <1>2, <2>1
  <2>3. CASE i = Len(win')
    <3>1. out + (i - 1) = Len(win) /\ win # <<>>
      BY <1>2, <1>7, <2>1, <2>3
    <3>2. win'[i] = m /\ win'[i - 1] = win[Len(win)]
      BY <1>2, <2>2, <2>3, <3>1
    <3>3. lastStart = win[Len(win)].start
      BY <3>1 DEF IndInv, WindowLinked
    <3>4. prev.src = win[Len(win)].src /\ prev.idx = win[Len(win)].idx
      BY <3>1 DEF PrevIsLast
    <3>5. ~m.disc
      BY <1>8, <3>2
    <3> QED BY <1>5, <3>1, <3>2, <3>3, <3>4, <3>5
  <2>4. CASE i # Len(win')
    <3> DEFINE j == out + i
    <3>1. \A a, x, k, l \in Nat : (l = a + 1 - x /\ k <= l /\ k # l /\ 2 <= k)
                                    => k <= a - x /\ 2 <= x + k /\ x + k <= a
      OBVIOUS
    <3>2. i \in Nat /\ out \in Nat /\ Len(win) - out \in Int /\ 2 <= i /\ i <= Len(win')
      BY <1>7
    <3>3. i <= Len(win) - out /\ 2 <= j /\ j <= Len(win)
      BY <1>2, <1>7, <2>4, <3>1, <3>2
    <3>4. i \in 1..(Len(win) - out) /\ j \in 2..Len(win)
      BY <1>7, <3>2, <3>3
    <3>5. win'[i] = win[j]
      BY <1>2, <3>4
    <3>6. j - 1 = out + (i - 1)
      BY <2>1
    <3> HIDE DEF j
    <3>7. /\ win[j].src = win[j - 1].src
          /\ win[j].idx = win[j - 1].idx + 1
          /\ win[j].start = win[j - 1].start + 1
      BY <1>8, <3>4, <3>5 DEF DiscontinuityMarked
    <3> QED BY <2>2, <3>5, <3>6, <3>7
  <2> QED BY <2>3, <2>4
<1> QED BY <1>6, <1>8 DEF DiscontinuityMarked

\* A restored segment has no source, so it can have no unmarked neighbour and no wrong one remembered.
LEMMA PrepareMarks ==
    ASSUME IndInv, NEW size \in WindowSizes, Prepare(size)
    PROVE  PrevIsLast' /\ DiscontinuityMarked'
<1>1. win' = RestoreWindow(playlist) /\ prev' = NoPrev
  BY DEF Prepare, IndInv, DownClean
<1>2. DOMAIN win' = 1..Len(win') /\ win' \in Seq(SegmentType)
  BY <1>1, RestoreTyped DEF IndInv
<1>3. \A i \in DOMAIN win' : win'[i].src = NoSource /\ win'[i].idx = 0
  <2>1. DOMAIN win' = DOMAIN playlist.items
    BY <1>1 DEF RestoreWindow
  <2> QED BY <1>1, <2>1 DEF RestoreWindow
<1>4. DiscontinuityMarked'
  BY <1>2, <1>3 DEF DiscontinuityMarked
<1>5. PrevIsLast'
  <2> SUFFICES ASSUME win' # <<>>
               PROVE  prev'.src = win'[Len(win')].src /\ prev'.idx = win'[Len(win')].idx
    BY DEF PrevIsLast
  <2>1. Len(win') \in DOMAIN win'
    BY <1>2
  <2> QED BY <1>1, <1>3, <2>1 DEF NoPrev
<1> QED BY <1>4, <1>5

\* Every step keeps the marks.
LEMMA MarksStep ==
    ASSUME IndInv, PrevIsLast, DiscontinuityMarked, [Next]_vars
    PROVE  PrevIsLast' /\ DiscontinuityMarked'
<1>1. ASSUME UNCHANGED <<win, prev>>
      PROVE  PrevIsLast' /\ DiscontinuityMarked'
  BY <1>1 DEF PrevIsLast, DiscontinuityMarked
<1>2. ASSUME Crash
      PROVE  PrevIsLast' /\ DiscontinuityMarked'
  <2>1. win' = <<>>
    BY <1>2 DEF Crash
  <2>2. 2..Len(win') = {}
    BY <2>1
  <2> QED BY <2>1, <2>2 DEF PrevIsLast, DiscontinuityMarked
<1>3. CASE UNCHANGED vars
  BY <1>1, <1>3 DEF vars, stVars
<1>4. ASSUME NEW t, TickStart(t)
      PROVE  UNCHANGED <<win, prev>>
  BY <1>4 DEF TickStart, stVars
<1>5. ASSUME NEW p, NEW r, Lost(p, r)
      PROVE  UNCHANGED <<win, prev>>
  BY <1>5 DEF Lost, stVars
<1>6. Duplicate \/ EndRelease \/ WritePlaylist \/ WriteFails \/ Announce \/ LosePlaylist
        => UNCHANGED <<win, prev>>
  BY DEF Duplicate, EndRelease, WritePlaylist, WriteFails, Announce, LosePlaylist, stVars
<1> QED
  BY <1>1, <1>2, <1>3, <1>4, <1>5, <1>6, AddMarks, PrepareMarks DEF Next, Tick, CrashBetween, CrashInAdd

\* Two segments without a discontinuity between them are neighbours in the same source and in time, whatever the
\* schedule, the sources and restarts do (needsDisc in add, stitch.go).
THEOREM JumpsAreMarked == Spec => []DiscontinuityMarked
<1>1. Init => IndInv /\ PrevIsLast /\ DiscontinuityMarked
  <2> SUFFICES ASSUME Init PROVE PrevIsLast /\ DiscontinuityMarked
    BY IndInit
  <2>1. win = <<>> /\ 2..Len(win) = {}
    BY DEF Init
  <2> QED BY <2>1 DEF PrevIsLast, DiscontinuityMarked
<1>2. IndInv /\ PrevIsLast /\ DiscontinuityMarked /\ [Next]_vars
        => IndInv' /\ PrevIsLast' /\ DiscontinuityMarked'
  BY IndStep, MarksStep
<1> QED BY <1>1, <1>2, PTL DEF Spec

-----------------------------------------------------------------------------
(* Numbers and the clock *)

\* in the playlist on disk, too, no number runs ahead of its second
PlaylistBehindClock ==
    \A i \in DOMAIN playlist.items : playlist.items[i].file <= playlist.items[i].start

\* The window after add: the old one without its first out segments, and the new segment.
LEMMA AddWindow ==
    ASSUME IndInv, NEW p, NEW r, NEW b, Add(p, r, b)
    PROVE  LET m == Segment(p, NextSecond, r, b) IN
           \E out \in 0..Len(win) :
              /\ m \in SegmentType /\ NextSecond \in Nat /\ NextSecond > lastStart
              /\ win' \in Seq(SegmentType) /\ Len(win') = Len(win) + 1 - out
              /\ Len(win') \in DOMAIN win' /\ win'[Len(win')] = m
              /\ \A i \in DOMAIN win' : i # Len(win') =>
                    /\ i \in 1..(Len(win) - out) /\ out + i \in DOMAIN win /\ win'[i] = win[out + i]
<1> DEFINE t == NextSecond
           m == Segment(p, t, r, b)
<1>1. PICK out \in 0..Len(win), queue \in Seq(RetiredType), n \in Nat :
         m \in SegmentType /\ AddEffect(t, m, out, queue, n)
  BY AddFacts DEF IndInv
<1>2. /\ t \in Nat /\ t > lastStart
      /\ win' \in Seq(SegmentType)
      /\ Len(win') = Len(win) + 1 - out
      /\ \A i \in 1..(Len(win) - out) : win'[i] = win[out + i]
      /\ win'[Len(win')] = m
  BY <1>1 DEF AddEffect
<1> HIDE DEF m, t
<1>3. /\ Len(win) \in Nat /\ DOMAIN win = 1..Len(win)
      /\ Len(win') \in Nat /\ DOMAIN win' = 1..Len(win')
  BY <1>2 DEF IndInv, TypeOK
<1>4. ASSUME NEW i \in DOMAIN win', i # Len(win')
      PROVE  i \in 1..(Len(win) - out) /\ out + i \in DOMAIN win /\ win'[i] = win[out + i]
  <2> DEFINE a == Len(win)
             c == Len(win')
  <2>1. a \in Nat /\ c \in Nat /\ out \in Nat /\ out <= a /\ c = a + 1 - out /\ i \in Nat /\ 1 <= i /\ i <= c /\ i # c
    BY <1>2, <1>3, <1>4
  <2> HIDE DEF a, c
  <2>2. \A x, y, k, l \in Nat : (l = x + 1 - y /\ y <= x /\ 1 <= k /\ k <= l /\ k # l)
                                    => k \in 1..(x - y) /\ y + k \in 1..x
    OBVIOUS
  <2>3. i \in 1..(Len(win) - out) /\ out + i \in 1..Len(win)
    BY <2>1, <2>2 DEF a
  <2> QED BY <1>2, <1>3, <2>3
<1>5. Len(win') \in DOMAIN win'
  BY <1>2, <1>3
<1>6. \E x \in 0..Len(win) :
          /\ m \in SegmentType /\ t \in Nat /\ t > lastStart
          /\ win' \in Seq(SegmentType) /\ Len(win') = Len(win) + 1 - x
          /\ Len(win') \in DOMAIN win' /\ win'[Len(win')] = m
          /\ \A i \in DOMAIN win' : i # Len(win') =>
                /\ i \in 1..(Len(win) - x) /\ x + i \in DOMAIN win /\ win'[i] = win[x + i]
  BY <1>1, <1>2, <1>4, <1>5
<1> QED BY <1>6 DEF m, t

\* The segment that add makes comes at least one second after the one whose number it continues.
LEMMA AddClock ==
    ASSUME IndInv, SeqBehindClock, NEW p, NEW r, NEW b, Add(p, r, b)
    PROVE  SeqBehindClock'
<1> DEFINE t == NextSecond
           m == Segment(p, t, r, b)
<1>1. PICK out \in 0..Len(win) :
         /\ m \in SegmentType /\ t \in Nat /\ t > lastStart
         /\ win' \in Seq(SegmentType) /\ Len(win') = Len(win) + 1 - out
         /\ Len(win') \in DOMAIN win' /\ win'[Len(win')] = m
         /\ \A i \in DOMAIN win' : i # Len(win') =>
               /\ i \in 1..(Len(win) - out) /\ out + i \in DOMAIN win /\ win'[i] = win[out + i]
  BY AddWindow
<1>3. m.start = t /\ m.seq = Seq0(t)
  BY DEF Segment
<1> HIDE DEF m
<1>4. win \in Seq(SegmentType) /\ Len(win) \in Nat /\ Len(win') \in Nat /\ lastStart \in Nat /\ nextSeq \in Nat
  BY <1>1 DEF IndInv, TypeOK
<1>5. m.seq <= m.start
  <2>1. CASE win = <<>>
    BY <1>1, <1>3, <2>1 DEF Seq0, IndInv, WindowLinked
  <2>2. CASE win # <<>>
    <3>1. Len(win) \in DOMAIN win /\ win[Len(win)] \in SegmentType
      BY <1>4, <2>2
    <3>2. win[Len(win)].seq \in Nat /\ win[Len(win)].seq <= win[Len(win)].start
      BY <3>1 DEF SeqBehindClock, SegmentType
    <3>3. nextSeq = win[Len(win)].seq + 1 /\ lastStart = win[Len(win)].start
      BY <2>2 DEF IndInv, WindowLinked
    <3>4. t \in Nat /\ t > lastStart
      BY <1>1
    <3> QED BY <1>3, <1>4, <3>2, <3>3, <3>4 DEF Seq0
  <2> QED BY <2>1, <2>2
<1>6. ASSUME NEW i \in DOMAIN win' PROVE win'[i].seq <= win'[i].start
  <2>1. CASE i = Len(win')
    BY <1>1, <1>5, <2>1
  <2>2. CASE i # Len(win')
    BY <1>1, <2>2 DEF SeqBehindClock
  <2> QED BY <2>1, <2>2
<1> QED BY <1>6 DEF SeqBehindClock

LEMMA ClockStep ==
    ASSUME IndInv, SeqBehindClock, PlaylistBehindClock, [Next]_vars
    PROVE  SeqBehindClock' /\ PlaylistBehindClock'
<1>1. ASSUME UNCHANGED <<win, playlist>> PROVE SeqBehindClock' /\ PlaylistBehindClock'
  BY <1>1 DEF SeqBehindClock, PlaylistBehindClock
<1>2. ASSUME Crash PROVE SeqBehindClock' /\ PlaylistBehindClock'
  <2>1. win' = <<>> /\ playlist' = playlist
    BY <1>2 DEF Crash
  <2> QED BY <2>1 DEF SeqBehindClock, PlaylistBehindClock
<1>3. CASE LosePlaylist
  <2>1. playlist'.items = <<>> /\ win' = win
    BY <1>3 DEF LosePlaylist, NoPlaylist, stVars
  <2> QED BY <2>1 DEF SeqBehindClock, PlaylistBehindClock
<1>4. ASSUME NEW size \in WindowSizes, Prepare(size) PROVE SeqBehindClock' /\ PlaylistBehindClock'
  <2>1. win' = RestoreWindow(playlist) /\ playlist' = playlist
    BY <1>4 DEF Prepare
  <2>2. DOMAIN win' = DOMAIN playlist.items
        /\ \A i \in DOMAIN playlist.items : /\ win'[i].seq = playlist.first + i - 1
                                            /\ win'[i].start = playlist.items[i].start
    BY <2>1 DEF RestoreWindow
  <2>3. \A i \in DOMAIN playlist.items : playlist.items[i].file = playlist.first + i - 1
    BY DEF IndInv, PlaylistLinked
  <2> QED BY <2>1, <2>2, <2>3 DEF SeqBehindClock, PlaylistBehindClock
<1>5. CASE WritePlaylist
  <2>1. win' = win /\ playlist' = RenderMediaPlaylist(win, discSeq)
    BY <1>5 DEF WritePlaylist, stVars
  <2>2. DOMAIN playlist'.items = DOMAIN win
        /\ \A i \in DOMAIN win : playlist'.items[i].file = win[i].file /\ playlist'.items[i].start = win[i].start
    BY <2>1 DEF RenderMediaPlaylist
  <2>3. \A i \in DOMAIN win : win[i].file = win[i].seq
    BY DEF IndInv, WindowLinked
  <2> QED BY <2>1, <2>2, <2>3 DEF SeqBehindClock, PlaylistBehindClock
<1>6. ASSUME NEW p, NEW r, NEW b, Add(p, r, b) PROVE SeqBehindClock' /\ PlaylistBehindClock'
  BY <1>6, AddClock DEF Add, PlaylistBehindClock
<1>7. CASE UNCHANGED vars
  BY <1>1, <1>7 DEF vars, stVars, diskVars
<1>8. ASSUME NEW t, TickStart(t) PROVE UNCHANGED <<win, playlist>>
  BY <1>8 DEF TickStart, stVars, diskVars
<1>9. ASSUME NEW p, NEW r, Lost(p, r) PROVE UNCHANGED <<win, playlist>>
  BY <1>9 DEF Lost, stVars
<1>10. Duplicate \/ EndRelease \/ WriteFails \/ Announce => UNCHANGED <<win, playlist>>
  BY DEF Duplicate, EndRelease, WriteFails, Announce, stVars, diskVars
<1> QED
  BY <1>1, <1>2, <1>3, <1>4, <1>5, <1>6, <1>7, <1>8, <1>9, <1>10 DEF Next, Tick, CrashBetween, CrashInAdd

\* No segment's number runs ahead of its second, over any restarts, losses and clocks: a stream that starts afresh with
\* the number of its second starts above every number that stands for an earlier second (add, stitch.go).
THEOREM NumbersFollowTheClock == Spec => []SeqBehindClock
<1>1. Init => IndInv /\ SeqBehindClock /\ PlaylistBehindClock
  <2> SUFFICES ASSUME Init PROVE SeqBehindClock /\ PlaylistBehindClock
    BY IndInit
  <2>1. win = <<>> /\ playlist.items = <<>>
    BY DEF Init, NoPlaylist
  <2> QED BY <2>1 DEF SeqBehindClock, PlaylistBehindClock
<1>2. IndInv /\ SeqBehindClock /\ PlaylistBehindClock /\ [Next]_vars
        => IndInv' /\ SeqBehindClock' /\ PlaylistBehindClock'
  BY IndStep, ClockStep
<1> QED BY <1>1, <1>2, PTL DEF Spec

-----------------------------------------------------------------------------
(* The ends of breaks *)

\* up to the first restart the stitcher knows the break of every segment, and remembers the one of the last
BreaksKnown ==
    crashes = 0 =>
        /\ pc = "down" => playlist.items = <<>>
        /\ \A i \in DOMAIN win : win[i].src # NoSource /\ (win[i].cueOut # 0 => win[i].cueOut = win[i].avail)
        /\ win # <<>> => prev.avail = win[Len(win)].avail

LEMMA AddEnds ==
    ASSUME IndInv, BreaksKnown, EndMarkerNotLost, NEW p \in Clips(NextSecond), NEW r, NEW b, Add(p, r, b)
    PROVE  BreaksKnown' /\ EndMarkerNotLost'
<1> DEFINE t == NextSecond
           m == Segment(p, t, r, b)
<1>1. PICK out \in 0..Len(win) :
         /\ m \in SegmentType /\ t \in Nat /\ t > lastStart
         /\ win' \in Seq(SegmentType) /\ Len(win') = Len(win) + 1 - out
         /\ Len(win') \in DOMAIN win' /\ win'[Len(win')] = m
         /\ \A i \in DOMAIN win' : i # Len(win') =>
               /\ i \in 1..(Len(win) - out) /\ out + i \in DOMAIN win /\ win'[i] = win[out + i]
  BY AddWindow
<1>2. m.avail = p.brk /\ m.cueIn = CueIn(p) /\ m.cueOut = CueOut(p, t) /\ m.src = r.src
  BY DEF Segment
<1>3. m.src # NoSource
  <2>1. r \in Resolve(p, t)
    BY DEF Add
  <2>2. r.src \in Sources
    BY <1>1, <2>1, ResolveTyped
  <2> QED BY <1>2, <2>2, ProgrammesAssumption
<1>4. m.cueOut # 0 => m.cueOut = m.avail
  BY <1>2 DEF CueOut
<1>5. prev.avail # 0 /\ prev.avail # m.avail => m.cueIn = prev.avail
  BY <1>2 DEF CueIn
<1>6. prev' = [src |-> m.src, idx |-> m.idx, avail |-> m.avail] /\ crashes' = crashes /\ pc' = "release"
  BY DEF Add, Due
<1> HIDE DEF m, t
<1>7. /\ Len(win) \in Nat /\ DOMAIN win = 1..Len(win) /\ out \in Nat
      /\ Len(win') \in Nat /\ DOMAIN win' = 1..Len(win')
  BY <1>1 DEF IndInv, TypeOK
<1>8. BreaksKnown'
  <2> SUFFICES ASSUME crashes = 0 PROVE BreaksKnown'
    BY <1>6 DEF BreaksKnown
  <2>1. ASSUME NEW i \in DOMAIN win'
        PROVE  win'[i].src # NoSource /\ (win'[i].cueOut # 0 => win'[i].cueOut = win'[i].avail)
    <3>1. CASE i = Len(win')
      BY <1>1, <1>3, <1>4, <3>1
    <3>2. CASE i # Len(win')
      BY <1>1, <3>2 DEF BreaksKnown
    <3> QED BY <3>1, <3>2
  <2>2. prev'.avail = win'[Len(win')].avail
    BY <1>1, <1>6
  <2> QED BY <1>6, <2>1, <2>2 DEF BreaksKnown
<1> DEFINE a == Len(win)
           c == Len(win')
<1>9. a \in Nat /\ c \in Nat /\ out \in Nat /\ c = a + 1 - out
  BY <1>1, <1>7
<1>10. DOMAIN win = 1..a /\ DOMAIN win' = 1..c
  BY <1>7
<1>11. /\ win'[c] = m
       /\ \A i \in 1..c : i # c => out + i \in 1..a /\ win'[i] = win[out + i]
  BY <1>1, <1>10
<1>12. a # 0 /\ crashes = 0 => prev.avail = win[a].avail
  BY DEF BreaksKnown
<1> HIDE DEF a, c
<1>13. EndMarkerNotLost'
  <2> SUFFICES ASSUME NEW i \in 1..c, NEW j \in 1..c, crashes = 0, i < j, win'[i].cueOut # 0,
                      win'[j].avail # win'[i].cueOut
               PROVE  \E k \in (i + 1)..j : win'[k].cueIn = win'[i].cueOut
    BY <1>6, <1>10 DEF EndMarkerNotLost
  <2> DEFINE x == out + i
  <2>1. i \in Nat /\ j \in Nat /\ 1 <= i /\ j <= c /\ i # c /\ i < j
    BY <1>9
  <2>2. x \in 1..a /\ win'[i] = win[x] /\ win[x].cueOut # 0
    BY <1>11, <2>1
  <2>3. win[x].cueOut = win[x].avail
    BY <1>10, <2>2 DEF BreaksKnown
  <2>4. x \in Nat /\ x = out + i /\ x <= a /\ 1 <= a
    BY <1>9, <2>1, <2>2
  <2> HIDE DEF x
  \* the end marker stands at a segment that was there before
  <2>5. ASSUME NEW y \in 1..a, x < y, y - out <= j, y - out # c, win[y].avail # win[x].cueOut
        PROVE  \E k \in (i + 1)..j : win'[k].cueIn = win'[i].cueOut
    <3>1. win[y].src # NoSource
      BY <1>10 DEF BreaksKnown
    <3>2. PICK k \in (x + 1)..y : win[k].cueIn = win[x].cueOut
      BY <1>10, <2>2, <2>5, <3>1 DEF EndMarkerNotLost
    <3>3. k \in Nat /\ y \in Nat /\ x + 1 <= k /\ k <= y
      BY <1>9, <2>4, <2>5
    <3> DEFINE l == k - out
    <3>4a. y - out < c
      BY <1>9, <2>1, <2>5, <3>3
    <3>4b. l \in Int /\ out + l = k
      BY <1>9, <3>3
    <3> HIDE DEF l
    <3>4. l \in Nat /\ l >= i + 1 /\ l <= j /\ l # c /\ out + l = k
      BY <1>9, <2>1, <2>4, <2>5, <3>3, <3>4a, <3>4b
    <3>5. l \in (i + 1)..j /\ l \in 1..c
      BY <1>9, <2>1, <3>4
    <3>6. win'[l] = win[k]
      BY <1>11, <3>4, <3>5
    <3> QED BY <2>2, <3>2, <3>5, <3>6
  <2>6. CASE j # c
    <3> DEFINE y == out + j
    <3>1. y \in 1..a /\ win'[j] = win[y]
      BY <1>11, <2>6
    <3>2. x < y /\ y - out = j
      BY <1>9, <2>1, <2>4
    <3> HIDE DEF y
    <3>3. y - out <= j /\ y - out # c /\ win[y].avail # win[x].cueOut
      BY <2>1, <2>2, <2>6, <3>1, <3>2
    <3> QED BY <2>5, <3>1, <3>2, <3>3
  <2>7. CASE j = c
    <3>2. win'[j] = m /\ prev.avail = win[a].avail
      BY <1>9, <1>11, <1>12, <2>4, <2>7
    <3>3. CASE prev.avail = win[x].cueOut
      <4>1. m.cueIn = win[x].cueOut
        BY <1>5, <2>2, <3>2, <3>3
      <4>2. j \in (i + 1)..j
        BY <2>1
      <4> QED BY <2>2, <3>2, <4>1, <4>2
    <3>4. CASE prev.avail # win[x].cueOut
      <4>1. win[a].avail # win[x].cueOut /\ x # a
        BY <2>2, <2>3, <3>2, <3>4
      <4>2. a \in 1..a /\ x < a /\ a - out <= j /\ a - out # c
        BY <1>9, <2>4, <2>7, <4>1
      <4> QED BY <2>5, <4>1, <4>2
    <3> QED BY <3>3, <3>4
  <2> QED BY <2>6, <2>7
<1> QED BY <1>8, <1>13

LEMMA EndsStep ==
    ASSUME IndInv, BreaksKnown, EndMarkerNotLost, [Next]_vars
    PROVE  BreaksKnown' /\ EndMarkerNotLost'
<1>1. ASSUME UNCHANGED <<win, prev, crashes>>, pc' = "down" => pc = "down" /\ (playlist' = playlist \/ playlist'.items = <<>>)
      PROVE  BreaksKnown' /\ EndMarkerNotLost'
  BY <1>1 DEF BreaksKnown, EndMarkerNotLost
<1>2. ASSUME Crash PROVE BreaksKnown' /\ EndMarkerNotLost'
  <2>1. crashes' # 0
    BY <1>2 DEF Crash, IndInv, TypeOK
  <2> QED BY <2>1 DEF BreaksKnown, EndMarkerNotLost
<1>3. ASSUME NEW size \in WindowSizes, Prepare(size) PROVE BreaksKnown' /\ EndMarkerNotLost'
  <2>1. win' = RestoreWindow(playlist) /\ crashes' = crashes /\ pc = "down" /\ pc' = "idle"
    BY <1>3 DEF Prepare, envVars
  <2>2. CASE crashes = 0
    <3>1. playlist.items = <<>>
      BY <2>1, <2>2 DEF BreaksKnown
    <3>2. DOMAIN win' = {} /\ win' = <<>>
      BY <2>1, <3>1 DEF RestoreWindow
    <3> QED BY <2>1, <3>2 DEF BreaksKnown, EndMarkerNotLost
  <2>3. CASE crashes # 0
    BY <2>1, <2>3 DEF BreaksKnown, EndMarkerNotLost
  <2> QED BY <2>2, <2>3
<1>4. CASE UNCHANGED vars
  BY <1>1, <1>4 DEF vars, stVars, envVars, diskVars
<1>5. ASSUME NEW t, TickStart(t) PROVE BreaksKnown' /\ EndMarkerNotLost'
  BY <1>1, <1>5 DEF TickStart, stVars, envVars
<1>6. ASSUME NEW p, NEW r, Lost(p, r) PROVE BreaksKnown' /\ EndMarkerNotLost'
  BY <1>1, <1>6 DEF Lost, Due, stVars, envVars
<1>7. CASE Duplicate \/ EndRelease \/ WriteFails \/ Announce \/ WritePlaylist
  BY <1>1, <1>7 DEF Duplicate, Due, EndRelease, WriteFails, Announce, WritePlaylist, stVars, envVars
<1>8. CASE LosePlaylist
  BY <1>1, <1>8 DEF LosePlaylist, NoPlaylist, stVars, envVars
<1> QED
  BY <1>1, <1>2, <1>3, <1>4, <1>5, <1>6, <1>7, <1>8, AddEnds DEF Next, Tick, CrashBetween, CrashInAdd

\* Whatever follows a break, slate, another break or a film that starts late, its first segment is marked as the end of
\* the break, as long as the engine has not restarted (breakTags, stitch.go).
THEOREM BreaksEnd == Spec => []EndMarkerNotLost
<1>1. Init => IndInv /\ BreaksKnown /\ EndMarkerNotLost
  <2> SUFFICES ASSUME Init PROVE BreaksKnown /\ EndMarkerNotLost
    BY IndInit
  <2>1. win = <<>> /\ playlist.items = <<>>
    BY DEF Init, NoPlaylist
  <2> QED BY <2>1 DEF BreaksKnown, EndMarkerNotLost
<1>2. IndInv /\ BreaksKnown /\ EndMarkerNotLost /\ [Next]_vars
        => IndInv' /\ BreaksKnown' /\ EndMarkerNotLost'
  BY IndStep, EndsStep
<1> QED BY <1>1, <1>2, PTL DEF Spec

-----------------------------------------------------------------------------
(* One stream *)

\* what the playlist says of a segment
Item(m) ==
    [file |-> m.file, start |-> m.start, disc |-> m.disc, map |-> m.map, cueIn |-> m.cueIn, cueOut |-> m.cueOut]

\* segments or items in the order of time, every hole in time and every change of the init section marked
Marked(s) ==
    \A i \in 2..Len(s) :
        /\ s[i - 1].start < s[i].start
        /\ s[i].start # s[i - 1].start + 1 => s[i].disc
        /\ s[i].map # s[i - 1].map => s[i].disc

\* a segment whose source is known has the init section of that source
MapIsSource == \A i \in DOMAIN win : win[i].src # NoSource => win[i].map = win[i].src

\* how many segments of the stream lie between the first of the playlist and the first of the window
Gone == nextSeq - Len(win) - playlist.first

\* what playlist and window both have is the same, with the same discontinuity number; the rest of the window is later
Slides ==
    LET k == Gone
        n == Len(playlist.items)
    IN  (pc # "down" /\ n > 0) =>
            /\ k >= 0
            /\ \A i \in 1..Len(win) :
                 /\ i + k <= n => /\ Item(win[i]) = playlist.items[i + k]
                                  /\ discSeq + DiscsAmong(win, i)
                                       = playlist.discSeq + DiscsAmong(playlist.items, i + k)
                 /\ i + k > n => win[i].start > playlist.items[n].start
            /\ k >= n => discSeq >= playlist.discSeq + DiscsAmong(playlist.items, n)
            /\ appended /\ pc \in {"release", "write"} => nextSeq > playlist.first + n

StreamInv ==
    /\ playlist.items = <<>> => playlist = NoPlaylist
    /\ Marked(win) /\ Marked(playlist.items)
    /\ MapIsSource /\ PrevIsLast
    /\ Slides

\* An item says of a segment what the segment says.
LEMMA ItemFields ==
    ASSUME NEW m
    PROVE  /\ Item(m).file = m.file /\ Item(m).start = m.start /\ Item(m).disc = m.disc
           /\ Item(m).map = m.map /\ Item(m).cueIn = m.cueIn /\ Item(m).cueOut = m.cueOut
BY DEF Item

LEMMA DiscSame ==
    ASSUME NEW s, NEW t, NEW n \in Nat, \A j \in 1..n : s[j].disc <=> t[j].disc
    PROVE  DiscsAmong(s, n) = DiscsAmong(t, n)
<1>1. {i \in 1..n : s[i].disc} = {i \in 1..n : t[i].disc}
  OBVIOUS
<1> QED BY <1>1 DEF DiscsAmong

LEMMA DiscNext ==
    ASSUME NEW s, NEW n \in Nat
    PROVE  /\ s[n + 1].disc => DiscsAmong(s, n + 1) = DiscsAmong(s, n) + 1
           /\ ~s[n + 1].disc => DiscsAmong(s, n + 1) = DiscsAmong(s, n)
<1> DEFINE S(k) == {i \in 1..k : s[i].disc}
<1>1. IsFiniteSet(S(n))
  <2>1. IsFiniteSet(1..n)
    BY FS_Interval
  <2> QED BY <2>1, FS_Subset
<1>2. DiscsAmong(s, n) = Cardinality(S(n)) /\ DiscsAmong(s, n + 1) = Cardinality(S(n + 1))
  BY DEF DiscsAmong
<1>3. 1..(n + 1) = (1..n) \cup {n + 1} /\ n + 1 \notin 1..n
  OBVIOUS
<1>4. CASE s[n + 1].disc
  <2>1. S(n + 1) = S(n) \cup {n + 1} /\ n + 1 \notin S(n)
    BY <1>3, <1>4
  <2> HIDE DEF S
  <2> QED BY <1>1, <1>2, <1>4, <2>1, FS_AddElement
<1>5. CASE ~s[n + 1].disc
  <2>1. S(n + 1) = S(n)
    BY <1>3, <1>5
  <2> QED BY <1>2, <1>5, <2>1
<1> QED BY <1>4, <1>5

\* Counting on from position a is counting the sequence that begins there.
LEMMA DiscShift ==
    ASSUME NEW f, NEW g, NEW a \in Nat, NEW b \in Nat, \A j \in 1..b : g[j].disc <=> f[a + j].disc
    PROVE  DiscsAmong(f, a + b) = DiscsAmong(f, a) + DiscsAmong(g, b)
<1> DEFINE X == {n \in Nat : n <= b => DiscsAmong(f, a + n) = DiscsAmong(f, a) + DiscsAmong(g, n)}
<1>1. 0 \in X
  <2>1. DiscsAmong(g, 0) = 0
    <3>1. {i \in 1..0 : g[i].disc} = {}
      OBVIOUS
    <3> QED BY <3>1, FS_EmptySet DEF DiscsAmong
  <2> QED BY <2>1, DiscCount
<1>2. ASSUME NEW n \in Nat, n \in X PROVE n + 1 \in X
  <2> SUFFICES ASSUME n + 1 <= b
               PROVE  DiscsAmong(f, a + (n + 1)) = DiscsAmong(f, a) + DiscsAmong(g, n + 1)
    OBVIOUS
  <2>1. DiscsAmong(f, a + n) = DiscsAmong(f, a) + DiscsAmong(g, n)
    BY <1>2
  <2>2. a + (n + 1) = (a + n) + 1 /\ a + n \in Nat /\ n + 1 \in 1..b
    OBVIOUS
  <2>3. g[n + 1].disc <=> f[(a + n) + 1].disc
    BY <2>2
  <2>4. DiscsAmong(f, a) \in Nat /\ DiscsAmong(g, n) \in Nat
    BY DiscCount
  <2>5. CASE g[n + 1].disc
    <3>1. DiscsAmong(f, (a + n) + 1) = DiscsAmong(f, a + n) + 1
      BY <2>2, <2>3, <2>5, DiscNext
    <3>2. DiscsAmong(g, n + 1) = DiscsAmong(g, n) + 1
      BY <2>5, DiscNext
    <3> QED BY <2>1, <2>2, <2>4, <3>1, <3>2
  <2>6. CASE ~g[n + 1].disc
    <3>1. DiscsAmong(f, (a + n) + 1) = DiscsAmong(f, a + n)
      BY <2>2, <2>3, <2>6, DiscNext
    <3>2. DiscsAmong(g, n + 1) = DiscsAmong(g, n)
      BY <2>6, DiscNext
    <3> QED BY <2>1, <2>2, <2>4, <3>1, <3>2
  <2> QED BY <2>5, <2>6
<1>3. b \in X
  <2> HIDE DEF X
  <2> QED BY <1>1, <1>2, NumberInduction
<1> QED BY <1>3

LEMMA DiscGrows ==
    ASSUME NEW s, NEW a \in Nat, NEW b \in Nat, a <= b
    PROVE  DiscsAmong(s, a) <= DiscsAmong(s, b)
<1>1. IsFiniteSet({i \in 1..b : s[i].disc})
  <2>1. IsFiniteSet(1..b)
    BY FS_Interval
  <2> QED BY <2>1, FS_Subset
<1>2. {i \in 1..a : s[i].disc} \in SUBSET {i \in 1..b : s[i].disc}
  OBVIOUS
<1> QED BY <1>1, <1>2, FS_Subset DEF DiscsAmong

\* add keeps the order, marks holes and gives the segment its own init section.
LEMMA AddMarked ==
    ASSUME IndInv, Marked(win), MapIsSource, PrevIsLast, NEW p, NEW r, NEW b, Add(p, r, b)
    PROVE  Marked(win)' /\ MapIsSource'
<1> DEFINE t == NextSecond
           m == Segment(p, t, r, b)
<1>1. PICK out \in 0..Len(win) :
         /\ m \in SegmentType /\ t \in Nat /\ t > lastStart
         /\ win' \in Seq(SegmentType) /\ Len(win') = Len(win) + 1 - out
         /\ Len(win') \in DOMAIN win' /\ win'[Len(win')] = m
         /\ \A i \in DOMAIN win' : i # Len(win') =>
               /\ i \in 1..(Len(win) - out) /\ out + i \in DOMAIN win /\ win'[i] = win[out + i]
  BY AddWindow
<1>2. m.src = r.src /\ m.map = r.src /\ m.start = t
      /\ (m.disc <=> NeedsDisc(r, t, PlannedDisc(p, t, b)))
  BY DEF Segment
<1>3. win # <<>> /\ ~m.disc => prev.src # NoSource /\ m.map = prev.src /\ m.start = lastStart + 1
  BY <1>2 DEF NeedsDisc
<1> HIDE DEF m, t
<1> DEFINE a == Len(win)
           c == Len(win')
<1>4. a \in Nat /\ c \in Nat /\ out \in Nat /\ c = a + 1 - out
  BY <1>1 DEF IndInv, TypeOK
<1>5. DOMAIN win = 1..a /\ DOMAIN win' = 1..c
  BY <1>1 DEF IndInv, TypeOK
<1>6. /\ win'[c] = m
      /\ \A i \in 1..c : i # c => out + i \in 1..a /\ win'[i] = win[out + i]
  BY <1>1, <1>5
<1>7. /\ a # 0 => lastStart = win[a].start /\ prev.src = win[a].src
      /\ a # 0 => win # <<>>
  BY DEF IndInv, WindowLinked, PrevIsLast
<1>8. \A i \in 2..a : /\ win[i - 1].start < win[i].start
                      /\ win[i].start # win[i - 1].start + 1 => win[i].disc
                      /\ win[i].map # win[i - 1].map => win[i].disc
  BY DEF Marked
<1>9. /\ \A i \in 1..a : win[i].src # NoSource => win[i].map = win[i].src
      /\ m.map = m.src
  BY <1>2, <1>5 DEF MapIsSource
<1>10. \A i \in 1..a : win[i].start \in Nat
  <2>1. \A i \in 1..a : win[i] \in SegmentType
    BY DEF IndInv, TypeOK
  <2> QED BY <2>1 DEF SegmentType
<1> HIDE DEF a, c
<1>11. MapIsSource'
  <2> SUFFICES ASSUME NEW i \in 1..c, win'[i].src # NoSource PROVE win'[i].map = win'[i].src
    BY <1>5 DEF MapIsSource
  <2> QED BY <1>6, <1>9
<1>12. ASSUME NEW i \in 2..c
       PROVE  /\ win'[i - 1].start < win'[i].start
              /\ win'[i].start # win'[i - 1].start + 1 => win'[i].disc
              /\ win'[i].map # win'[i - 1].map => win'[i].disc
  <2> DEFINE x == out + (i - 1)
  <2>1. i \in Nat /\ 2 <= i /\ i <= c /\ i - 1 \in 1..c /\ i - 1 # c /\ i \in 1..c
    BY <1>4
  <2>2. x \in 1..a /\ win'[i - 1] = win[x]
    BY <1>6, <2>1
  <2>3. x \in Nat /\ x = out + i - 1
    BY <1>4, <2>1
  <2> HIDE DEF x
  <2>4. CASE i = c
    <3>1. x = a /\ a # 0
      BY <1>4, <2>2, <2>3, <2>4
    <3>2. win'[i] = m /\ win'[i - 1] = win[a] /\ lastStart = win[a].start /\ prev.src = win[a].src
      BY <1>6, <1>7, <2>2, <2>4, <3>1
    <3>3. win[a].start \in Nat /\ m.start \in Nat /\ m.start > lastStart
      BY <1>1, <1>2, <1>10, <2>2, <3>1
    <3>4. prev.src # NoSource => win[a].map = prev.src
      BY <1>9, <2>2, <3>1, <3>2
    <3> QED BY <1>3, <1>7, <3>1, <3>2, <3>3, <3>4
  <2>5. CASE i # c
    <3>1. x + 1 = out + i /\ x + 1 \in 2..a /\ (x + 1) - 1 = x
      BY <1>4, <2>1, <2>2, <2>3, <2>5
    <3>2. win'[i] = win[x + 1]
      BY <1>6, <2>1, <2>5, <3>1
    <3> QED BY <1>8, <2>2, <3>1, <3>2
  <2> QED BY <2>4, <2>5
<1> QED BY <1>11, <1>12 DEF Marked, c

\* The discontinuities that leave the window with the first out segments are added to its number.
LEMMA AddDiscs ==
    ASSUME IndInv, NEW p, NEW r, NEW b, Add(p, r, b), Segment(p, NextSecond, r, b) \in SegmentType,
           NEW out \in 0..Len(win), Len(win') = Len(win) + 1 - out
    PROVE  discSeq' = discSeq + DiscsAmong(win, out)
<1> DEFINE m == Segment(p, NextSecond, r, b)
           full == Append(win, m)
           o == Overflow(full)
<1>1. /\ win' = SubSeq(full, o + 1, Len(full))
      /\ discSeq' = discSeq + DiscsAmong(full, o)
      /\ pc = "release"
  BY DEF Add, Due
<1>2. maxSize \in Nat /\ maxSize >= 1
  <2>1. maxSize \in WindowSizes
    BY <1>1 DEF IndInv, TickSound
  <2>2. maxSize \in Nat /\ LiveLead \in Nat /\ LiveLead < maxSize
    BY <2>1, TimingAssumption
  <2> QED BY <2>2
<1> HIDE DEF m
<1>3. win \in Seq(SegmentType) /\ Len(win) \in Nat /\ m \in SegmentType
  BY DEF IndInv, TypeOK, m
<1>4. full \in Seq(SegmentType) /\ Len(full) = Len(win) + 1 /\ \A i \in 1..Len(win) : full[i] = win[i]
  BY <1>3
<1> HIDE DEF full
<1>5. o \in 0..Len(win)
  BY <1>2, <1>3, <1>4 DEF Overflow
<1> HIDE DEF o
<1>6. Len(win') = Len(win) + 1 - o
  <2>1. \A i \in (o + 1)..Len(full) : full[i] \in SegmentType
    BY <1>3, <1>4, <1>5
  <2>2. o + 1 \in Int /\ Len(full) \in Int /\ o + 1 <= Len(full)
    BY <1>3, <1>4, <1>5
  <2>3. Len(SubSeq(full, o + 1, Len(full))) = IF o + 1 <= Len(full) THEN Len(full) - (o + 1) + 1 ELSE 0
    BY <2>1, <2>2, SubSeqProperties
  <2> QED BY <1>1, <1>3, <1>4, <1>5, <2>2, <2>3
<1>7. o = out
  <2> DEFINE x == Len(win)
             y == Len(win')
  <2>1. x \in Nat /\ o \in Nat /\ out \in Nat /\ y = x + 1 - o /\ y = x + 1 - out
    BY <1>3, <1>5, <1>6
  <2> HIDE DEF x, y
  <2> QED BY <2>1
<1>8. DiscsAmong(full, out) = DiscsAmong(win, out)
  <2>1. ASSUME NEW j \in 1..out PROVE full[j] = win[j]
    <3>1. j \in 1..Len(win)
      BY <1>3
    <3> QED BY <1>4, <3>1
  <2>2. out \in Nat
    BY <1>3
  <2> QED BY <2>1, <2>2, DiscSame
<1> QED BY <1>1, <1>7, <1>8

\* add slides the window on along the playlist on disk.
LEMMA AddSlides ==
    ASSUME IndInv, Slides, NEW p, NEW r, NEW b, Add(p, r, b)
    PROVE  Slides'
<1> DEFINE t == NextSecond
           m == Segment(p, t, r, b)
<1>1. PICK out \in 0..Len(win) :
         /\ m \in SegmentType /\ t \in Nat /\ t > lastStart
         /\ win' \in Seq(SegmentType) /\ Len(win') = Len(win) + 1 - out
         /\ Len(win') \in DOMAIN win' /\ win'[Len(win')] = m
         /\ \A i \in DOMAIN win' : i # Len(win') =>
               /\ i \in 1..(Len(win) - out) /\ out + i \in DOMAIN win /\ win'[i] = win[out + i]
  BY AddWindow
<1>2. discSeq' = discSeq + DiscsAmong(win, out)
  BY <1>1, AddDiscs
<1>3. /\ m.start = t /\ (win # <<>> => m.seq = nextSeq)
      /\ nextSeq' = m.seq + 1 /\ playlist' = playlist /\ pc = "release"
  <2>1. m.start = t
    BY DEF Segment
  <2>2. win # <<>> => m.seq = nextSeq
    BY <1>1, AddNumber
  <2> QED BY <2>1, <2>2 DEF Add, Due
<1> DEFINE items == playlist.items
           a == Len(win)
           c == Len(win')
           n == Len(items)
           f == playlist.first
           s == nextSeq
           k == s - a - f
           old == playlist.discSeq + DiscsAmong(items, n)
<1>4. SUFFICES ASSUME n > 0
               PROVE  /\ nextSeq' - c - f >= 0
                      /\ \A i \in 1..c :
                           /\ i + (nextSeq' - c - f) <= n =>
                                 /\ Item(win'[i]) = items[i + (nextSeq' - c - f)]
                                 /\ discSeq' + DiscsAmong(win', i)
                                      = playlist.discSeq + DiscsAmong(items, i + (nextSeq' - c - f))
                           /\ i + (nextSeq' - c - f) > n => win'[i].start > items[n].start
                      /\ (nextSeq' - c - f) >= n => discSeq' >= old
                      /\ nextSeq' > f + n
  BY <1>3 DEF Slides, Gone, Item
<1>5. /\ k >= 0
      /\ \A i \in 1..a :
           /\ i + k <= n => /\ Item(win[i]) = items[i + k]
                            /\ discSeq + DiscsAmong(win, i) = playlist.discSeq + DiscsAmong(items, i + k)
           /\ i + k > n => win[i].start > items[n].start
      /\ k >= n => discSeq >= old
  BY <1>3, <1>4 DEF Slides, Gone
<1>6. items # <<>> /\ items \in Seq(ItemType)
  BY <1>4 DEF IndInv, TypeOK
<1>7. win # <<>> /\ f + n <= nextSeq
  BY <1>3, <1>6 DEF IndInv, PlaylistBehind
<1>8. nextSeq' = nextSeq + 1 /\ m.start = t /\ t > lastStart
  BY <1>1, <1>3, <1>7
<1>9. /\ a \in Nat /\ c \in Nat /\ n \in Nat /\ f \in Nat /\ out \in Nat /\ out <= a /\ c = a + 1 - out
      /\ s \in Nat /\ discSeq \in Nat /\ a # 0 /\ lastStart \in Nat /\ t \in Nat
  <2>1. /\ win \in Seq(SegmentType) /\ f \in Nat /\ s \in Nat /\ discSeq \in Nat /\ lastStart \in Nat
    BY DEF IndInv, TypeOK
  <2>2. a \in Nat /\ c \in Nat /\ a # 0 /\ n \in Nat
    BY <1>1, <1>6, <1>7, <2>1
  <2>3. c = a + 1 - out /\ out \in 0..a /\ t \in Nat
    BY <1>1
  <2> HIDE DEF a, c, n, f, s, t
  <2> QED BY <2>1, <2>2, <2>3
<1>10. DOMAIN win = 1..a /\ DOMAIN win' = 1..c
  BY <1>1 DEF IndInv, TypeOK
<1>11. /\ win'[c] = m
       /\ \A i \in 1..c : i # c => out + i \in 1..a /\ win'[i] = win[out + i]
  BY <1>1, <1>10
<1>12. lastStart = win[a].start
  BY <1>7 DEF IndInv, WindowLinked
<1>13. items[n].start \in Nat
  <2>1. items[n] \in ItemType
    BY <1>4, <1>6, <1>9
  <2> QED BY <2>1 DEF ItemType
<1>14. old \in Nat
  BY <1>9, DiscCount DEF IndInv, TypeOK
<1>15. k \in Int /\ s + 1 - c - f = k + out /\ a + k = s - f
  <2>1. \A u, v, w, x, y \in Nat : v = w + 1 - y =>
          u - w - x \in Int /\ u + 1 - v - x = (u - w - x) + y /\ w + (u - w - x) = u - x
    OBVIOUS
  <2> HIDE DEF a, c, n, f, s
  <2> QED BY <1>9, <2>1
<1>15a. nextSeq' - c - f = k + out /\ f + n <= s /\ nextSeq' > f + n
  <2>1. nextSeq' = s + 1 /\ f + n <= s
    BY <1>7, <1>8
  <2> HIDE DEF a, c, n, f, s, k
  <2> QED BY <1>9, <1>15, <2>1
<1> HIDE DEF m, t, a, c, n, f, k, s, old, items
<1>16. a + k >= n
  BY <1>9, <1>15, <1>15a
<1>17. \A i \in 1..c : i + (k + out) > n => win'[i].start > items[n].start
  <2> TAKE i \in 1..c
  <2> HAVE i + (k + out) > n
  <2>1. CASE i = c
    <3>1. lastStart >= items[n].start
      <4>1. a \in 1..a
        BY <1>9
      <4>2. CASE a + k <= n
        <5>1. a + k = n
          BY <1>9, <1>15, <1>16, <4>2
        <5>2. Item(win[a]) = items[n]
          BY <1>5, <4>1, <4>2, <5>1
        <5>3. win[a].start = items[n].start
          BY <5>2 DEF Item
        <5> QED BY <1>12, <1>13, <5>3
      <4>3. CASE a + k > n
        <5>1. win[a].start > items[n].start
          BY <1>5, <4>1, <4>3
        <5> QED BY <1>9, <1>12, <1>13, <5>1
      <4> QED BY <1>9, <1>15, <4>2, <4>3
    <3> QED BY <1>8, <1>9, <1>11, <1>13, <2>1, <3>1
  <2>2. CASE i # c
    <3>1. out + i \in 1..a /\ win'[i] = win[out + i]
      BY <1>11, <2>2
    <3>2. i \in Int /\ (out + i) + k = i + (k + out)
      BY <1>9, <1>15
    <3> QED BY <1>5, <3>1, <3>2
  <2> QED BY <2>1, <2>2
<1>18. ASSUME NEW i \in 1..c, i + (k + out) <= n
       PROVE  /\ Item(win'[i]) = items[i + (k + out)]
              /\ discSeq' + DiscsAmong(win', i) = playlist.discSeq + DiscsAmong(items, i + (k + out))
  <2>1. i # c
    BY <1>9, <1>15, <1>16, <1>18
  <2> DEFINE x == out + i
  <2>2. x \in 1..a /\ win'[i] = win[x] /\ x + k = i + (k + out) /\ i \in Nat
    BY <1>9, <1>11, <1>15, <2>1
  <2>3. Item(win[x]) = items[x + k] /\ discSeq + DiscsAmong(win, x) = playlist.discSeq + DiscsAmong(items, x + k)
    BY <1>5, <1>18, <2>2
  <2>4. DiscsAmong(win, x) = DiscsAmong(win, out) + DiscsAmong(win', i)
    <3>1. \A j \in 1..i : win'[j].disc <=> win[out + j].disc
      <4> TAKE j \in 1..i
      <4>1. i < c /\ j \in Nat /\ 1 <= j /\ j <= i
        BY <1>9, <2>1, <2>2
      <4>2. j \in 1..c /\ j # c
        BY <1>9, <2>2, <4>1
      <4> QED BY <1>11, <4>2
    <3> QED BY <1>9, <2>2, <3>1, DiscShift
  <2>5. DiscsAmong(win, out) \in Nat /\ DiscsAmong(win', i) \in Nat
    BY <1>9, <2>2, DiscCount
  <2> HIDE DEF x
  <2> QED BY <1>2, <1>9, <2>2, <2>3, <2>4, <2>5
<1>19. k + out >= n => discSeq' >= old
  <2> HAVE k + out >= n
  <2>1. DiscsAmong(win, out) \in Nat
    BY <1>9, DiscCount
  <2>2. CASE k >= n
    BY <1>2, <1>5, <1>9, <1>14, <2>1, <2>2
  <2>3. CASE k < n
    <3> DEFINE x == n - k
    <3>1. x \in 1..a /\ x \in Nat /\ x <= out /\ x + k = n
      BY <1>5, <1>9, <1>15, <1>16, <2>3
    <3> HIDE DEF x
    <3>2. discSeq + DiscsAmong(win, x) = playlist.discSeq + DiscsAmong(items, n)
      BY <1>5, <1>9, <3>1
    <3>3. DiscsAmong(win, x) <= DiscsAmong(win, out) /\ DiscsAmong(win, x) \in Nat
      BY <1>9, <3>1, DiscGrows, DiscCount
    <3>4. old = discSeq + DiscsAmong(win, x)
      BY <3>2 DEF old
    <3> QED BY <1>2, <1>9, <2>1, <3>3, <3>4
  <2> QED BY <1>9, <1>15, <2>2, <2>3
<1>20. k + out >= 0
  BY <1>5, <1>9, <1>15
<1> DEFINE x == nextSeq' - c - f
<1>21. x = k + out
  BY <1>15a
<1> HIDE DEF x
<1>22. /\ x >= 0
       /\ \A i \in 1..c :
            /\ i + x <= n =>
                  /\ Item(win'[i]) = items[i + x]
                  /\ discSeq' + DiscsAmong(win', i) = playlist.discSeq + DiscsAmong(items, i + x)
            /\ i + x > n => win'[i].start > items[n].start
       /\ x >= n => discSeq' >= old
  BY <1>17, <1>18, <1>19, <1>20, <1>21
<1> QED BY <1>15a, <1>22 DEF x

\* A restored window is the playlist.
LEMMA PrepareStream ==
    ASSUME IndInv, Marked(playlist.items), NEW size \in WindowSizes, Prepare(size)
    PROVE  Marked(win)' /\ MapIsSource' /\ Slides'
<1> DEFINE items == playlist.items
           n == Len(items)
<1>1. /\ win' = RestoreWindow(playlist) /\ playlist' = playlist /\ discSeq' = playlist.discSeq
      /\ nextSeq' = playlist.first + n /\ pc' = "idle"
  BY DEF Prepare
<1>2. Len(win') = n /\ DOMAIN win' = 1..n
  BY <1>1, RestoreTyped DEF IndInv
<1>3. n \in Nat /\ DOMAIN items = 1..n /\ playlist.first \in Nat /\ playlist.discSeq \in Nat
      /\ \A i \in 1..n : items[i] \in ItemType
  BY DEF IndInv, TypeOK
<1>4. \A i \in 1..n :
        /\ win'[i].file = items[i].file /\ win'[i].start = items[i].start /\ win'[i].disc = items[i].disc
        /\ win'[i].map = items[i].map /\ win'[i].cueIn = items[i].cueIn /\ win'[i].cueOut = items[i].cueOut
        /\ win'[i].src = NoSource
  BY <1>1, <1>3 DEF RestoreWindow
<1>5. MapIsSource'
  BY <1>2, <1>4 DEF MapIsSource
<1> HIDE DEF n, items
<1>6. Marked(win)'
  <2> SUFFICES ASSUME NEW i \in 2..n
               PROVE  /\ win'[i - 1].start < win'[i].start
                      /\ win'[i].start # win'[i - 1].start + 1 => win'[i].disc
                      /\ win'[i].map # win'[i - 1].map => win'[i].disc
    BY <1>2 DEF Marked
  <2>1. i \in 1..n /\ i - 1 \in 1..n
    BY <1>3
  <2>2. /\ items[i - 1].start < items[i].start
        /\ items[i].start # items[i - 1].start + 1 => items[i].disc
        /\ items[i].map # items[i - 1].map => items[i].disc
    BY DEF Marked, n, items
  <2> QED BY <1>4, <2>1, <2>2
<1>7. Slides'
  <2> DEFINE k == nextSeq' - Len(win') - playlist.first
  <2>1. k = 0
    BY <1>1, <1>2, <1>3
  <2>2. \A i \in 1..n : Item(win'[i]) = items[i]
    <3> TAKE i \in 1..n
    <3>1. items[i] = [file |-> items[i].file, start |-> items[i].start, disc |-> items[i].disc,
                      map |-> items[i].map, cueIn |-> items[i].cueIn, cueOut |-> items[i].cueOut]
      BY <1>3 DEF ItemType
    <3> QED BY <1>4, <3>1 DEF Item
  <2>3. \A i \in 1..n : DiscsAmong(win', i) = DiscsAmong(items, i)
    <3> TAKE i \in 1..n
    <3>1. i \in Nat /\ \A j \in 1..i : j \in 1..n
      BY <1>3
    <3>2. \A j \in 1..i : win'[j].disc <=> items[j].disc
      BY <1>4, <3>1
    <3> QED BY <3>1, <3>2, DiscSame
  <2> HIDE DEF k
  <2>4. /\ k >= 0
        /\ \A i \in 1..n :
             /\ i + k <= n => /\ Item(win'[i]) = items[i + k]
                              /\ discSeq' + DiscsAmong(win', i) = playlist.discSeq + DiscsAmong(items, i + k)
             /\ ~(i + k > n)
        /\ n > 0 => ~(k >= n)
    <3>1. \A i \in 1..n : i + k = i /\ ~(i > n)
      BY <1>3, <2>1
    <3> QED BY <1>1, <1>3, <2>1, <2>2, <2>3, <3>1
  <2> QED BY <1>1, <1>2, <2>4 DEF Slides, Gone, Item, k, items, n
<1> QED BY <1>5, <1>6, <1>7

\* What is written is the window.
LEMMA WriteFacts ==
    ASSUME IndInv, WritePlaylist
    PROVE  /\ pc = "write" /\ pc' = "announce" /\ appended /\ UNCHANGED <<win, discSeq, nextSeq, prev, appended>>
           /\ Len(win) \in Nat /\ Len(win) # 0 /\ nextSeq \in Nat /\ discSeq \in Nat /\ DOMAIN win = 1..Len(win)
           /\ playlist'.first = nextSeq - Len(win) /\ playlist'.discSeq = discSeq
           /\ Len(playlist'.items) = Len(win) /\ DOMAIN playlist'.items = 1..Len(win)
           /\ \A i \in 1..Len(win) : playlist'.items[i] = Item(win[i])
           /\ \A i \in 1..Len(win) : win[i].file = (nextSeq - Len(win)) + i - 1
<1>1. /\ pc = "write" /\ pc' = "announce" /\ playlist' = RenderMediaPlaylist(win, discSeq)
      /\ UNCHANGED <<win, discSeq, nextSeq, prev, appended>>
  BY DEF WritePlaylist, stVars, tickVars
<1>2. appended /\ win # <<>> /\ win \in Seq(SegmentType) /\ nextSeq \in Nat /\ discSeq \in Nat
  BY <1>1 DEF IndInv, TypeOK, TickSound
<1>3. DOMAIN win = 1..Len(win) /\ Len(win) \in Nat /\ Len(win) # 0 /\ 1 \in DOMAIN win
  BY <1>2
<1>4. Len(playlist'.items) = Len(win) /\ DOMAIN playlist'.items = 1..Len(win)
  BY <1>1, <1>2, RenderTyped DEF IndInv
<1>5. /\ playlist'.first = win[1].seq /\ playlist'.discSeq = discSeq
      /\ \A i \in 1..Len(win) : playlist'.items[i] = Item(win[i])
  BY <1>1, <1>3 DEF RenderMediaPlaylist, Item
<1>6. \A i \in 1..Len(win) : win[i].file = win[i].seq /\ win[i].seq = nextSeq - 1 - Len(win) + i
  BY <1>3 DEF IndInv, WindowLinked
<1> DEFINE c == Len(win)
<1>7. c \in Nat /\ \A i \in 1..c : win[i].file = win[i].seq /\ win[i].seq = nextSeq - 1 - c + i
  BY <1>3, <1>6
<1>8. 1 \in 1..c
  BY <1>3
<1> HIDE DEF c
<1>9. win[1].seq = nextSeq - c /\ \A i \in 1..c : win[i].file = (nextSeq - c) + i - 1
  <2>1. \A x, y \in Nat : x - 1 - y + 1 = x - y /\ \A i \in 1..y : x - 1 - y + i = (x - y) + i - 1
    OBVIOUS
  <2>2. nextSeq - 1 - c + 1 = nextSeq - c /\ \A i \in 1..c : nextSeq - 1 - c + i = (nextSeq - c) + i - 1
    BY <1>2, <1>7, <2>1
  <2> QED BY <1>7, <1>8, <2>2
<1> QED BY <1>1, <1>2, <1>3, <1>4, <1>5, <1>9 DEF c

\* A written playlist is the window.
LEMMA WriteStream ==
    ASSUME IndInv, Marked(win), WritePlaylist
    PROVE  playlist'.items # <<>> /\ Marked(playlist.items)' /\ Slides'
<1> DEFINE c == Len(win)
           items == playlist'.items
<1>1. /\ pc' = "announce" /\ UNCHANGED <<win, discSeq, nextSeq>>
      /\ c \in Nat /\ c # 0 /\ nextSeq \in Nat /\ discSeq \in Nat
      /\ playlist'.first = nextSeq - c /\ playlist'.discSeq = discSeq
      /\ Len(items) = c /\ \A i \in 1..c : items[i] = Item(win[i])
  BY WriteFacts
<1>2. \A i \in 1..c : items[i].disc = win[i].disc /\ items[i].start = win[i].start /\ items[i].map = win[i].map
  BY <1>1, ItemFields
<1>3. items # <<>>
  BY <1>1
<1> HIDE DEF c, items
<1>4. Marked(playlist.items)'
  <2> SUFFICES ASSUME NEW i \in 2..c
               PROVE  /\ items[i - 1].start < items[i].start
                      /\ items[i].start # items[i - 1].start + 1 => items[i].disc
                      /\ items[i].map # items[i - 1].map => items[i].disc
    BY <1>1 DEF Marked, items
  <2>1. i \in 1..c /\ i - 1 \in 1..c
    BY <1>1
  <2>2. /\ win[i - 1].start < win[i].start
        /\ win[i].start # win[i - 1].start + 1 => win[i].disc
        /\ win[i].map # win[i - 1].map => win[i].disc
    BY DEF Marked, c
  <2> QED BY <1>2, <2>1, <2>2
<1>5. Slides'
  <2> DEFINE k == nextSeq - c - playlist'.first
  <2>1. k = 0
    BY <1>1
  <2>2. \A i \in 1..c : DiscsAmong(win, i) = DiscsAmong(items, i)
    <3> TAKE i \in 1..c
    <3>1. i \in Nat /\ \A j \in 1..i : j \in 1..c
      BY <1>1
    <3>2. \A j \in 1..i : win[j].disc <=> items[j].disc
      BY <1>2, <3>1
    <3> QED BY <3>1, <3>2, DiscSame
  <2> HIDE DEF k
  <2>3. /\ k >= 0
        /\ \A i \in 1..c :
             /\ i + k <= c => /\ Item(win[i]) = items[i + k]
                              /\ discSeq + DiscsAmong(win, i) = playlist'.discSeq + DiscsAmong(items, i + k)
             /\ ~(i + k > c)
        /\ ~(k >= c)
    <3>1. \A i \in 1..c : i + k = i /\ ~(i > c)
      BY <1>1, <2>1
    <3> QED BY <1>1, <2>1, <2>2, <3>1
  <2> QED BY <1>1, <2>3 DEF Slides, Gone, Item, k, c, items
<1> QED BY <1>3, <1>4, <1>5 DEF items

\* Every step keeps the window and the playlist on disk parts of one stream.
LEMMA StreamStep ==
    ASSUME IndInv, StreamInv, DiscontinuityMarked, [Next]_vars
    PROVE  StreamInv'
<1>1. PrevIsLast'
  BY MarksStep DEF StreamInv
<1>2. ASSUME UNCHANGED <<win, discSeq, nextSeq, playlist>>,
             pc' # "down" => pc # "down",
             appended' /\ pc' \in {"release", "write"} => appended /\ pc \in {"release", "write"}
      PROVE  StreamInv'
  <2>1. Marked(win)' /\ Marked(playlist.items)' /\ MapIsSource'
    BY <1>2 DEF StreamInv, Marked, MapIsSource
  <2>2. Slides'
    BY <1>2 DEF StreamInv, Slides, Gone
  <2> QED BY <1>1, <1>2, <2>1, <2>2 DEF StreamInv, NoPlaylist
<1>3. ASSUME Crash PROVE StreamInv'
  <2>1. win' = <<>> /\ playlist' = playlist /\ pc' = "down"
    BY <1>3 DEF Crash
  <2>2. 2..Len(win') = {} /\ DOMAIN win' = {}
    BY <2>1
  <2>3. Marked(win)' /\ MapIsSource'
    BY <2>2 DEF Marked, MapIsSource
  <2>4. Marked(playlist.items)' /\ Slides' /\ (playlist'.items = <<>> => playlist' = NoPlaylist)
    BY <2>1 DEF StreamInv, Marked, Slides
  <2> QED BY <1>1, <2>3, <2>4 DEF StreamInv, NoPlaylist
<1>4. CASE LosePlaylist
  <2>1. UNCHANGED win /\ playlist' = NoPlaylist /\ pc' = "down"
    BY <1>4 DEF LosePlaylist, stVars
  <2>2. 2..Len(playlist'.items) = {}
    BY <2>1 DEF NoPlaylist
  <2>3. Marked(playlist.items)'
    BY <2>2 DEF Marked
  <2>4. Marked(win)' /\ MapIsSource' /\ Slides'
    BY <2>1 DEF StreamInv, Marked, MapIsSource, Slides
  <2> QED BY <1>1, <2>1, <2>3, <2>4 DEF StreamInv, NoPlaylist
<1>5. ASSUME NEW size \in WindowSizes, Prepare(size) PROVE StreamInv'
  <2>1. playlist' = playlist
    BY <1>5 DEF Prepare
  <2>2. Marked(win)' /\ MapIsSource' /\ Slides'
    BY <1>5, PrepareStream DEF StreamInv
  <2> QED BY <1>1, <2>1, <2>2 DEF StreamInv, NoPlaylist, Marked
<1>6. ASSUME NEW p, NEW r, NEW b, Add(p, r, b) PROVE StreamInv'
  <2>1. playlist' = playlist
    BY <1>6 DEF Add
  <2>2. Marked(win)' /\ MapIsSource'
    BY <1>6, AddMarked DEF StreamInv
  <2>3. Slides'
    BY <1>6, AddSlides DEF StreamInv
  <2> QED BY <1>1, <2>1, <2>2, <2>3 DEF StreamInv, NoPlaylist, Marked
<1>7. CASE WritePlaylist
  <2>1. playlist'.items # <<>> /\ Marked(playlist.items)' /\ Slides'
    BY <1>7, WriteStream DEF StreamInv
  <2>2. UNCHANGED win
    BY <1>7 DEF WritePlaylist, stVars
  <2> QED BY <1>1, <2>1, <2>2 DEF StreamInv, Marked, MapIsSource
<1>8. CASE UNCHANGED vars
  BY <1>2, <1>8 DEF vars, tickVars, stVars, diskVars
<1>9. ASSUME NEW t, TickStart(t) PROVE StreamInv'
  BY <1>2, <1>9 DEF TickStart, stVars, diskVars
<1>10. ASSUME NEW p, NEW r, Lost(p, r) PROVE StreamInv'
  BY <1>2, <1>10 DEF Lost, Due, stVars
<1>11. CASE Duplicate
  BY <1>2, <1>11 DEF Duplicate, Due, stVars, diskVars
<1>12. CASE EndRelease
  BY <1>2, <1>12 DEF EndRelease, tickVars, stVars, diskVars
<1>13. CASE WriteFails \/ Announce
  BY <1>2, <1>13 DEF WriteFails, Announce, tickVars, stVars, diskVars
<1> QED
  BY <1>3, <1>4, <1>5, <1>6, <1>7, <1>8, <1>9, <1>10, <1>11, <1>12, <1>13
  DEF Next, Tick, CrashBetween, CrashInAdd

\* Every write of the playlist starts the stream or continues it.
LEMMA WriteContinues ==
    ASSUME IndInv, StreamInv, WritePlaylist
    PROVE  Live!Start \/ Live!Publish
<1> DEFINE c == Len(win)
           items == playlist'.items
           old == playlist.items
           n == Len(old)
           f == playlist.first
           k == nextSeq - c - f
<1>1. /\ pc = "write" /\ appended
      /\ c \in Nat /\ c # 0 /\ nextSeq \in Nat /\ discSeq \in Nat /\ DOMAIN items = 1..c
      /\ playlist'.first = nextSeq - c /\ playlist'.discSeq = discSeq
      /\ Len(items) = c /\ \A i \in 1..c : items[i] = Item(win[i]) /\ win[i].file = (nextSeq - c) + i - 1
  BY WriteFacts
<1>2. playlist'.items # <<>> /\ Marked(playlist.items)'
  BY WriteStream DEF StreamInv
<1>3. Live!WellFormed(playlist')
  <2>1. \A i \in DOMAIN items : items[i].file = playlist'.first + i - 1
    BY <1>1, ItemFields
  <2> QED BY <1>2, <2>1 DEF Live!WellFormed, Marked
<1>4. CASE old = <<>>
  <2>1. playlist = Live!None
    BY <1>4 DEF StreamInv, NoPlaylist, Live!None
  <2> QED BY <1>3, <2>1 DEF Live!Start
<1>5. CASE old # <<>>
  <2>1. playlist # Live!None
    BY <1>5 DEF Live!None
  <2>2. f \in Nat /\ n \in Nat /\ n > 0
    BY <1>5 DEF IndInv, TypeOK
  <2>3. /\ k >= 0
        /\ \A i \in 1..c :
             /\ i + k <= n => /\ Item(win[i]) = old[i + k]
                              /\ discSeq + DiscsAmong(win, i) = playlist.discSeq + DiscsAmong(old, i + k)
             /\ i + k > n => win[i].start > old[n].start
        /\ k >= n => discSeq >= playlist.discSeq + DiscsAmong(old, n)
        /\ nextSeq > f + n
    BY <1>1, <2>2 DEF StreamInv, Slides, Gone
  <2>4. \A i \in 1..c : DiscsAmong(items, i) = DiscsAmong(win, i)
    <3> TAKE i \in 1..c
    <3>1. i \in Nat /\ \A j \in 1..i : j \in 1..c
      BY <1>1
    <3>2. \A j \in 1..i : items[j].disc <=> win[j].disc
      BY <1>1, <3>1, ItemFields
    <3> QED BY <3>1, <3>2, DiscSame
  <2>5. playlist'.first - playlist.first = k
    BY <1>1
  <2>6. \A s, i : Live!DiscNumber(s, i) = s.discSeq + DiscsAmong(s.items, i)
    BY DEF Live!DiscNumber, DiscsAmong, Live!Cardinality, Cardinality
  <2>7. Live!End(playlist') = nextSeq /\ Live!End(playlist) = f + n
    <3>1. Live!End(playlist') = (nextSeq - c) + c
      BY <1>1 DEF Live!End
    <3> HIDE DEF c
    <3>2. (nextSeq - c) + c = nextSeq
      BY <1>1
    <3> QED BY <3>1, <3>2 DEF Live!End
  <2>8. \A i \in 1..c : items[i].start = win[i].start /\ items[i] = Item(win[i])
    BY <1>1, ItemFields
  <2> HIDE DEF c, k, n, f
  <2>9. ASSUME NEW i \in 1..c
        PROVE  /\ i + k <= n => /\ items[i] = old[i + k]
                                /\ Live!DiscNumber(playlist', i) = Live!DiscNumber(playlist, i + k)
               /\ i + k > n => items[i].start > old[n].start
    BY <1>1, <2>3, <2>4, <2>6, <2>8
  <2>10. k >= n => playlist'.discSeq >= Live!DiscNumber(playlist, n)
    BY <1>1, <2>3, <2>6
  <2>11. Live!End(playlist') > Live!End(playlist)
    BY <2>3, <2>7
  <2>12. Live!Continues(playlist, playlist')
    BY <1>1, <2>3, <2>5, <2>9, <2>10, <2>11 DEF Live!Continues, n
  <2> QED BY <1>3, <2>1, <2>12 DEF Live!Publish
<1> QED BY <1>4, <1>5

\* Every step of the engine is a step of the stream or leaves the playlist alone.
LEMMA LiveStep ==
    ASSUME IndInv, StreamInv, [Next]_vars
    PROVE  [Live!Next]_playlist
<1>1. WritePlaylist => Live!Next
  BY WriteContinues DEF Live!Next
<1>2. LosePlaylist => Live!Next
  BY DEF LosePlaylist, NoPlaylist, Live!Next, Live!Lose, Live!None
<1>3. UNCHANGED vars => UNCHANGED playlist
  BY DEF vars, diskVars
<1>4. \A size \in WindowSizes : Prepare(size) => UNCHANGED playlist
  BY DEF Prepare
<1>5. \A t : TickStart(t) => UNCHANGED playlist
  BY DEF TickStart, diskVars
<1>6. \A p, r : Lost(p, r) => UNCHANGED playlist
  BY DEF Lost
<1>7. \A p, r, b : Add(p, r, b) => UNCHANGED playlist
  BY DEF Add
<1>8. Duplicate \/ EndRelease \/ WriteFails \/ Announce \/ Crash => UNCHANGED playlist
  BY DEF Duplicate, EndRelease, WriteFails, Announce, Crash, diskVars
<1> QED
  BY <1>1, <1>2, <1>3, <1>4, <1>5, <1>6, <1>7, <1>8 DEF Next, Tick, CrashBetween, CrashInAdd

\* The engine implements the stream: whatever the schedule, the sources, failed writes, the clock and restarts do,
\* the playlist on disk slides over one stream and what was published never changes (renderMediaPlaylist, restoreWindow
\* and Window.append; README.md:188).
THEOREM OneStream == Spec => LiveStreamSpec
<1>1. Init => IndInv /\ DiscontinuityMarked /\ StreamInv /\ Live!Init
  <2> SUFFICES ASSUME Init PROVE DiscontinuityMarked /\ StreamInv /\ Live!Init
    BY IndInit
  <2>1. win = <<>> /\ playlist = NoPlaylist /\ pc = "down" /\ 2..Len(win) = {} /\ DOMAIN win = {}
    BY DEF Init
  <2>2. playlist.items = <<>> /\ 2..Len(playlist.items) = {}
    BY <2>1 DEF NoPlaylist
  <2>3. Live!Init
    BY <2>1 DEF Live!Init, Live!None, NoPlaylist
  <2> QED BY <2>1, <2>2, <2>3 DEF DiscontinuityMarked, StreamInv, Marked, MapIsSource, PrevIsLast, Slides
<1>2. IndInv /\ DiscontinuityMarked /\ StreamInv /\ [Next]_vars
        => IndInv' /\ DiscontinuityMarked' /\ StreamInv' /\ [Live!Next]_playlist
  <2> SUFFICES ASSUME IndInv, DiscontinuityMarked, StreamInv, [Next]_vars
               PROVE  IndInv' /\ DiscontinuityMarked' /\ StreamInv' /\ [Live!Next]_playlist
    OBVIOUS
  <2>1. IndInv'
    BY IndStep
  <2>2. DiscontinuityMarked'
    BY MarksStep DEF StreamInv
  <2> QED BY <2>1, <2>2, StreamStep, LiveStep
<1> QED BY <1>1, <1>2, PTL DEF Spec, LiveStreamSpec, Live!Spec

-----------------------------------------------------------------------------
(* A player and the files it read about *)

\* the window still has what the player read about, or dropped it after the player read it
Held(it, items, queue, since) ==
    \/ \E j \in DOMAIN items : items[j].file = it.file /\ items[j].map = it.map
    \/ \E q \in DOMAIN queue : it.file \in queue[q].files /\ it.map \in queue[q].maps /\ since <= queue[q].at

\* the player's items can be fetched and will not be deleted or overwritten yet
PlayerHolds ==
    \A i \in DOMAIN player.items :
        /\ Served(player.items[i])
        /\ player.items[i].file < nextSeq
        /\ Held(player.items[i], win, retired, player.at)

PlayerInv ==
    /\ player.items \in Seq(ItemType)
    /\ player.at \in Nat /\ player.at <= slot
    /\ crashes = 0 /\ pc = "down" => player.items = <<>>
    /\ crashes = 0 /\ failures = 0 /\ slot - player.at < Retain - LiveLead => PlayerHolds

\* What is held is in use, so deleteRetired does not delete it.
LEMMA HeldIsInUse ==
    ASSUME NEW it, NEW items, NEW queue, NEW since, Held(it, items, queue, since)
    PROVE  it.file \in FilesInUse(items, queue) /\ it.map \in MapsInUse(items, queue)
  BY DEF Held, FilesInUse, MapsInUse

\* A segment that add drops is retired at the second of the new segment, and no retirement of the last
\* Retain - LiveLead seconds is deleted.
LEMMA AddHolds ==
    ASSUME IndInv, NEW t, NEW m, NEW out \in 0..Len(win), NEW queue \in Seq(RetiredType), NEW n \in Nat,
           AddEffect(t, m, out, queue, n),
           NEW at \in Nat, at <= slot, slot - at < Retain - LiveLead,
           NEW it, Held(it, win, retired, at)
    PROVE  Held(it, win', retired', at)
<1>1. /\ Len(win) \in Nat /\ DOMAIN win = 1..Len(win)
      /\ DOMAIN win' = 1..Len(win') /\ Len(win') = Len(win) + 1 - out
      /\ Len(retired) \in Nat /\ DOMAIN retired = 1..Len(retired)
      /\ DOMAIN retired' = 1..Len(retired') /\ Len(retired') = Len(queue) - n /\ Len(queue) \in Nat
  <2>1. win \in Seq(SegmentType) /\ retired \in Seq(RetiredType)
    BY DEF IndInv, TypeOK, RetiredType
  <2>2. win' \in Seq(SegmentType) /\ retired' \in Seq(RetiredType) /\ Len(win') = Len(win) + 1 - out
        /\ Len(retired') = Len(queue) - n
    BY DEF AddEffect
  <2> QED BY <2>1, <2>2
<1>2. t \in Nat /\ slot \in Nat /\ slot <= t /\ t <= slot + LiveLead /\ n <= Len(queue)
  BY DEF AddEffect, IndInv, TypeOK
<1>3. Retain \in Nat /\ LiveLead \in Nat /\ LiveLead < Retain
  BY TimingAssumption
<1>4. ASSUME NEW j \in DOMAIN win, win[j].file = it.file, win[j].map = it.map
      PROVE  Held(it, win', retired', at)
  <2>1. CASE j > out
    <3>1. j - out \in 1..(Len(win) - out) /\ j - out \in DOMAIN win' /\ out + (j - out) = j
      BY <1>1, <2>1
    <3>2. win'[j - out] = win[j]
      BY <3>1 DEF AddEffect
    <3> QED BY <1>4, <3>1, <3>2 DEF Held
  <2>2. CASE j <= out
    <3> DEFINE e == queue[Len(queue)]
    <3>1. out # 0 /\ j \in 1..out
      BY <1>1, <2>2
    <3>2. e.at = t /\ it.file \in e.files /\ it.map \in e.maps /\ Len(queue) = Len(retired) + 1
      BY <1>4, <3>1 DEF AddEffect
    <3>3. n # Len(queue)
      <4> SUFFICES ASSUME n = Len(queue) PROVE FALSE
        OBVIOUS
      <4>1. Len(queue) \in 1..n
        BY <1>1, <3>2
      <4>2. t - e.at >= Retain
        BY <4>1 DEF AddEffect
      <4> QED BY <1>2, <1>3, <3>2, <4>2
    <3>4. Len(queue) - n \in DOMAIN retired' /\ n + (Len(queue) - n) = Len(queue)
      BY <1>1, <1>2, <3>3
    <3>5. retired'[Len(queue) - n] = e
      BY <1>1, <3>4 DEF AddEffect
    <3> HIDE DEF e
    <3>6. at <= e.at
      BY <1>2, <3>2
    <3> QED BY <3>2, <3>4, <3>5, <3>6 DEF Held
  <2> QED BY <1>1, <2>1, <2>2
<1>5. ASSUME NEW q \in DOMAIN retired, it.file \in retired[q].files, it.map \in retired[q].maps, at <= retired[q].at
      PROVE  Held(it, win', retired', at)
  <2>1. queue[q] = retired[q] /\ q <= Len(queue)
    BY <1>1, SMTT(60) DEF AddEffect
  <2>2. retired[q].at \in Nat
    <3>1. retired \in Seq(RetiredType)
      BY DEF IndInv, TypeOK, RetiredType
    <3>2. retired[q] \in RetiredType
      BY <3>1
    <3> QED BY <3>2 DEF RetiredType
  <2>3. ~(q <= n)
    <3> SUFFICES ASSUME q <= n PROVE FALSE
      OBVIOUS
    <3>1. t - retired[q].at >= Retain
      BY <1>1, <2>1, SMTT(60) DEF AddEffect
    <3>2. \A x, s, a, y, k, l \in Nat : (s - a < k - l /\ x <= s + l /\ a <= y) => ~(x - y >= k)
      OBVIOUS
    <3> QED BY <1>2, <1>3, <1>5, <2>2, <3>1, <3>2
  <2>4. q - n \in DOMAIN retired' /\ n + (q - n) = q
    BY <1>1, <2>1, <2>3
  <2>5. retired'[q - n] = retired[q]
    BY <1>1, <2>1, <2>4 DEF AddEffect
  <2> QED BY <1>5, <2>4, <2>5 DEF Held
<1> QED BY <1>4, <1>5 DEF Held

\* add keeps what the player read about.
LEMMA AddPlayer ==
    ASSUME IndInv, PlayerInv, UNCHANGED player, NEW p, NEW r, NEW b, Add(p, r, b)
    PROVE  PlayerInv'
<1> DEFINE t == NextSecond
           m == Segment(p, t, r, b)
<1>1. PICK out \in 0..Len(win), queue \in Seq(RetiredType), n \in Nat :
         m \in SegmentType /\ AddEffect(t, m, out, queue, n)
  BY AddFacts DEF IndInv
<1>2. m.file = m.seq /\ m.start = t /\ (win # <<>> => m.seq = nextSeq) /\ t \in Nat
  BY <1>1, AddNumber DEF AddEffect
<1>3. /\ slot' = slot /\ crashes' = crashes /\ failures' = failures /\ pc' = pc /\ pc = "release"
      /\ nextSeq' = m.seq + 1
  BY DEF Add, Due, clockVars
<1>4. nextSeq \in Nat /\ m.seq \in Nat /\ (win = <<>> => nextSeq = 0)
  BY <1>1 DEF SegmentType, IndInv, TypeOK, WindowLinked
<1> HIDE DEF m, t
<1>5. ASSUME crashes = 0, failures = 0, slot - player.at < Retain - LiveLead, NEW i \in DOMAIN player.items
      PROVE  LET it == player.items[i] IN
             /\ it.file \in DOMAIN segFile' /\ segFile'[it.file] = it.start /\ it.map \in initFile'
             /\ it.file < nextSeq'
             /\ Held(it, win', retired', player.at)
  <2> DEFINE it == player.items[i]
  <2>1. it \in ItemType
    BY DEF PlayerInv
  <2>2. it.file \in Nat
    BY <2>1 DEF ItemType
  <2>3. Served(it) /\ it.file < nextSeq /\ Held(it, win, retired, player.at)
    BY <1>5 DEF PlayerInv, PlayerHolds
  <2>4. player.at \in Nat /\ player.at <= slot
    BY DEF PlayerInv
  <2> HIDE DEF it
  <2>5. it.file < m.seq + 1 /\ it.file # m.file
    BY <1>2, <1>4, <2>2, <2>3
  <2>6. Held(it, win', retired', player.at)
    BY <1>1, <1>5, <2>3, <2>4, AddHolds
  <2>7. it.file \in FilesInUse(win', retired') /\ it.map \in MapsInUse(win', retired')
    BY <2>6, HeldIsInUse
  <2>8. it.file \in DOMAIN segFile' /\ segFile'[it.file] = it.start /\ it.map \in initFile'
    BY <1>1, <2>3, <2>5, <2>7, AddFiles DEF Served
  <2> QED BY <1>3, <2>5, <2>6, <2>8 DEF it
<1>6. PlayerHolds' <=> \A i \in DOMAIN player.items :
             LET it == player.items[i] IN
             /\ it.file \in DOMAIN segFile' /\ segFile'[it.file] = it.start /\ it.map \in initFile'
             /\ it.file < nextSeq'
             /\ Held(it, win', retired', player.at)
  BY DEF PlayerHolds, Served
<1> QED BY <1>3, <1>5, <1>6 DEF PlayerInv

\* What the playlist lists can be fetched, and its dropped segments wait for a write of the tick that is going on.
LEMMA PlayerReadsHeld ==
    ASSUME IndInv, Prompt, BreaksKnown, PlayerReads
    PROVE  PlayerInv'
<1>1. /\ player'.items = playlist.items /\ player'.at = slot /\ playlist.items # <<>>
      /\ UNCHANGED <<slot, pc, crashes, failures, win, retired, nextSeq, segFile, initFile>>
  BY DEF PlayerReads, vars, clockVars, stVars, diskVars, envVars
<1>2. playlist.items \in Seq(ItemType) /\ slot \in Nat /\ playlist.first \in Nat /\ nextSeq \in Nat
  BY DEF IndInv, TypeOK
<1>3. crashes = 0 => pc # "down"
  BY <1>1 DEF BreaksKnown
<1>4. ASSUME crashes = 0, failures = 0, NEW i \in DOMAIN playlist.items
      PROVE  LET it == playlist.items[i] IN Served(it) /\ it.file < nextSeq /\ Held(it, win, retired, slot)
  <2> DEFINE it == playlist.items[i]
  <2>1. ~overdue /\ (unwritten # 0 => slot <= unwritten)
    BY <1>4 DEF Prompt
  <2>2. Served(it)
    BY <2>1 DEF IndInv, PlaylistServable, Served
  <2>3. Kept(it, win, retired, unwritten)
    BY <1>3, <1>4, <2>1 DEF IndInv, ListedIsKept
  <2>4. Held(it, win, retired, slot)
    <3>1. ASSUME NEW q \in DOMAIN retired, unwritten # 0, unwritten <= retired[q].at
          PROVE  slot <= retired[q].at
      <4>1. retired \in Seq(RetiredType) /\ unwritten \in Nat
        BY DEF IndInv, TypeOK, RetiredType
      <4>2. retired[q] \in RetiredType
        BY <4>1
      <4>3. retired[q].at \in Nat
        BY <4>2 DEF RetiredType
      <4> QED BY <1>2, <2>1, <3>1, <4>1, <4>3
    <3> QED BY <2>3, <3>1 DEF Kept, Held
  <2>5. it.file < nextSeq
    <3>1. it.file = playlist.first + i - 1
      BY DEF IndInv, PlaylistLinked
    <3>2. playlist.first + Len(playlist.items) <= nextSeq
      BY <1>1, <1>3, <1>4 DEF IndInv, PlaylistBehind
    <3>3. i \in 1..Len(playlist.items) /\ Len(playlist.items) \in Nat
      BY <1>2
    <3> QED BY <1>2, <3>1, <3>2, <3>3
  <2> QED BY <2>2, <2>4, <2>5
<1>5. crashes = 0 /\ failures = 0 => PlayerHolds'
  BY <1>1, <1>4 DEF PlayerHolds, Served
<1> QED BY <1>1, <1>2, <1>3, <1>5 DEF PlayerInv

\* Every other step leaves what the player read about alone, as long as the process does not die.
LEMMA PlayerStep ==
    ASSUME MaxBack = 0, IndInv, Prompt, BreaksKnown, PlayerInv, [PlayerNext]_playerVars
    PROVE  PlayerInv'
<1>1. ASSUME UNCHANGED <<player, win, retired, nextSeq, segFile, crashes>>, initFile \subseteq initFile',
             slot' \in Nat, slot <= slot', failures' = 0 => failures = 0, pc' = "down" => pc = "down"
      PROVE  PlayerInv'
  <2>1. PlayerHolds => PlayerHolds'
    BY <1>1 DEF PlayerHolds, Served
  <2>2. player.at \in Nat /\ player.at <= slot /\ slot \in Nat
    BY DEF PlayerInv, IndInv, TypeOK
  <2>3. player.at <= slot' /\ (slot' - player.at < Retain - LiveLead => slot - player.at < Retain - LiveLead)
    BY <1>1, <2>2, TimingAssumption
  <2> QED BY <1>1, <2>1, <2>3 DEF PlayerInv
<1>2. slot \in Nat /\ slot <= slot
  BY DEF IndInv, TypeOK
<1>3. CASE PlayerReads
  BY <1>3, PlayerReadsHeld
<1>4. CASE UNCHANGED playerVars
  BY <1>1, <1>2, <1>4 DEF playerVars, vars, clockVars, stVars, diskVars, envVars
<1>5. ASSUME Crash, UNCHANGED player PROVE PlayerInv'
  <2>1. crashes' # 0 /\ slot' = slot
    BY <1>5 DEF Crash, clockVars, IndInv, TypeOK
  <2> QED BY <1>5, <2>1 DEF PlayerInv
<1>6. ASSUME NEW size \in WindowSizes, Prepare(size), UNCHANGED player PROVE PlayerInv'
  <2>1. pc = "down" /\ pc' = "idle" /\ crashes' = crashes /\ slot' = slot
    BY <1>6 DEF Prepare, clockVars, envVars
  <2>2. crashes = 0 => PlayerHolds'
    BY <1>6, <2>1 DEF PlayerInv, PlayerHolds
  <2> QED BY <1>6, <2>1, <2>2 DEF PlayerInv
<1>7. ASSUME NEW t \in (slot - MaxBack)..(slot + MaxStall), t \in 1..MaxTime, TickStart(t), UNCHANGED player
      PROVE  PlayerInv'
  <2>1. t \in Nat /\ slot <= t
    BY <1>2, <1>7, BoundsAssumption
  <2> QED BY <1>1, <1>7, <2>1 DEF TickStart, stVars, diskVars, envVars
<1>8. ASSUME NEW p, NEW r, Lost(p, r), UNCHANGED player PROVE PlayerInv'
  BY <1>1, <1>2, <1>8 DEF Lost, clockVars, stVars, envVars
<1>9. ASSUME Duplicate \/ EndRelease \/ Announce \/ WritePlaylist \/ LosePlaylist, UNCHANGED player PROVE PlayerInv'
  BY <1>1, <1>2, <1>9 DEF Duplicate, EndRelease, Announce, WritePlaylist, LosePlaylist,
                          clockVars, stVars, diskVars, envVars
<1>10. ASSUME WriteFails, UNCHANGED player PROVE PlayerInv'
  <2>1. failures' # 0
    BY <1>10 DEF WriteFails, IndInv, TypeOK
  <2> QED BY <1>1, <1>2, <1>10, <2>1 DEF WriteFails, clockVars, stVars, diskVars
<1> QED
  BY <1>3, <1>4, <1>5, <1>6, <1>7, <1>8, <1>9, <1>10, AddPlayer DEF PlayerNext, Next, Tick, CrashBetween, CrashInAdd

\* A player can download everything it read about for Retain - LiveLead seconds, for any window, lead and retention, any
\* stalls of the clock and any lost seconds, as long as the clock is not set back, the process does not die and the
\* playlist can be written: cleanup (stitch.go) deletes a file Retain seconds after it left the window, in stream time.
THEOREM FilesOutliveThePlaylist ==
    ASSUME MaxBack = 0
    PROVE  PlayerSpec => [](crashes = 0 /\ failures = 0 => PlayerCanDownload)
<1>1. PlayerInit => IndInv /\ Prompt /\ BreaksKnown /\ EndMarkerNotLost /\ PlayerInv
  <2> SUFFICES ASSUME PlayerInit PROVE Prompt /\ BreaksKnown /\ EndMarkerNotLost /\ PlayerInv
    BY IndInit DEF PlayerInit
  <2>1. win = <<>> /\ playlist.items = <<>> /\ slot = 1 /\ failures = 0 /\ ~overdue /\ unwritten = 0
    BY DEF PlayerInit, Init, NoPlaylist
  <2>2. player.items = <<>> /\ player.at = 0
    BY DEF PlayerInit
  <2> QED BY <2>1, <2>2 DEF Prompt, BreaksKnown, EndMarkerNotLost, PlayerInv, PlayerHolds
<1>2. IndInv /\ Prompt /\ BreaksKnown /\ EndMarkerNotLost /\ PlayerInv /\ [PlayerNext]_playerVars
        => IndInv' /\ Prompt' /\ BreaksKnown' /\ EndMarkerNotLost' /\ PlayerInv'
  <2>1. [PlayerNext]_playerVars => [Next]_vars
    BY DEF PlayerNext, playerVars, PlayerReads
  <2>2. IndInv => TypeOK /\ DownClean
    BY DEF IndInv
  <2> QED BY <2>1, <2>2, IndStep, PromptStep, EndsStep, PlayerStep
<1>3. PlayerInv => (crashes = 0 /\ failures = 0 => PlayerCanDownload)
  BY DEF PlayerInv, PlayerHolds, PlayerCanDownload, Served
<1> QED BY <1>1, <1>2, <1>3, PTL DEF PlayerSpec

-----------------------------------------------------------------------------
(* What the events say *)

\* what a subscriber knows when it knows that air is on
Knows(air) == Heard(IF air.kind = "ad" THEN {air.brk} ELSE {}, air.kind = "slate")

\* the last item up to second to, if what it shows is known, is what air says
LastShown(to, air) ==
    \A i \in DOMAIN win :
        /\ win[i].start <= to /\ win[i].shown.kind # "none"
        /\ i = Len(win) \/ win[i + 1].start > to
        => GoesOn(air, win[i].shown)

\* announce keeps this from item to item
Abreast(a) ==
    /\ a.to \in Nat
    /\ a.air \in ShownType
    /\ a.heard = Knows(a.air)
    /\ LastShown(a.to, a.air)
    /\ win # <<>> => a.to <= lastStart

EventsInv ==
    /\ announcedTo \in Nat
    /\ onAir \in ShownType
    /\ heard = Knows(onAir)
    /\ pc # "down" => LastShown(announcedTo, onAir) /\ announcedTo <= lastStart
    /\ pc = "idle" => \A i \in DOMAIN win : win[i].start <= slot => win[i].start <= announcedTo

\* The seconds of the window grow at least as fast as its positions.
LEMMA Spaced ==
    ASSUME NEW s \in Seq(SegmentType), Marked(s), NEW i \in 1..Len(s), NEW j \in 1..Len(s), i <= j
    PROVE  s[i].start \in Nat /\ s[j].start \in Nat /\ s[i].start + (j - i) <= s[j].start
<1> DEFINE c == Len(s)
           st == [k \in 1..c |-> s[k].start]
           X == {k \in Nat : i + k <= c => st[i] + k <= st[i + k]}
<1>1. c \in Nat /\ i \in Nat /\ j \in Nat /\ 1 <= i /\ i <= j /\ j <= c
  OBVIOUS
<1>2. \A k \in 1..c : st[k] = s[k].start /\ st[k] \in Nat
  <2>1. \A k \in 1..c : s[k] \in SegmentType
    OBVIOUS
  <2> QED BY <2>1 DEF SegmentType
<1>3. \A k \in 2..c : st[k - 1] < st[k]
  <2>1. \A k \in 2..c : s[k - 1].start < s[k].start
    BY DEF Marked
  <2>2. \A k \in 2..c : k \in 1..c /\ k - 1 \in 1..c
    BY <1>1
  <2> QED BY <1>2, <2>1, <2>2
<1> HIDE DEF c, st
<1>4. 0 \in X
  BY <1>1, <1>2
<1>5. ASSUME NEW k \in Nat, k \in X PROVE k + 1 \in X
  <2> SUFFICES ASSUME i + (k + 1) <= c PROVE st[i] + (k + 1) <= st[i + (k + 1)]
    OBVIOUS
  <2>1. i + k \in 1..c /\ i + (k + 1) \in 2..c /\ i + (k + 1) \in 1..c /\ (i + (k + 1)) - 1 = i + k /\ i \in 1..c
    BY <1>1
  <2>2. st[i] + k <= st[i + k] /\ st[i + k] < st[i + (k + 1)]
    BY <1>3, <1>5, <2>1
  <2> QED BY <1>2, <2>1, <2>2
<1>6. \A k \in Nat : k \in X
  <2> HIDE DEF X
  <2> QED BY <1>4, <1>5, NumberInduction
<1>7. j - i \in Nat /\ i + (j - i) = j
  BY <1>1
<1>8. st[i] + (j - i) <= st[j]
  BY <1>1, <1>6, <1>7
<1> QED BY <1>1, <1>2, <1>8 DEF c

\* The loop of announce: what it has come to after every item, each time from the one before.
LEMMA AnnouncedLoop ==
    ASSUME NEW items, NEW n \in Nat
    PROVE  \E after : /\ after[0] = [to |-> announcedTo, air |-> onAir, heard |-> heard]
                      /\ \A i \in 1..n : after[i] = AnnounceItem(after[i - 1], items[i])
                      /\ Announced(items, n) = after[n]
<1> DEFINE start == [to |-> announcedTo, air |-> onAir, heard |-> heard]
           Step(g, i) == IF i = 0 THEN start ELSE AnnounceItem(g[i - 1], items[i])
           Is(g, k) == g = [i \in 0..k |-> Step(g, i)]
           X == {k \in Nat : \E g : Is(g, k)}
<1>1. Announced(items, n) = (CHOOSE g : Is(g, n))[n]
  BY DEF Announced
<1> HIDE DEF start
<1>2. 0 \in X
  <2> DEFINE g == [i \in 0..0 |-> start]
  <2>1. \A i \in 0..0 : g[i] = Step(g, i)
    OBVIOUS
  <2>2. Is(g, 0)
    <3> HIDE DEF Step
    <3> QED BY <2>1
  <2> QED BY <2>2
<1>3. ASSUME NEW k \in Nat, k \in X PROVE k + 1 \in X
  <2>1. PICK g : Is(g, k)
    BY <1>3
  <2> DEFINE h == [i \in 0..k + 1 |-> IF i = k + 1 THEN Step(g, k + 1) ELSE g[i]]
  <2>2. \A i \in 0..k : g[i] = Step(g, i)
    <3> HIDE DEF Step
    <3> QED BY <2>1
  <2>3. \A i \in 0..k + 1 : h[i] = Step(h, i)
    BY <2>2
  <2>4. Is(h, k + 1)
    <3> HIDE DEF Step
    <3> QED BY <2>3
  <2> HIDE DEF Is
  <2> QED BY <2>4
<1>4. \A k \in Nat : k \in X
  <2> HIDE DEF X
  <2> QED BY <1>2, <1>3, NumberInduction
<1> DEFINE after == CHOOSE g : Is(g, n)
<1>5. Is(after, n)
  <2>1. \E g : Is(g, n)
    BY <1>4
  <2> HIDE DEF Is
  <2> QED BY <2>1
<1>6. \A i \in 0..n : after[i] = Step(after, i)
  <2> HIDE DEF Step, after
  <2> QED BY <1>5
<1> HIDE DEF after
<1>7. after[0] = start /\ \A i \in 1..n : after[i] = AnnounceItem(after[i - 1], items[i])
  BY <1>6
<1>8. Announced(items, n) = after[n]
  BY <1>1 DEF after
<1> QED BY <1>7, <1>8 DEF start

\* The events of a transition turn what a subscriber knows about was into what it has to know about is.
LEMMA EventsTell ==
    ASSUME NEW was \in ShownType, NEW is \in ShownType, ~GoesOn(was, is)
    PROVE  Apply(Knows(was), was, is) = Knows(is)
<1>1. GoesOn(is, is)
  BY DEF GoesOn, SameProgram
<1>2. BreakEnds(was, is) <=> was.kind = "ad"
  BY DEF BreakEnds, GoesOn
<1>3. CASE is.kind = "ad"
  BY <1>2, <1>3 DEF Apply, Knows, Heard, SlateEnds, SlateStarts
<1>4. CASE is.kind = "slate"
  BY <1>2, <1>4 DEF Apply, Knows, Heard, SlateEnds, SlateStarts
<1>5. CASE is.kind \notin {"ad", "slate"}
  BY <1>2, <1>5 DEF Apply, Knows, Heard, SlateEnds, SlateStarts
<1> QED BY <1>3, <1>4, <1>5

\* One item.
LEMMA AnnounceOne ==
    ASSUME IndInv, Marked(win), NEW a, Abreast(a), NEW i \in DOMAIN win
    PROVE  LET b == AnnounceItem(a, win[i]) IN
           Abreast(b) /\ a.to <= b.to /\ win[i].start <= b.to
<1> DEFINE it == win[i]
           c == Len(win)
<1>1. win \in Seq(SegmentType) /\ c \in Nat /\ i \in 1..c /\ DOMAIN win = 1..c
  BY DEF IndInv, TypeOK
<1>2. it \in SegmentType
  BY <1>1
<1>3. it.start \in Nat /\ it.shown \in ShownType
  BY <1>2 DEF SegmentType
<1>4. a.to \in Nat /\ a.air \in ShownType /\ a.heard = Knows(a.air)
  BY DEF Abreast
<1>5. it.start <= lastStart
  <2>1. c \in 1..c /\ i <= c /\ win # <<>>
    BY <1>1
  <2>2. it.start + (c - i) <= win[c].start /\ win[c].start \in Nat
    BY <1>1, <2>1, Spaced
  <2>3. lastStart = win[c].start
    BY <2>1 DEF IndInv, WindowLinked
  <2>4. \A x, y, k, l \in Nat : (k <= l /\ x + (l - k) <= y) => x <= y
    OBVIOUS
  <2> HIDE DEF c, it
  <2> QED BY <1>1, <1>3, <2>1, <2>2, <2>3, <2>4
<1>6. CASE it.start <= a.to
  BY <1>4, <1>6 DEF AnnounceItem
<1>7. CASE ~(it.start <= a.to)
  <2>1. ASSUME NEW j \in DOMAIN win, win[j].start <= it.start, j = Len(win) \/ win[j + 1].start > it.start
        PROVE  j = i
    <3>1. CASE j < i
      <4>1. j + 1 \in 1..c /\ j + 1 <= i
        BY <1>1, <3>1
      <4>2. win[j + 1].start \in Nat /\ win[j + 1].start + (i - (j + 1)) <= it.start
        BY <1>1, <4>1, Spaced
      <4>3. j # Len(win)
        BY <1>1, <3>1
      <4> QED BY <1>1, <1>3, <2>1, <4>1, <4>2, <4>3
    <3>2. CASE i < j
      <4>1. win[j].start \in Nat /\ it.start + (j - i) <= win[j].start
        BY <1>1, <3>2, Spaced
      <4> QED BY <1>1, <1>3, <2>1, <3>2, <4>1
    <3> QED BY <1>1, <3>1, <3>2
  <2>2. ASSUME NEW air, it.shown.kind = "none" \/ GoesOn(air, it.shown)
        PROVE  LastShown(it.start, air)
    BY <2>1, <2>2 DEF LastShown
  <2>3. CASE it.shown.kind = "none" \/ GoesOn(a.air, it.shown)
    <3> DEFINE b == [to |-> it.start, air |-> a.air, heard |-> a.heard]
    <3>1. AnnounceItem(a, it) = b
      BY <1>7, <2>3 DEF AnnounceItem
    <3>2. LastShown(it.start, a.air)
      BY <2>2, <2>3
    <3>3. b.to = it.start /\ b.air = a.air /\ b.heard = a.heard
      OBVIOUS
    <3> HIDE DEF b, it
    <3> QED BY <1>3, <1>4, <1>5, <1>7, <3>1, <3>2, <3>3 DEF Abreast, it
  <2>4. CASE ~(it.shown.kind = "none" \/ GoesOn(a.air, it.shown))
    <3> DEFINE b == [to |-> it.start, air |-> it.shown, heard |-> Apply(a.heard, a.air, it.shown)]
    <3>1. AnnounceItem(a, it) = b
      BY <1>7, <2>4 DEF AnnounceItem
    <3>2. LastShown(it.start, it.shown)
      BY <2>2 DEF GoesOn, SameProgram
    <3>3. b.to = it.start /\ b.air = it.shown /\ b.heard = Knows(it.shown)
      BY <1>3, <1>4, <2>4, EventsTell
    <3> HIDE DEF b, it
    <3> QED BY <1>3, <1>4, <1>5, <1>7, <3>1, <3>2, <3>3 DEF Abreast, it
  <2> QED BY <2>3, <2>4
<1> QED BY <1>6, <1>7

\* The whole loop: everything that has started is announced.
LEMMA AnnounceKeeps ==
    ASSUME IndInv, Marked(win), EventsInv, AnnounceEvents
    PROVE  EventsInv'
<1>1. pc = "announce" /\ pc' = "idle" /\ UNCHANGED <<win, slot, lastStart>>
  BY DEF AnnounceEvents, Announce, clockVars, stVars
<1>2. PICK n \in 0..Len(win) :
         /\ OnTheAir(win, n)
         /\ announcedTo' = Announced(win, n).to /\ onAir' = Announced(win, n).air /\ heard' = Announced(win, n).heard
  BY DEF AnnounceEvents
<1>3. win \in Seq(SegmentType) /\ Len(win) \in Nat /\ n \in Nat /\ n <= Len(win) /\ DOMAIN win = 1..Len(win)
  BY DEF IndInv, TypeOK
<1>4. PICK after :
         /\ after[0] = [to |-> announcedTo, air |-> onAir, heard |-> heard]
         /\ \A i \in 1..n : after[i] = AnnounceItem(after[i - 1], win[i])
         /\ Announced(win, n) = after[n]
  BY <1>3, AnnouncedLoop
<1> DEFINE X == {k \in Nat : k <= n => /\ Abreast(after[k])
                                       /\ \A i \in 1..k : win[i].start <= after[k].to}
<1>5. 0 \in X
  <2>1. after[0].to = announcedTo /\ after[0].air = onAir /\ after[0].heard = heard
    BY <1>4
  <2>2. 1..0 = {}
    OBVIOUS
  <2>3. Abreast(after[0])
    BY <1>1, <2>1 DEF Abreast, EventsInv
  <2> QED BY <2>2, <2>3
<1>6. ASSUME NEW k \in Nat, k \in X PROVE k + 1 \in X
  <2> SUFFICES ASSUME k + 1 <= n
               PROVE  Abreast(after[k + 1]) /\ \A i \in 1..(k + 1) : win[i].start <= after[k + 1].to
    OBVIOUS
  <2>1. k <= n /\ k + 1 \in 1..n /\ k + 1 \in DOMAIN win /\ (k + 1) - 1 = k
    BY <1>3
  <2>2. Abreast(after[k]) /\ \A i \in 1..k : win[i].start <= after[k].to
    BY <1>6, <2>1
  <2>3. after[k + 1] = AnnounceItem(after[k], win[k + 1])
    BY <1>4, <2>1
  <2>4. Abreast(after[k + 1]) /\ after[k].to <= after[k + 1].to /\ win[k + 1].start <= after[k + 1].to
    BY <2>1, <2>2, <2>3, AnnounceOne
  <2>5. after[k].to \in Nat /\ after[k + 1].to \in Nat
    BY <2>2, <2>4 DEF Abreast
  <2>6. \A i \in 1..k : win[i].start \in Nat
    <3>1. \A i \in 1..k : i \in 1..Len(win)
      BY <1>3, <2>1
    <3>2. \A i \in 1..k : win[i] \in SegmentType
      BY <1>3, <3>1
    <3> QED BY <3>2 DEF SegmentType
  <2>7. \A i \in 1..k : win[i].start <= after[k + 1].to
    BY <2>2, <2>4, <2>5, <2>6
  <2>8. \A i \in 1..(k + 1) : i \in 1..k \/ i = k + 1
    OBVIOUS
  <2> QED BY <2>4, <2>7, <2>8
<1>7. \A k \in Nat : k \in X
  <2> HIDE DEF X
  <2> QED BY <1>5, <1>6, NumberInduction
<1>8. Abreast(after[n]) /\ \A i \in 1..n : win[i].start <= after[n].to
  <2>1. n <= n
    BY <1>3
  <2> QED BY <1>3, <1>7, <2>1
<1>9. announcedTo' = after[n].to /\ onAir' = after[n].air /\ heard' = after[n].heard
  BY <1>2, <1>4
<1>10. \A i \in DOMAIN win : win[i].start <= slot => win[i].start <= announcedTo'
  <2> SUFFICES ASSUME NEW i \in DOMAIN win, win[i].start <= slot, ~(i <= n) PROVE FALSE
    BY <1>3, <1>8, <1>9
  <2>1. n + 1 \in 1..Len(win) /\ n + 1 <= i /\ i \in 1..Len(win) /\ n < Len(win)
    BY <1>3
  <2>2. win[n + 1].start > slot
    BY <1>2, <2>1 DEF OnTheAir
  <2>3. win[n + 1].start \in Nat /\ win[i].start \in Nat /\ win[n + 1].start + (i - (n + 1)) <= win[i].start
    BY <1>3, <2>1, Spaced
  <2>4. slot \in Nat
    BY DEF IndInv, TypeOK
  <2>5. \A x, y, s, k, l \in Nat : (k <= l /\ x + (l - k) <= y /\ x > s) => ~(y <= s)
    OBVIOUS
  <2>6. n + 1 \in Nat /\ i \in Nat
    BY <1>3, <2>1
  <2> QED BY <2>1, <2>2, <2>3, <2>4, <2>5, <2>6
<1>11. announcedTo' <= lastStart
  <2>1. CASE win # <<>>
    BY <1>8, <1>9, <2>1 DEF Abreast
  <2>2. CASE win = <<>>
    <3>1. n = 0
      BY <1>3, <2>2
    <3>2. announcedTo' = announcedTo
      BY <1>4, <1>9, <3>1
    <3> QED BY <1>1, <3>2 DEF EventsInv
  <2> QED BY <2>1, <2>2
<1>12. LastShown(announcedTo, onAir)'
  BY <1>1, <1>8, <1>9 DEF Abreast, LastShown
<1> QED BY <1>1, <1>8, <1>9, <1>10, <1>11, <1>12 DEF Abreast, EventsInv, Knows

\* A new segment starts after everything that was announced.
LEMMA AddEvents ==
    ASSUME IndInv, EventsInv, NEW p, NEW r, NEW b, Add(p, r, b), UNCHANGED eventVars
    PROVE  EventsInv'
<1> DEFINE t == NextSecond
           m == Segment(p, t, r, b)
<1>1. PICK out \in 0..Len(win) :
         /\ m \in SegmentType /\ t \in Nat /\ t > lastStart
         /\ win' \in Seq(SegmentType) /\ Len(win') = Len(win) + 1 - out
         /\ Len(win') \in DOMAIN win' /\ win'[Len(win')] = m
         /\ \A i \in DOMAIN win' : i # Len(win') =>
               /\ i \in 1..(Len(win) - out) /\ out + i \in DOMAIN win /\ win'[i] = win[out + i]
  BY AddWindow
<1>2. m.start = t
  BY DEF Segment
<1>3. pc = "release" /\ pc' = pc /\ lastStart' = t
  BY DEF Add, Due
<1>4. lastStart \in Nat /\ announcedTo \in Nat /\ announcedTo <= lastStart /\ LastShown(announcedTo, onAir)
  BY <1>3 DEF EventsInv, IndInv, TypeOK
<1> HIDE DEF m, t
<1>5. announcedTo <= t /\ ~(m.start <= announcedTo)
  BY <1>1, <1>2, <1>4
<1>6. ASSUME NEW i \in DOMAIN win', win'[i].start <= announcedTo, win'[i].shown.kind # "none",
             i = Len(win') \/ win'[i + 1].start > announcedTo
      PROVE  GoesOn(onAir, win'[i].shown)
  <2>1. i # Len(win')
    BY <1>1, <1>5, <1>6
  <2>2. i \in 1..(Len(win) - out) /\ out + i \in DOMAIN win /\ win'[i] = win[out + i] /\ win'[i + 1].start > announcedTo
    BY <1>1, <1>6, <2>1
  <2>3. Len(win) \in Nat /\ Len(win') \in Nat /\ DOMAIN win' = 1..Len(win') /\ out \in Nat /\ i \in Nat
    <3>1. win \in Seq(SegmentType) /\ win' \in Seq(SegmentType)
      BY <1>1 DEF IndInv, TypeOK
    <3> QED BY <2>2, <3>1
  <2>4. CASE i + 1 = Len(win')
    <3>1. out + i = Len(win)
      BY <1>1, <2>3, <2>4
    <3> QED BY <1>4, <1>6, <2>2, <3>1 DEF LastShown
  <2>5. CASE i + 1 # Len(win')
    <3>1. i + 1 \in DOMAIN win'
      BY <1>6, <2>1, <2>3
    <3>2. win'[i + 1] = win[out + (i + 1)]
      BY <1>1, <2>5, <3>1
    <3>3. out + (i + 1) = (out + i) + 1
      BY <2>3
    <3> QED BY <1>4, <1>6, <2>2, <3>2, <3>3 DEF LastShown
  <2> QED BY <2>4, <2>5
<1>7. LastShown(announcedTo, onAir)'
  BY <1>6 DEF LastShown, eventVars
<1> QED BY <1>3, <1>5, <1>7 DEF EventsInv, eventVars, Knows

\* prepare tells the subscriber to start over, and counts the restored segments as announced.
LEMMA PrepareAnnounced ==
    ASSUME IndInv, Marked(playlist.items), NEW size \in WindowSizes, PrepareEvents(size)
    PROVE  EventsInv'
<1>1. /\ win' = RestoreWindow(playlist) /\ pc' = "idle" /\ announcedTo' = lastStart' /\ onAir' = NotShown
      /\ heard' = NothingHeard /\ Prepare(size) /\ playlist' = playlist
  BY DEF PrepareEvents, Prepare
<1>2. lastStart' \in Nat /\ win' \in Seq(SegmentType)
  BY <1>1, PrepareTyped DEF IndInv, TypeOK
<1>3. NotShown.kind = "none" /\ NotShown \in ShownType
  BY DEF NotShown, Shown, ShownType, AnySource
<1>4. heard' = Knows(onAir')
  BY <1>1, <1>3 DEF NothingHeard, Knows
<1>5. \A i \in DOMAIN win' : win'[i].shown.kind = "none"
  BY <1>1, <1>3 DEF RestoreWindow
<1>6. WindowLinked'
  BY <1>1, PrepareKeeps
<1>7. \A i \in DOMAIN win' : win'[i].start <= lastStart'
  <2> SUFFICES ASSUME NEW i \in DOMAIN win' PROVE win'[i].start <= lastStart'
    OBVIOUS
  <2>1. Marked(win')
    <3>1. /\ Len(win') = Len(playlist.items) /\ DOMAIN win' = 1..Len(playlist.items) /\ Len(win') \in Nat
      BY <1>1, <1>2, RestoreTyped DEF IndInv
    <3>2. \A k \in DOMAIN win' : /\ win'[k].start = playlist.items[k].start /\ win'[k].disc = playlist.items[k].disc
                                 /\ win'[k].map = playlist.items[k].map
      BY <1>1 DEF RestoreWindow
    <3>3. \A k \in 2..Len(win') : k \in DOMAIN win' /\ k - 1 \in DOMAIN win'
      BY <3>1
    <3> QED BY <3>1, <3>2, <3>3 DEF Marked
  <2>2. i \in 1..Len(win') /\ Len(win') \in 1..Len(win') /\ Len(win') \in Nat /\ win' # <<>>
    BY <1>2
  <2>3. win'[i].start \in Nat /\ win'[Len(win')].start \in Nat /\ win'[i].start + (Len(win') - i) <= win'[Len(win')].start
    BY <1>2, <2>1, <2>2, Spaced
  <2>4. lastStart' = win'[Len(win')].start
    BY <1>6, <2>2 DEF WindowLinked
  <2>5. \A x, y, k, l \in Nat : (k <= l /\ x + (l - k) <= y) => x <= y
    OBVIOUS
  <2> QED BY <2>2, <2>3, <2>4, <2>5
<1>8. LastShown(announcedTo, onAir)'
  BY <1>5 DEF LastShown
<1> QED BY <1>1, <1>2, <1>3, <1>4, <1>7, <1>8 DEF EventsInv, Knows

\* A step of the engine with its events is a step of the engine.
LEMMA EventsRefine ==
    [EventsNext]_allVars => [Next]_vars
  BY DEF EventsNext, allVars, AnnounceEvents, PrepareEvents, Next, Tick

LEMMA EventsStep ==
    ASSUME IndInv, StreamInv, EventsInv, [EventsNext]_allVars
    PROVE  EventsInv'
<1>1. ASSUME UNCHANGED <<win, lastStart, eventVars>>, pc # "down", pc' # "idle"
      PROVE  EventsInv'
  BY <1>1 DEF EventsInv, eventVars, LastShown, Knows
<1>2. CASE UNCHANGED allVars
  BY <1>2 DEF allVars, vars, clockVars, stVars, EventsInv, eventVars, LastShown, Knows
<1>3. CASE AnnounceEvents
  BY <1>3, AnnounceKeeps DEF StreamInv
<1>4. ASSUME NEW size \in WindowSizes, PrepareEvents(size) PROVE EventsInv'
  BY <1>4, PrepareAnnounced DEF StreamInv
<1>5. ASSUME NEW t, TickStart(t), UNCHANGED eventVars PROVE EventsInv'
  BY <1>1, <1>5 DEF TickStart, stVars
<1>6. ASSUME NEW p, NEW r, Lost(p, r), UNCHANGED eventVars PROVE EventsInv'
  BY <1>1, <1>6 DEF Lost, Due, stVars
<1>7. ASSUME Duplicate \/ EndRelease \/ WritePlaylist \/ WriteFails, UNCHANGED eventVars PROVE EventsInv'
  BY <1>1, <1>7 DEF Duplicate, Due, EndRelease, WritePlaylist, WriteFails, stVars
<1>8. ASSUME CrashBetween, UNCHANGED eventVars PROVE EventsInv'
  <2>1. pc' = "down"
    BY <1>8 DEF CrashBetween, Crash
  <2> QED BY <1>8, <2>1 DEF EventsInv, eventVars, Knows
<1> QED BY <1>2, <1>3, <1>4, <1>5, <1>6, <1>7, <1>8, AddEvents DEF EventsNext

\* The invariants of the engine hold while it publishes events.
LEMMA EventsInvInit ==
    EventsInit => IndInv /\ DiscontinuityMarked /\ StreamInv /\ EventsInv
<1> SUFFICES ASSUME EventsInit PROVE DiscontinuityMarked /\ StreamInv /\ EventsInv
  BY IndInit DEF EventsInit
<1>1. win = <<>> /\ playlist = NoPlaylist /\ pc = "down" /\ 2..Len(win) = {} /\ DOMAIN win = {}
  BY DEF EventsInit, Init
<1>2. playlist.items = <<>> /\ 2..Len(playlist.items) = {}
  BY <1>1 DEF NoPlaylist
<1>3. announcedTo = 0 /\ onAir = NotShown /\ heard = NothingHeard
  BY DEF EventsInit
<1>4. NotShown.kind = "none" /\ NotShown \in ShownType
  BY DEF NotShown, Shown, ShownType, AnySource
<1>5. EventsInv
  BY <1>1, <1>3, <1>4 DEF EventsInv, NothingHeard, Knows
<1> QED BY <1>1, <1>2, <1>5 DEF DiscontinuityMarked, StreamInv, Marked, MapIsSource, PrevIsLast, Slides

LEMMA EventsInvStep ==
    ASSUME IndInv, DiscontinuityMarked, StreamInv, EventsInv, [EventsNext]_allVars
    PROVE  IndInv' /\ DiscontinuityMarked' /\ StreamInv' /\ EventsInv'
<1>1. [Next]_vars
  BY EventsRefine
<1>2. IndInv' /\ DiscontinuityMarked'
  BY <1>1, IndStep, MarksStep DEF StreamInv
<1> QED BY <1>1, <1>2, StreamStep, EventsStep

\* A subscriber that knows only the events knows what is on the air: no order of programmes, breaks and slate, no lost
\* second, stall or restart leaves a break or the slate open that is over (announce and transition, events.go).
THEOREM SubscribersKnow == EventsSpec => []SubscriberAgrees
<1>1. IndInv /\ DiscontinuityMarked /\ StreamInv /\ EventsInv /\ [EventsNext]_allVars
        => IndInv' /\ DiscontinuityMarked' /\ StreamInv' /\ EventsInv'
  BY EventsInvStep
<1>2. IndInv /\ EventsInv => SubscriberAgrees
  <2> SUFFICES ASSUME IndInv, EventsInv PROVE SubscriberAgrees
    OBVIOUS
  <2>1. heard.breaks = (IF onAir.kind = "ad" THEN {onAir.brk} ELSE {}) /\ heard.slate = (onAir.kind = "slate")
    BY DEF EventsInv, Knows, Heard
  <2>2. ASSUME pc = "idle", announcedTo <= slot, NEW i \in DOMAIN win, win[i].start <= slot,
               win[i].shown.kind # "none", i = Len(win) \/ win[i + 1].start > slot
        PROVE  GoesOn(onAir, win[i].shown)
    <3>1. win[i].start <= announcedTo /\ LastShown(announcedTo, onAir) /\ announcedTo \in Nat /\ slot \in Nat
      BY <2>2 DEF EventsInv, IndInv, TypeOK
    <3>2. i = Len(win) \/ win[i + 1].start > announcedTo
      <4> SUFFICES ASSUME i # Len(win) PROVE win[i + 1].start > announcedTo
        OBVIOUS
      <4>0. win \in Seq(SegmentType)
        BY DEF IndInv, TypeOK
      <4>1. i + 1 \in DOMAIN win
        BY <4>0
      <4>2. win[i + 1] \in SegmentType
        BY <4>0, <4>1
      <4>3. win[i + 1].start \in Nat
        BY <4>2 DEF SegmentType
      <4> QED BY <2>2, <3>1, <4>3
    <3> QED BY <2>2, <3>1, <3>2 DEF LastShown
  <2> QED BY <2>1, <2>2 DEF SubscriberAgrees
<1> QED BY <1>1, <1>2, EventsInvInit, PTL DEF EventsSpec

-----------------------------------------------------------------------------
(* No event is skipped *)

\* what is not announced yet lies ahead of an idle engine, and at most one stall behind a tick
Unannounced ==
    \A i \in DOMAIN win :
        (pc # "down" /\ win[i].shown.kind # "none" /\ ~(win[i].start <= announcedTo)) =>
            \/ win[i].start >= slot
            \/ pc # "idle" /\ win[i].start + MaxStall > slot

\* A segment that add pushes out is older than the window is long, so it was announced before the last stall.
LEMMA AddAnnounced ==
    ASSUME \A n \in WindowSizes : LiveLead + MaxStall <= n,
           IndInv, Marked(win), EventsInv, Unannounced, NEW p, NEW r, NEW b, Add(p, r, b),
           NEW i \in DOMAIN win, win[i].shown.kind # "none", win[i].start \notin Starts(win')
    PROVE  win[i].start <= announcedTo
<1> DEFINE t == NextSecond
           m == Segment(p, t, r, b)
           a == Len(win)
           c == Len(win')
<1>1. PICK out \in 0..Len(win), queue \in Seq(RetiredType), n \in Nat : AddEffect(t, m, out, queue, n)
  BY AddFacts DEF IndInv
<1>2. /\ t \in Nat /\ t > lastStart /\ pc = "release" /\ t <= slot + LiveLead
      /\ win' \in Seq(SegmentType) /\ c = a + 1 - out /\ (out # 0 => c = maxSize)
      /\ \A k \in 1..(a - out) : win'[k] = win[out + k]
  BY <1>1 DEF AddEffect
<1> HIDE DEF m, t
<1>3. win \in Seq(SegmentType) /\ a \in Nat /\ i \in 1..a /\ slot \in Nat /\ lastStart \in Nat /\ out \in Nat
  BY DEF IndInv, TypeOK
<1>4. i <= out
  <2> SUFFICES ASSUME ~(i <= out) PROVE FALSE
    BY <1>3
  <2>1. i - out \in 1..(a - out) /\ i - out \in 1..c /\ out + (i - out) = i
    <3>1. \A x, k, o \in Nat : (1 <= k /\ k <= x /\ ~(k <= o))
                                  => k - o \in 1..(x - o) /\ k - o \in 1..(x + 1 - o) /\ o + (k - o) = k
      OBVIOUS
    <3>2. i \in Nat /\ 1 <= i /\ i <= a
      BY <1>3
    <3> HIDE DEF a, c
    <3> QED BY <1>2, <1>3, <3>1, <3>2
  <2>2. win'[i - out] = win[i]
    BY <1>2, <2>1
  <2>3. i - out \in DOMAIN win'
    BY <1>2, <2>1
  <2> QED BY <2>2, <2>3 DEF Starts
<1>5. out # 0 /\ c = maxSize /\ maxSize \in Nat /\ LiveLead + MaxStall <= maxSize /\ LiveLead < maxSize
  <2>1. maxSize \in WindowSizes
    BY <1>2 DEF IndInv, TickSound
  <2>2. out # 0
    BY <1>3, <1>4
  <2> QED BY <1>2, <2>1, <2>2, TimingAssumption
<1>6. win[i].start \in Nat /\ win[i].start + (a - i) <= lastStart
  <2>1. a \in 1..a /\ i <= a /\ win # <<>>
    BY <1>3
  <2>2. lastStart = win[a].start
    BY <2>1 DEF IndInv, WindowLinked
  <2> QED BY <1>3, <2>1, <2>2, Spaced
<1>7. LiveLead \in Nat /\ MaxStall \in Nat
  BY TimingAssumption, BoundsAssumption
<1>8. win[i].start + maxSize <= slot + LiveLead
  <2> DEFINE x == win[i].start
  <2>1. x \in Nat /\ a \in Nat /\ i \in Nat /\ out \in Nat /\ t \in Nat /\ lastStart \in Nat /\ slot \in Nat
    BY <1>2, <1>3, <1>6
  <2>2. x + (a - i) <= lastStart /\ i <= out /\ t > lastStart /\ maxSize = a + 1 - out /\ t <= slot + LiveLead
    BY <1>2, <1>4, <1>5, <1>6
  <2> HIDE DEF a, x
  <2>3. x + maxSize <= slot + LiveLead
    BY <1>7, <2>1, <2>2
  <2> QED BY <2>3 DEF x
<1>9. ~(win[i].start >= slot \/ win[i].start + MaxStall > slot)
  <2>1. \A x, w, s, l, k \in Nat : (x + w <= s + l /\ l + k <= w /\ l < w) => ~(x >= s \/ x + k > s)
    OBVIOUS
  <2> QED BY <1>3, <1>5, <1>6, <1>7, <1>8, <2>1
<1> QED BY <1>2, <1>9 DEF Unannounced

LEMMA AddUnannounced ==
    ASSUME IndInv, Unannounced, NEW p, NEW r, NEW b, Add(p, r, b), UNCHANGED eventVars
    PROVE  Unannounced'
<1> DEFINE t == NextSecond
           m == Segment(p, t, r, b)
<1>1. PICK out \in 0..Len(win) :
         /\ Len(win') \in DOMAIN win' /\ win'[Len(win')] = m
         /\ \A i \in DOMAIN win' : i # Len(win') => out + i \in DOMAIN win /\ win'[i] = win[out + i]
  BY AddWindow
<1>2. m.start = t
  BY DEF Segment
<1>3. pc = "release" /\ pc' = pc /\ slot' = slot /\ announcedTo' = announcedTo
  BY DEF Add, Due, clockVars, eventVars
<1>4. t >= slot
  <2>1. slot \in Nat /\ lastTried \in Nat
    BY DEF IndInv, TypeOK
  <2> QED BY <2>1 DEF NextSecond
<1> HIDE DEF m, t
<1>5. ASSUME NEW i \in DOMAIN win', win'[i].shown.kind # "none", ~(win'[i].start <= announcedTo)
      PROVE  win'[i].start >= slot \/ win'[i].start + MaxStall > slot
  <2>1. CASE i = Len(win')
    BY <1>1, <1>2, <1>4, <2>1
  <2>2. CASE i # Len(win')
    BY <1>1, <1>3, <1>5, <2>2 DEF Unannounced
  <2> QED BY <2>1, <2>2
<1> QED BY <1>3, <1>5 DEF Unannounced

LEMMA UnannouncedStep ==
    ASSUME IndInv, StreamInv, EventsInv, EventsInv', Unannounced, [EventsNext]_allVars
    PROVE  Unannounced'
<1>0. \A i \in DOMAIN win : win[i].start \in Nat
  <2>1. win \in Seq(SegmentType)
    BY DEF IndInv, TypeOK
  <2>2. \A i \in DOMAIN win : win[i] \in SegmentType
    BY <2>1
  <2> QED BY <2>2 DEF SegmentType
<1>1. ASSUME UNCHANGED <<win, slot, eventVars>>, pc \notin {"down", "idle"}, pc' # "idle" PROVE Unannounced'
  BY <1>1 DEF Unannounced, eventVars
<1>2. CASE UNCHANGED allVars
  BY <1>2 DEF allVars, vars, clockVars, stVars, Unannounced, eventVars
<1>3. CASE AnnounceEvents
  <2>1. UNCHANGED <<win, slot>> /\ pc' = "idle" /\ slot \in Nat
    BY <1>3 DEF AnnounceEvents, Announce, clockVars, stVars, IndInv, TypeOK
  <2>2. \A i \in DOMAIN win : win[i].start <= slot => win[i].start <= announcedTo'
    BY <2>1 DEF EventsInv
  <2>3. \A x, y \in Nat : ~(x <= y) => x >= y
    OBVIOUS
  <2>4. \A i \in DOMAIN win : ~(win[i].start <= announcedTo') => win[i].start >= slot
    BY <1>0, <2>1, <2>2, <2>3
  <2> QED BY <2>1, <2>4 DEF Unannounced
<1>4. ASSUME NEW size \in WindowSizes, PrepareEvents(size) PROVE Unannounced'
  <2>1. win' = RestoreWindow(playlist)
    BY <1>4 DEF PrepareEvents, Prepare
  <2>2. \A i \in DOMAIN win' : win'[i].shown.kind = "none"
    BY <2>1 DEF RestoreWindow, NotShown, Shown
  <2> QED BY <2>2 DEF Unannounced
<1>5. ASSUME NEW t \in (slot - MaxBack)..(slot + MaxStall), t \in 1..MaxTime, TickStart(t), UNCHANGED eventVars
      PROVE  Unannounced'
  <2>1. pc = "idle" /\ pc' = "release" /\ slot' = t /\ UNCHANGED <<win, announcedTo>>
    BY <1>5 DEF TickStart, stVars, eventVars
  <2>2. slot \in Nat /\ MaxStall \in Nat /\ t \in Nat /\ t <= slot + MaxStall
    BY <1>5, BoundsAssumption DEF IndInv, TypeOK
  <2>3. ASSUME NEW i \in DOMAIN win, win[i].shown.kind # "none", ~(win[i].start <= announcedTo)
        PROVE  win[i].start + MaxStall > t
    <3>1. ~(win[i].start <= slot)
      BY <2>1, <2>3 DEF EventsInv
    <3>2. win[i].start \in Nat
      BY <1>0
    <3> QED BY <2>2, <3>1, <3>2
  <2> QED BY <2>1, <2>3 DEF Unannounced
<1>6. ASSUME NEW p, NEW r, Lost(p, r), UNCHANGED eventVars PROVE Unannounced'
  BY <1>1, <1>6 DEF Lost, Due, clockVars, stVars
<1>7. ASSUME Duplicate \/ EndRelease \/ WritePlaylist \/ WriteFails, UNCHANGED eventVars PROVE Unannounced'
  BY <1>1, <1>7 DEF Duplicate, Due, EndRelease, WritePlaylist, WriteFails, clockVars, stVars
<1>8. ASSUME CrashBetween PROVE Unannounced'
  <2>1. pc' = "down"
    BY <1>8 DEF CrashBetween, Crash
  <2> QED BY <2>1 DEF Unannounced
<1> QED BY <1>2, <1>3, <1>4, <1>5, <1>6, <1>7, <1>8, AddUnannounced DEF EventsNext

\* No segment leaves the window before it was announced, if the window is at least as long as the lead and the longest
\* stall of the clock together: announce (events.go) looks only at what is in the window.
THEOREM NothingSkipped ==
    ASSUME \A n \in WindowSizes : LiveLead + MaxStall <= n
    PROVE  EventsSpec => NoneLeavesUnannounced
<1> DEFINE Leaves ==
        pc' # "down" =>
            \A i \in DOMAIN win :
                (win[i].shown.kind # "none" /\ win[i].start \notin Starts(win')) => win[i].start <= announcedTo
           Inv == IndInv /\ DiscontinuityMarked /\ StreamInv /\ EventsInv /\ Unannounced
<1>1. EventsInit => Inv
  <2>1. EventsInit => DOMAIN win = {}
    BY DEF EventsInit, Init
  <2>2. EventsInit => Unannounced
    BY <2>1 DEF Unannounced
  <2> QED BY <2>2, EventsInvInit
<1>2. Inv /\ [EventsNext]_allVars => Inv'
  BY EventsInvStep, UnannouncedStep
<1>3. Inv /\ [EventsNext]_allVars => [Leaves]_allVars
  <2> SUFFICES ASSUME Inv, [EventsNext]_allVars PROVE [Leaves]_allVars
    OBVIOUS
  <2>1. win' = win => Leaves
    BY DEF Starts
  <2>2. ASSUME pc = "down" PROVE Leaves
    BY <2>2 DEF IndInv, DownClean
  <2>3. ASSUME NEW p, NEW r, NEW b, Add(p, r, b) PROVE Leaves
    BY <2>3, AddAnnounced DEF StreamInv
  <2>4. AnnounceEvents => win' = win
    BY DEF AnnounceEvents, Announce, stVars
  <2>5. \A size \in WindowSizes : PrepareEvents(size) => pc = "down"
    BY DEF PrepareEvents, Prepare
  <2>6. \A t : TickStart(t) => win' = win
    BY DEF TickStart, stVars
  <2>7. \A p, r : Lost(p, r) => win' = win
    BY DEF Lost, stVars
  <2>8. Duplicate \/ EndRelease \/ WritePlaylist \/ WriteFails => win' = win
    BY DEF Duplicate, EndRelease, WritePlaylist, WriteFails, stVars
  <2>9. CrashBetween => Leaves
    BY DEF CrashBetween, Crash
  <2> HIDE DEF Leaves, Inv
  <2> QED BY <2>1, <2>2, <2>3, <2>4, <2>5, <2>6, <2>7, <2>8, <2>9 DEF EventsNext
<1>4. EventsSpec => [][Leaves]_allVars
  <2> HIDE DEF Leaves, Inv
  <2> QED BY <1>1, <1>2, <1>3, PTL DEF EventsSpec
<1> QED BY <1>4 DEF NoneLeavesUnannounced
=============================================================================
