---------------------------- MODULE ReaderProofs ----------------------------
(***************************************************************************)
(* What the reader's modules promise for every archive: the sources of     *)
(* clones (ByteSource), the flag an open may leave behind and the counting *)
(* of offset tables (MemberAccess).                                        *)
(***************************************************************************)
EXTENDS MemberAccess, ByteSource, FiniteSetTheorems, SequenceTheorems, TLAPS

----------------------------------------------------------------------------
(* Clones and their archive                                                *)

SourceRecord ==
    [status: {"cloned", "ready"}, kind: SourceKind, inode: Inodes,
     size: {FileSizes[k] : k \in Nat}, of: Nat]

\* An open source still holds the file it was opened on; a clone that is not
\* compared yet has its archive beside it, and callbacks its very source.
SourceInv ==
    /\ published \in Nat /\ path \in Inodes /\ file \in [Inodes -> Nat]
    /\ opened \in [Handles -> {Closed} \cup SourceRecord]
    /\ opened[Archive] # Closed =>
          /\ opened[Archive].status = "ready"
          /\ file[opened[Archive].inode] = opened[Archive].of
    /\ \A s \in Streams : opened[s] # Closed =>
          /\ opened[s].status = "ready" => file[opened[s].inode] = opened[s].of
          /\ opened[s].status = "cloned" =>
                /\ opened[Archive] # Closed
                /\ opened[s].of = opened[Archive].of
                /\ opened[s].kind = "custom" =>
                      opened[s].inode = opened[Archive].inode

\* Nothing is open at first.
LEMMA SourceStarts == SourceInit => SourceInv
  BY SourceAssumption DEF SourceInit, SourceInv, Handles, Closed

\* The record a new source is given.
LEMMA SourceTyped ==
  ASSUME file \in [Inodes -> Nat], NEW kind \in SourceKind, NEW inode \in Inodes,
         NEW status \in {"cloned", "ready"}, NEW of \in Nat
  PROVE  /\ Source(kind, inode, status, of) \in SourceRecord
         /\ Source(kind, inode, status, of) # Closed
         /\ Source(kind, inode, status, of).inode = inode
         /\ Source(kind, inode, status, of).kind = kind
         /\ Source(kind, inode, status, of).status = status
         /\ Source(kind, inode, status, of).of = of
  BY DEF Source, SourceRecord, Closed

\* A handle that is closed cannot be taken for one that is open.
LEMMA ClosedIsNoSource == Closed \notin SourceRecord
  BY DEF Closed, SourceRecord

\* Every step of the sources keeps the invariant.
LEMMA SourceStep == SourceInv /\ [SourceNext]_fvars => SourceInv'
<1> SUFFICES ASSUME SourceInv, [SourceNext]_fvars PROVE SourceInv'
  OBVIOUS
<1> USE DEF SourceInv
<1>a. Archive \in Handles /\ \A s \in Streams : s \in Handles /\ s # Archive
  BY SourceAssumption DEF Handles
<1>1. CASE Publish
  <2>1. PICK i \in Inodes \ Referenced :
           path' = i /\ file' = [file EXCEPT ![i] = published + 1]
    BY <1>1 DEF Publish
  <2>2. \A h \in Handles : opened[h] # Closed =>
           opened[h] \in SourceRecord /\ opened[h].inode \in Referenced
    BY DEF Referenced
  <2>3. \A h \in Handles : opened[h] # Closed =>
           opened[h].inode \in Inodes /\ file'[opened[h].inode] = file[opened[h].inode]
    BY <2>1, <2>2 DEF SourceRecord
  <2>4. opened' = opened /\ published' \in Nat
    BY <1>1 DEF Publish
  <2> QED
    BY <1>a, <2>1, <2>3, <2>4
<1>2. ASSUME NEW kind \in SourceKind, OpenArchive(kind) PROVE SourceInv'
  <2>2. Source(kind, path, "ready", file[path]) \in SourceRecord
    BY SourceTyped
  <2>3. /\ opened' = [opened EXCEPT ![Archive] = Source(kind, path, "ready", file[path])]
        /\ opened[Archive] = Closed
        /\ UNCHANGED <<published, path, file>>
    BY <1>2 DEF OpenArchive
  <2>4. /\ opened'[Archive].status = "ready" /\ opened'[Archive].of = file[path]
        /\ opened'[Archive].inode = path
    BY <2>3, <1>a, SourceTyped
  <2>5. \A s \in Streams : opened'[s] = opened[s]
    BY <2>3, <1>a
  <2>6. \A s \in Streams : opened[s] # Closed => opened[s].status # "cloned"
    BY <2>3
  <2> QED
    BY <1>a, <2>2, <2>3, <2>4, <2>5, <2>6
<1>3. ASSUME NEW s \in Streams, CloneSource(s) PROVE SourceInv'
  <2> DEFINE from  == opened[Archive]
             inode == IF from.kind = "custom" THEN from.inode ELSE path
             made  == Source(from.kind, inode, "cloned", from.of)
  <2>1. /\ opened' = [opened EXCEPT ![s] = made] /\ from # Closed
        /\ UNCHANGED <<published, path, file>>
    BY <1>3 DEF CloneSource, Available, Closed
  <2>2. from \in SourceRecord
    BY <2>1, <1>a
  <2>3. inode \in Inodes /\ from.kind \in SourceKind /\ from.of \in Nat
    BY <2>2 DEF SourceRecord
  <2>4. /\ made \in SourceRecord /\ made.inode = inode /\ made.kind = from.kind
        /\ made.status = "cloned" /\ made.of = from.of
    BY <2>3, SourceTyped
  <2>5. opened'[Archive] = from /\ opened'[s] = made
    BY <2>1, <1>a
  <2>6. \A t \in Streams : t # s => opened'[t] = opened[t]
    BY <2>1, <1>a
  <2> HIDE DEF made, inode
  <2>7. opened' \in [Handles -> {Closed} \cup SourceRecord]
    BY <2>1, <2>4
  <2>8. made.kind = "custom" => made.inode = from.inode
    BY <2>4 DEF inode
  <2> QED
    BY <1>a, <2>1, <2>4, <2>5, <2>6, <2>7, <2>8
<1>4. ASSUME NEW s \in Streams, CheckClone(s) PROVE SourceInv'
  <2>1. /\ opened[s].status = "cloned"
        /\ \/ opened' = [opened EXCEPT ![s] = Closed]
           \/ /\ opened[s].kind = "custom" \/ opened[s].inode = opened[Archive].inode
              /\ opened' = [opened EXCEPT ![s] = [opened[s] EXCEPT !.status = "ready"]]
        /\ UNCHANGED <<published, path, file>>
    BY <1>4 DEF CheckClone
  <2>2. opened[s] \in SourceRecord /\ opened[Archive] # Closed
    BY <2>1, <1>a DEF Closed
  <2>3. /\ opened'[Archive] = opened[Archive]
        /\ \A t \in Streams : t # s => opened'[t] = opened[t]
    BY <2>1, <1>a
  <2>4. CASE opened' = [opened EXCEPT ![s] = Closed]
    BY <1>a, <2>1, <2>2, <2>3, <2>4
  <2>5. CASE /\ opened[s].kind = "custom" \/ opened[s].inode = opened[Archive].inode
             /\ opened' = [opened EXCEPT ![s] = [opened[s] EXCEPT !.status = "ready"]]
    <3>b. opened[s].kind = "custom" => opened[s].inode = opened[Archive].inode
      BY <2>1, <2>2, ClosedIsNoSource
    <3>c. opened'[s] = [opened[s] EXCEPT !.status = "ready"]
      BY <1>a, <2>5
    <3>1. /\ opened'[s] = [opened[s] EXCEPT !.status = "ready"]
          /\ opened[s].inode = opened[Archive].inode
      BY <2>5, <3>b, <3>c
    <3>2. /\ opened'[s] \in SourceRecord /\ opened'[s].status = "ready"
          /\ opened'[s].inode = opened[s].inode /\ opened'[s].of = opened[s].of
      BY <2>2, <3>1 DEF SourceRecord
    <3>3. opened' \in [Handles -> {Closed} \cup SourceRecord]
      BY <1>a, <2>5, <3>2
    <3>4. file'[opened'[s].inode] = opened'[s].of
      BY <2>1, <2>2, <3>1, <3>2, ClosedIsNoSource
    <3> QED
      BY <1>a, <2>1, <2>2, <2>3, <3>2, <3>3, <3>4
  <2> QED
    BY <2>1, <2>4, <2>5
<1>5. ASSUME NEW h \in Handles, Close(h) PROVE SourceInv'
  <2>1. /\ opened' = [opened EXCEPT ![h] = Closed]
        /\ h = Archive => \A s \in Streams : opened[s].status # "cloned"
        /\ UNCHANGED <<published, path, file>>
    BY <1>5 DEF Close
  <2> QED
    BY <1>a, <2>1
<1>6. CASE UNCHANGED <<published, path, file, opened>>
  BY <1>6
<1> QED
  BY <1>1, <1>2, <1>3, <1>4, <1>5, <1>6
     DEF SourceNext, fvars, BeginRead, ReadBatch, ReadRange, EndRead, ReadBreaks, TakeAnswer

\* A clone in use reads the file its archive was opened on, for any number of
\* files published under the path, of streams and of inodes given out again.
THEOREM ClonesReadTheirArchive == SourceSpec => []StreamsReadTheirArchive
<1>1. SourceInv => StreamsReadTheirArchive
  BY DEF SourceInv, StreamsReadTheirArchive, Available, Closed
<1> QED
  BY SourceStarts, SourceStep, <1>1, PTL DEF SourceSpec

----------------------------------------------------------------------------
(* The flag an open may leave behind                                       *)

\* The flag in memory is the block table's, or one the offset table showed.
FlagInv ==
    /\ flagged \in [Members -> BOOLEAN]
    /\ \A m \in Members :
          /\ Kind[m].flagged => flagged[m]
          /\ flagged[m] => Kind[m].flagged \/ Exposed(m)

\* The flags begin as the block table was read.
LEMMA FlagStarts == Init => FlagInv
  BY MembersAssumption DEF Init, FlagInv

\* Only an open changes the flag.
LEMMA FlagStep == FlagInv /\ [Next]_vars => FlagInv'
<1> SUFFICES ASSUME FlagInv, [Next]_vars PROVE FlagInv'
  OBVIOUS
<1>1. CASE UNCHANGED flagged
  BY <1>1 DEF FlagInv, Exposed
<1>2. CASE AcquireNew
  <2> DEFINE m == Top.member
  <2>1. flagged' = [flagged EXCEPT ![m] = FlaggedAfter(m, flagged[m])]
    BY <1>2 DEF AcquireNew
  <2> HIDE DEF m
  <2> QED
    BY <2>1 DEF FlagInv, FlaggedAfter, Exposed
<1> QED
  BY <1>1, <1>2 DEF Next, vars, Enter, AcquireCached, AcquireFails, Release,
     Read, Fetch, Serve, ReadFails, NeedKey, Tabled, NoteFlags, Prefix, SkipMetadata,
     Compare, Cached, Parse, MakeCall, PassOver, Return, Unchanged

\* Opening a member ends the same way before and after any calls, although an
\* open that fails may leave the flag it has set.
THEOREM OpensStayRepeatable == Spec => []OpensRepeatable
<1>1. FlagInv => OpensRepeatable
  <2> SUFFICES ASSUME FlagInv, NEW m \in Members, NEW named \in BOOLEAN
               PROVE  OpenOutcome(m, named, flagged[m])
                         = OpenOutcome(m, named, Kind[m].flagged)
    BY DEF OpensRepeatable
  <2>0. flagged[m] \in BOOLEAN /\ Kind[m].flagged \in BOOLEAN
    BY MembersAssumption DEF FlagInv
  <2>1. FlaggedAfter(m, flagged[m]) <=> FlaggedAfter(m, Kind[m].flagged)
    BY DEF FlagInv, FlaggedAfter
  <2>2. CASE Kind[m].sectored
    BY <2>1, <2>2 DEF OpenOutcome
  <2>3. CASE ~Kind[m].sectored
    <3>1. flagged[m] = Kind[m].flagged
      BY <2>0, <2>3 DEF FlagInv, Exposed
    <3> QED
      BY <3>1
  <2> QED
    BY <2>2, <2>3
<1> QED
  BY FlagStarts, FlagStep, <1>1, PTL DEF Spec

----------------------------------------------------------------------------
(* The counting of offset tables                                           *)

Ops == {"sector_checksums", "file_read", "verify_data", "block_read",
        "load_attributes", "verify_block", "verify_file", "read_named",
        "block_size_packed", "stream", "block_compression"}

\* Where a program takes its table and where it gives it back.
AcquireAt(op) ==
    CASE op = "verify_data"       -> 0
      [] op = "load_attributes"   -> 2
      [] op = "verify_file"       -> 2
      [] op = "block_size_packed" -> 2
      [] op = "block_compression" -> 3
      [] OTHER                    -> 1

ReleaseAt(op) ==
    CASE op = "verify_data"       -> 0
      [] op = "sector_checksums"  -> 3
      [] op = "block_read"        -> 3
      [] op = "read_named"        -> 3
      [] op = "block_size_packed" -> 3
      [] op = "verify_file"       -> 6
      [] op \in {"file_read", "load_attributes", "verify_block"} -> 4
      [] OTHER                    -> 5

\* The instructions that may end a call.
Leaving == {"skip_metadata", "cached", "tabled", "note_flags"}

Do(op, i) == Program[op][i].do

\* Every program takes its table once, before it gives it back once; the
\* calls a program makes are programs.
LEMMA ProgramShape ==
  ASSUME NEW op \in Ops
  PROVE  /\ Len(Program[op]) \in Nat
         /\ AcquireAt(op) \in Nat /\ ReleaseAt(op) \in 0..Len(Program[op])
         /\ AcquireAt(op) < ReleaseAt(op) \/ ReleaseAt(op) = 0
         /\ AcquireAt(op) = 0 => ReleaseAt(op) = 0
         /\ \A i \in 1..Len(Program[op]) :
               /\ Do(op, i) = "acquire" <=> i = AcquireAt(op)
               /\ Do(op, i) = "release" <=> i = ReleaseAt(op)
               /\ Do(op, i) = "call" => Program[op][i].call \in Ops
               /\ Do(op, i) \in Leaving =>
                     i <= AcquireAt(op) \/ ReleaseAt(op) = 0
<1> USE DEF Ops, AcquireAt, ReleaseAt, Leaving, Do, Program, Step, Call, Try
<1>1. CASE op = "sector_checksums"
  BY <1>1 DEF SectorChecksums
<1>2. CASE op = "file_read"
  BY <1>2 DEF FileRead
<1>3. CASE op = "verify_data"
  BY <1>3 DEF VerifyData
<1>4. CASE op = "block_read"
  BY <1>4 DEF BlockRead
<1>5. CASE op = "load_attributes"
  BY <1>5 DEF LoadAttributes
<1>6. CASE op = "verify_block"
  BY <1>6 DEF VerifyBlock
<1>7. CASE op = "verify_file"
  BY <1>7 DEF VerifyFile
<1>8. CASE op = "read_named"
  BY <1>8 DEF ReadNamed
<1>9. CASE op = "block_size_packed"
  BY <1>9 DEF BlockSizePacked
<1>10. CASE op = "stream"
  BY <1>10 DEF Stream
<1>11. CASE op = "block_compression"
  BY <1>11 DEF BlockCompression
<1> QED
  BY <1>1, <1>2, <1>3, <1>4, <1>5, <1>6, <1>7, <1>8, <1>9, <1>10, <1>11

FrameRecord ==
    [op: Ops, member: Members, named: BOOLEAN, pc: Nat \ {0}, holds: BOOLEAN,
     failed: BOOLEAN, got: {"nothing", "good", "bad"}, saw: BOOLEAN]

\* A call holds its table from just behind its acquire up to its release.
Shaped(f) == f.holds <=> f.pc > AcquireAt(f.op) /\ f.pc <= ReleaseAt(f.op)

Calling(f) == f.pc <= Len(Code(f)) /\ Code(f)[f.pc].do = "call"

TableRecord == [count: Nat, key: {"none", "name", "right", "wrong"}]

CountInv ==
    /\ flagged \in [Members -> BOOLEAN]
    /\ cache \in [Members -> TableRecord]
    /\ \A m \in Members : cache[m].count = 0 <=> cache[m] = NoTable
    /\ stack \in Seq(FrameRecord)
    /\ \A i \in 1..Len(stack) : Shaped(stack[i])
    /\ \A i \in 1..(Len(stack) - 1) : Calling(stack[i])
    /\ CountsHolders

\* The holders of a table are some of the calls in progress.
LEMMA HoldersFinite ==
  ASSUME stack \in Seq(FrameRecord), NEW m
  PROVE  Holders(m) \subseteq 1..Len(stack) /\ IsFiniteSet(Holders(m))
<1>1. Holders(m) \subseteq 1..Len(stack)
  BY DEF Holders
<1>2. Len(stack) \in Nat
  OBVIOUS
<1>3. IsFiniteSet(1..Len(stack))
  BY <1>2, FS_Interval
<1> QED
  BY <1>1, <1>3, FS_Subset

\* No table is cached and no call is in progress at first.
LEMMA CountStarts == Init => CountInv
<1> SUFFICES ASSUME Init PROVE CountInv
  OBVIOUS
<1>1. stack = <<>> /\ cache = [m \in Members |-> NoTable]
  BY DEF Init
<1>2. \A m : Holders(m) = {}
  BY <1>1 DEF Holders
<1>3. Cardinality({}) = 0
  BY FS_EmptySet
<1>4. flagged \in [Members -> BOOLEAN]
  BY MembersAssumption DEF Init
<1>5. NoTable \in TableRecord /\ NoTable.count = 0
  BY DEF TableRecord, NoTable
<1>6. \A m \in Members : cache[m] = NoTable
  BY <1>1
<1>7. CountsHolders
  BY <1>2, <1>3, <1>5, <1>6 DEF CountsHolders
<1>8. stack \in Seq(FrameRecord) /\ Len(stack) = 0
  BY <1>1
<1>9. cache \in [Members -> TableRecord]
  BY <1>1, <1>5
<1> QED
  BY <1>4, <1>5, <1>6, <1>7, <1>8, <1>9 DEF CountInv

\* The frame a failing or an advancing call becomes.
LEMMA FailShaped ==
  ASSUME NEW f \in FrameRecord, Shaped(f), NEW g, g = Fail(f)
  PROVE  /\ g \in FrameRecord /\ Shaped(g)
         /\ g.member = f.member /\ g.holds = f.holds
<1> DEFINE r == ReleaseAt(f.op)
           n == Len(Code(f))
<1>0. f.op \in Ops /\ f.pc \in Nat
  BY DEF FrameRecord
<1>1. /\ n \in Nat /\ AcquireAt(f.op) \in Nat /\ r \in 0..n
      /\ \A i \in 1..n : Code(f)[i].do = "release" <=> i = r
      /\ AcquireAt(f.op) < r \/ r = 0
  BY <1>0, ProgramShape DEF Code, Do
<1>2. CASE f.holds
  <2>1. r \in 1..n /\ AcquireAt(f.op) < r
    BY <1>0, <1>1, <1>2 DEF Shaped
  <2>2. (CHOOSE i \in 1..n : Code(f)[i].do = "release") = r
    BY <1>1, <2>1
  <2>3. g = [f EXCEPT !.failed = TRUE, !.pc = r]
    BY <1>2, <2>2 DEF Fail
  <2>4. r \in Nat \ {0}
    BY <1>1, <2>1
  <2> HIDE DEF r
  <2>5. g \in FrameRecord
    BY <2>3, <2>4 DEF FrameRecord
  <2>6. /\ g.member = f.member /\ g.holds = f.holds /\ g.op = f.op /\ g.pc = r
    BY <2>3 DEF FrameRecord
  <2> QED
    BY <1>1, <1>2, <2>1, <2>4, <2>5, <2>6 DEF Shaped, r
<1>3. CASE ~f.holds
  <2>1. g = [f EXCEPT !.failed = TRUE, !.pc = n + 1]
    BY <1>3 DEF Fail
  <2>2. n + 1 \in Nat \ {0} /\ ~(n + 1 <= r)
    BY <1>1
  <2> HIDE DEF n
  <2>3. g \in FrameRecord
    BY <2>1, <2>2 DEF FrameRecord
  <2>4. /\ g.member = f.member /\ g.holds = f.holds /\ g.op = f.op /\ g.pc = n + 1
    BY <2>1 DEF FrameRecord
  <2> QED
    BY <1>3, <2>2, <2>3, <2>4 DEF Shaped
<1> QED
  BY <1>2, <1>3

\* One instruction further, where the instruction neither takes nor gives
\* back the table.
LEMMA NextShaped ==
  ASSUME NEW f \in FrameRecord, Shaped(f), ~Ended(f),
         Code(f)[f.pc].do \notin {"acquire", "release"},
         NEW g \in FrameRecord, g.op = f.op, g.holds = f.holds,
         g.pc = f.pc + 1
  PROVE  Shaped(g)
<1>1. /\ f.op \in Ops /\ f.pc \in 1..Len(Code(f)) /\ f.holds \in BOOLEAN
  BY ProgramShape DEF FrameRecord, Ended, Code
<1>2. f.pc # AcquireAt(f.op) /\ f.pc # ReleaseAt(f.op)
  BY <1>1, ProgramShape DEF Code, Do
<1>3. AcquireAt(f.op) \in Nat /\ ReleaseAt(f.op) \in Nat
  BY <1>1, ProgramShape
<1> QED
  BY <1>1, <1>2, <1>3 DEF Shaped

\* A step that replaces the frame of the innermost call and no more.
LEMMA TopChange ==
  ASSUME stack \in Seq(FrameRecord), stack # <<>>,
         \A i \in 1..Len(stack) : Shaped(stack[i]),
         \A i \in 1..(Len(stack) - 1) : Calling(stack[i]),
         NEW f \in FrameRecord, Shaped(f), f.member = Top.member, Become(f)
  PROVE  /\ stack' \in Seq(FrameRecord) /\ Len(stack') = Len(stack)
         /\ \A i \in 1..Len(stack') : Shaped(stack'[i])
         /\ \A i \in 1..(Len(stack') - 1) : Calling(stack'[i])
         /\ \A m \in Members :
               Holders(m)' = IF m # Top.member THEN Holders(m)
                             ELSE IF f.holds THEN Holders(m) \cup {Len(stack)}
                             ELSE Holders(m) \ {Len(stack)}
<1>1. Len(stack) \in Nat \ {0}
  OBVIOUS
<1>2. /\ stack' \in Seq(FrameRecord) /\ Len(stack') = Len(stack)
      /\ \A i \in 1..Len(stack) :
            stack'[i] = IF i = Len(stack) THEN f ELSE stack[i]
  BY <1>1 DEF Become
<1>3. /\ \A i \in 1..Len(stack') : Shaped(stack'[i])
      /\ \A i \in 1..(Len(stack') - 1) : Calling(stack'[i])
  BY <1>1, <1>2
<1>4. ASSUME NEW m \in Members
      PROVE  Holders(m)' = IF m # Top.member THEN Holders(m)
                           ELSE IF f.holds THEN Holders(m) \cup {Len(stack)}
                           ELSE Holders(m) \ {Len(stack)}
  <2>1. Holders(m)' = {i \in 1..Len(stack) : stack'[i].holds /\ stack'[i].member = m}
    BY <1>2 DEF Holders
  <2>2. Holders(m) = {i \in 1..Len(stack) : stack[i].holds /\ stack[i].member = m}
    BY DEF Holders
  <2> QED
    BY <1>1, <1>2, <2>1, <2>2 DEF Top
<1> QED
  BY <1>2, <1>3, <1>4

\* A call that goes on without its table changing hands.
LEMMA StaySame ==
  ASSUME CountInv, stack # <<>>, flagged' \in [Members -> BOOLEAN],
         UNCHANGED cache, NEW f \in FrameRecord, Shaped(f),
         f.member = Top.member, f.holds = Top.holds, Become(f)
  PROVE  CountInv'
<1>1. Len(stack) \in Nat \ {0} /\ Top \in FrameRecord /\ Top = stack[Len(stack)]
  BY DEF CountInv, Top
<1>2. /\ stack' \in Seq(FrameRecord) /\ Len(stack') = Len(stack)
      /\ \A i \in 1..Len(stack') : Shaped(stack'[i])
      /\ \A i \in 1..(Len(stack') - 1) : Calling(stack'[i])
      /\ \A m \in Members :
            Holders(m)' = IF m # Top.member THEN Holders(m)
                          ELSE IF f.holds THEN Holders(m) \cup {Len(stack)}
                          ELSE Holders(m) \ {Len(stack)}
  BY TopChange DEF CountInv
<1>3. Len(stack) \in Holders(Top.member) <=> f.holds
  BY <1>1 DEF Holders, FrameRecord
<1>4. \A m \in Members : Holders(m)' = Holders(m)
  BY <1>2, <1>3
<1>5. CountsHolders'
  BY <1>4 DEF CountInv, CountsHolders
<1> QED
  BY <1>2, <1>5 DEF CountInv

\* The innermost call and its instruction.
LEMMA TopFacts ==
  ASSUME CountInv, stack # <<>>
  PROVE  /\ Len(stack) \in Nat \ {0} /\ Top \in FrameRecord /\ Shaped(Top)
         /\ Top.member \in Members /\ Top.op \in Ops
<1>1. Len(stack) \in Nat \ {0} /\ Top = stack[Len(stack)]
  BY DEF CountInv, Top
<1>2. Top \in FrameRecord /\ Shaped(Top)
  BY <1>1 DEF CountInv
<1> QED
  BY <1>1, <1>2 DEF FrameRecord

\* A call that fails keeps its table until its release.
LEMMA FailStays ==
  ASSUME CountInv, stack # <<>>, flagged' \in [Members -> BOOLEAN],
         UNCHANGED cache, Become(Fail(Top))
  PROVE  CountInv'
<1>1. Top \in FrameRecord /\ Shaped(Top)
  BY TopFacts
<1> DEFINE g == Fail(Top)
<1>2. /\ g \in FrameRecord /\ Shaped(g)
      /\ g.member = Top.member /\ g.holds = Top.holds
  BY <1>1, FailShaped
<1> QED
  BY <1>2, StaySame

\* A call whose instruction has been carried out.
LEMMA GoOnStays ==
  ASSUME CountInv, stack # <<>>, ~Ended(Top),
         Code(Top)[Top.pc].do \notin {"acquire", "release"},
         flagged' \in [Members -> BOOLEAN], UNCHANGED cache,
         NEW f \in FrameRecord, f.op = Top.op, f.holds = Top.holds,
         f.pc = Top.pc + 1, f.member = Top.member, Become(f)
  PROVE  CountInv'
<1>1. Top \in FrameRecord /\ Shaped(Top)
  BY TopFacts
<1>2. Shaped(f)
  BY <1>1, NextShaped
<1> QED
  BY <1>2, StaySame

\* A frame that goes on to its next instruction.
LEMMA PcEdit ==
  ASSUME NEW t \in FrameRecord, NEW f,
         f = [t EXCEPT !.pc = @ + 1]
  PROVE  /\ f \in FrameRecord /\ f.op = t.op /\ f.holds = t.holds
         /\ f.pc = t.pc + 1 /\ f.member = t.member
<1>1. t.pc + 1 \in Nat \ {0}
  BY DEF FrameRecord
<1> QED
  BY <1>1 DEF FrameRecord

\* The same with what it read.
LEMMA GotEdit ==
  ASSUME NEW t \in FrameRecord, NEW g \in {"nothing", "good", "bad"}, NEW f,
         f = [t EXCEPT !.got = g, !.pc = @ + 1]
  PROVE  /\ f \in FrameRecord /\ f.op = t.op /\ f.holds = t.holds
         /\ f.pc = t.pc + 1 /\ f.member = t.member
<1>1. t.pc + 1 \in Nat \ {0}
  BY DEF FrameRecord
<1> QED
  BY <1>1 DEF FrameRecord

\* The same with the flag it saw.
LEMMA SawEdit ==
  ASSUME NEW t \in FrameRecord, NEW b \in BOOLEAN, NEW f,
         f = [t EXCEPT !.saw = b, !.pc = @ + 1]
  PROVE  /\ f \in FrameRecord /\ f.op = t.op /\ f.holds = t.holds
         /\ f.pc = t.pc + 1 /\ f.member = t.member
<1>1. t.pc + 1 \in Nat \ {0}
  BY DEF FrameRecord
<1> QED
  BY <1>1 DEF FrameRecord

\* A frame that stays where it is with what it read.
LEMMA StayEdit ==
  ASSUME NEW t \in FrameRecord, NEW g \in {"nothing", "good", "bad"}, NEW f,
         f = [t EXCEPT !.got = g]
  PROVE  /\ f \in FrameRecord /\ f.op = t.op /\ f.holds = t.holds
         /\ f.pc = t.pc /\ f.member = t.member
<1>1. t.pc + 1 \in Nat \ {0}
  BY DEF FrameRecord
<1> QED
  BY <1>1 DEF FrameRecord

\* A frame that jumps.
LEMMA JumpEdit ==
  ASSUME NEW t \in FrameRecord, NEW n \in Nat \ {0}, NEW f,
         f = [t EXCEPT !.pc = n]
  PROVE  /\ f \in FrameRecord /\ f.op = t.op /\ f.holds = t.holds
         /\ f.pc = n /\ f.member = t.member
<1>1. t.pc + 1 \in Nat \ {0}
  BY DEF FrameRecord
<1> QED
  BY <1>1 DEF FrameRecord

\* A frame that has acquired its table.
LEMMA HoldEdit ==
  ASSUME NEW t \in FrameRecord, NEW f,
         f = [t EXCEPT !.holds = TRUE, !.pc = @ + 1]
  PROVE  /\ f \in FrameRecord /\ f.op = t.op /\ f.holds = TRUE
         /\ f.pc = t.pc + 1 /\ f.member = t.member
<1>1. t.pc + 1 \in Nat \ {0}
  BY DEF FrameRecord
<1> QED
  BY <1>1 DEF FrameRecord

\* At an instruction there is a call, which has not ended.
LEMMA AtFacts ==
  ASSUME CountInv, NEW do, At(do)
  PROVE  /\ stack # <<>> /\ ~Ended(Top) /\ Code(Top)[Top.pc].do = do
         /\ Top \in FrameRecord /\ Shaped(Top) /\ Top.member \in Members
         /\ Top.op \in Ops /\ Top.pc \in 1..Len(Code(Top))
         /\ Len(Code(Top)) \in Nat
<1>1. stack # <<>> /\ ~Ended(Top) /\ Code(Top)[Top.pc].do = do
  BY DEF At
<1>2. Top \in FrameRecord /\ Shaped(Top) /\ Top.member \in Members /\ Top.op \in Ops
  BY <1>1, TopFacts
<1>3. Top.pc \in Nat \ {0}
  BY <1>2 DEF FrameRecord
<1>4. Len(Code(Top)) \in Nat
  BY <1>2, ProgramShape DEF Code
<1> QED
  BY <1>1, <1>2, <1>3, <1>4 DEF Ended

\* A new call holds nothing.
LEMMA FrameShaped ==
  ASSUME NEW op \in Ops, NEW m \in Members, NEW named \in BOOLEAN,
         NEW g \in {"nothing", "good", "bad"}, NEW f,
         f = Frame(op, m, named) \/ f = [Frame(op, m, named) EXCEPT !.got = g]
  PROVE  f \in FrameRecord /\ Shaped(f) /\ ~f.holds
<1>1. Frame(op, m, named) \in FrameRecord
  BY DEF Frame, FrameRecord
<1>2. f \in FrameRecord /\ f.op = op /\ f.pc = 1 /\ f.holds = FALSE
  <2>1. CASE f = Frame(op, m, named)
    BY <1>1, <2>1 DEF Frame
  <2>2. CASE f = [Frame(op, m, named) EXCEPT !.got = g]
    BY <1>1, <2>2 DEF FrameRecord, Frame
  <2> QED
    BY <2>1, <2>2
<1>3. ~(1 > AcquireAt(op) /\ 1 <= ReleaseAt(op))
  BY ProgramShape
<1> QED
  BY <1>2, <1>3 DEF Shaped

\* A step that adds a call to the stack.
LEMMA PushStays ==
  ASSUME CountInv, UNCHANGED <<flagged, cache>>,
         stack # <<>> => Calling(Top),
         NEW f \in FrameRecord, Shaped(f), ~f.holds, stack' = Append(stack, f)
  PROVE  CountInv'
<1>1. Len(stack) \in Nat /\ stack \in Seq(FrameRecord)
  BY DEF CountInv
<1>2. /\ stack' \in Seq(FrameRecord) /\ Len(stack') = Len(stack) + 1
      /\ stack'[Len(stack) + 1] = f
      /\ \A i \in 1..Len(stack) : stack'[i] = stack[i]
  BY <1>1
<1>3. \A i \in 1..Len(stack') : Shaped(stack'[i])
  BY <1>1, <1>2 DEF CountInv
<1>4. \A i \in 1..(Len(stack') - 1) : Calling(stack'[i])
  <2> SUFFICES ASSUME NEW i \in 1..Len(stack) PROVE Calling(stack[i])
    BY <1>1, <1>2
  <2>1. stack # <<>> /\ (i = Len(stack) \/ i \in 1..(Len(stack) - 1))
    BY <1>1
  <2> QED
    BY <2>1 DEF CountInv, Top
<1>5. ASSUME NEW m \in Members PROVE Holders(m)' = Holders(m)
  <2>1. Holders(m)' = {i \in 1..(Len(stack) + 1) : stack'[i].holds /\ stack'[i].member = m}
    BY <1>2 DEF Holders
  <2>2. Holders(m) = {i \in 1..Len(stack) : stack[i].holds /\ stack[i].member = m}
    BY DEF Holders
  <2> QED
    BY <1>1, <1>2, <2>1, <2>2
<1>6. CountsHolders'
  BY <1>5 DEF CountInv, CountsHolders
<1> QED
  BY <1>2, <1>3, <1>4, <1>6 DEF CountInv

\* A call that has ended holds nothing.
LEMMA EndedHoldsNothing ==
  ASSUME NEW f \in FrameRecord, Shaped(f), Ended(f)
  PROVE  ~f.holds
<1>1. f.op \in Ops /\ f.pc \in Nat
  BY DEF FrameRecord
<1>2. ReleaseAt(f.op) \in 0..Len(Code(f)) /\ Len(Code(f)) \in Nat
  BY <1>1, ProgramShape DEF Code
<1> QED
  BY <1>1, <1>2 DEF Shaped, Ended

\* A call that returns holds nothing, and its caller holds what it held.
LEMMA ReturnStays == CountInv /\ Return => CountInv'
<1> SUFFICES ASSUME CountInv, Return PROVE CountInv'
  OBVIOUS
<1> DEFINE n    == Len(stack)
           rest == SubSeq(stack, 1, n - 1)
           on   == IF Top.failed /\ Code(Caller)[Caller.pc].strict
                   THEN Fail(Caller) ELSE [Caller EXCEPT !.pc = @ + 1]
<1>1. /\ stack # <<>> /\ Ended(Top) /\ UNCHANGED <<flagged, cache>>
      /\ stack' = IF rest = <<>> THEN <<>> ELSE [rest EXCEPT ![Len(rest)] = on]
  BY DEF Return, Unchanged
<1>2. n \in Nat \ {0}
  BY <1>1, TopFacts
<1>6. Top \in FrameRecord /\ ~Top.holds /\ Top = stack[n]
  BY <1>1, TopFacts, EndedHoldsNothing DEF Top
<1>3. /\ rest \in Seq(FrameRecord) /\ Len(rest) = n - 1
      /\ \A i \in 1..(n - 1) : rest[i] = stack[i]
  <2>1. stack \in Seq(FrameRecord) /\ 1 \in 1..(Len(stack) + 1)
        /\ Len(stack) - 1 \in (1 - 1)..Len(stack)
    BY <1>2 DEF CountInv
  <2>2. /\ rest \in Seq(FrameRecord)
        /\ Len(rest) = IF 1 <= n - 1 THEN n - 1 - 1 + 1 ELSE 0
        /\ \A i \in 1..(n - 1 - 1 + 1) : rest[i] = stack[1 + i - 1]
    BY <2>1, SubSeqProperties
  <2> HIDE DEF rest
  <2>3. /\ IF 1 <= n - 1 THEN n - 1 - 1 + 1 = n - 1 ELSE 0 = n - 1
        /\ n - 1 - 1 + 1 = n - 1 /\ \A i \in 1..(n - 1) : 1 + i - 1 = i
    BY <1>2
  <2> QED
    BY <2>2, <2>3
<1> HIDE DEF rest
<1>4. CASE n = 1
  <2>1. stack' = <<>>
    BY <1>1, <1>3, <1>4
  <2>2. \A m \in Members : Holders(m)' = {} /\ Holders(m) = {}
    BY <1>2, <1>4, <1>6, <2>1 DEF Holders
  <2>3. CountsHolders'
    BY <1>1, <2>2 DEF CountInv, CountsHolders
  <2> QED
    BY <1>1, <2>1, <2>3 DEF CountInv
<1>5. CASE n # 1
  <2>1. /\ Caller = stack[n - 1] /\ Caller \in FrameRecord /\ Shaped(Caller)
        /\ Calling(Caller) /\ n - 1 \in 1..n
    <3>1. n - 1 \in 1..n /\ n - 1 \in 1..(n - 1) /\ Caller = stack[n - 1]
      <4>1. n - 1 \in 1..n /\ n - 1 \in 1..(n - 1)
        BY <1>2, <1>5
      <4> QED
        BY <4>1 DEF Caller
    <3>2. Caller \in FrameRecord
      BY <3>1 DEF CountInv
    <3> QED
      BY <3>1, <3>2 DEF CountInv
  <2>2. ~Ended(Caller) /\ Code(Caller)[Caller.pc].do \notin {"acquire", "release"}
    <3>1. Len(Code(Caller)) \in Nat /\ Caller.pc \in Nat
      BY <2>1, ProgramShape DEF FrameRecord, Code
    <3> QED
      BY <2>1, <3>1 DEF Calling, Ended
  <2>3. /\ on \in FrameRecord /\ Shaped(on)
        /\ on.member = Caller.member /\ on.holds = Caller.holds
    <3>1. CASE on = Fail(Caller)
      BY <2>1, <3>1, FailShaped
    <3>2. CASE on = [Caller EXCEPT !.pc = @ + 1]
      <4> HIDE DEF on
      <4>1. /\ on \in FrameRecord /\ on.op = Caller.op /\ on.holds = Caller.holds
            /\ on.pc = Caller.pc + 1 /\ on.member = Caller.member
        BY <2>1, <3>2, PcEdit
      <4> QED
        BY <2>1, <2>2, <4>1, NextShaped
    <3> QED
      BY <3>1, <3>2
  <2> HIDE DEF on
  <2>4. /\ stack' \in Seq(FrameRecord) /\ Len(stack') = n - 1
        /\ \A i \in 1..(n - 1) : stack'[i] = IF i = n - 1 THEN on ELSE stack[i]
    <3>1. rest # <<>> /\ stack' = [rest EXCEPT ![n - 1] = on] /\ n - 1 \in 1..Len(rest)
      BY <1>1, <1>2, <1>3, <1>5 DEF on
    <3>2. stack' \in Seq(FrameRecord) /\ Len(stack') = Len(rest)
      BY <1>3, <2>3, <3>1
    <3> QED
      BY <1>3, <3>1, <3>2
  <2>5. \A i \in 1..Len(stack') : Shaped(stack'[i])
    BY <1>2, <2>3, <2>4 DEF CountInv
  <2>6. \A i \in 1..(Len(stack') - 1) : Calling(stack'[i])
    BY <1>2, <2>4 DEF CountInv
  <2>7. ASSUME NEW m \in Members PROVE Holders(m)' = Holders(m)
    <3>1. Holders(m)' = {i \in 1..(n - 1) : stack'[i].holds /\ stack'[i].member = m}
      BY <2>4 DEF Holders
    <3>2. Holders(m) = {i \in 1..n : stack[i].holds /\ stack[i].member = m}
      BY DEF Holders
    <3>3. \A i \in 1..(n - 1) : /\ stack'[i].holds = stack[i].holds
                                /\ stack'[i].member = stack[i].member
      BY <2>1, <2>3, <2>4
    <3> QED
      BY <1>2, <1>6, <3>1, <3>2, <3>3
  <2>8. CountsHolders'
    BY <1>1, <2>7 DEF CountInv, CountsHolders
  <2> QED
    BY <1>1, <2>4, <2>5, <2>6, <2>8 DEF CountInv
<1> QED
  BY <1>4, <1>5

\* A call that takes its table: the entry counts one more.
LEMMA HoldStays ==
  ASSUME CountInv, At("acquire"), flagged' \in [Members -> BOOLEAN],
         NEW t \in TableRecord, t.count = cache[Top.member].count + 1,
         cache' = [cache EXCEPT ![Top.member] = t],
         Become([Top EXCEPT !.holds = TRUE, !.pc = @ + 1])
  PROVE  CountInv'
<1> DEFINE f == [Top EXCEPT !.holds = TRUE, !.pc = @ + 1]
<1>0. PICK m \in Members : m = Top.member
  BY AtFacts
<1>1. /\ stack # <<>> /\ Top \in FrameRecord /\ Shaped(Top) /\ m = Top.member
      /\ Top.op \in Ops /\ Top.pc \in 1..Len(Code(Top))
      /\ Code(Top)[Top.pc].do = "acquire"
  BY <1>0, AtFacts
<1>2. /\ f \in FrameRecord /\ f.op = Top.op /\ f.holds = TRUE
      /\ f.pc = Top.pc + 1 /\ f.member = m
  BY <1>1, HoldEdit
<1>3. /\ Top.pc = AcquireAt(Top.op) /\ Top.pc \in Nat \ {0}
      /\ AcquireAt(Top.op) < ReleaseAt(Top.op) /\ ReleaseAt(Top.op) \in Nat
  <2>1. Top.pc \in Nat \ {0}
    BY <1>1 DEF FrameRecord
  <2>2. Top.pc = AcquireAt(Top.op)
    BY <1>1, ProgramShape DEF Code, Do
  <2>3. ReleaseAt(Top.op) # 0
    BY <1>1, <2>1, <2>2 DEF AcquireAt, ReleaseAt, Ops
  <2> QED
    BY <1>1, <2>1, <2>2, <2>3, ProgramShape
<1>4. Shaped(f) /\ ~Top.holds
  <2>1. ~Top.holds
    BY <1>1, <1>3 DEF Shaped
  <2> HIDE DEF f
  <2> QED
    BY <1>2, <1>3, <2>1 DEF Shaped
<1> HIDE DEF f
<1>5. /\ stack' \in Seq(FrameRecord) /\ Len(stack') = Len(stack)
      /\ \A i \in 1..Len(stack') : Shaped(stack'[i])
      /\ \A i \in 1..(Len(stack') - 1) : Calling(stack'[i])
      /\ \A k \in Members :
            Holders(k)' = IF k # Top.member THEN Holders(k)
                          ELSE IF f.holds THEN Holders(k) \cup {Len(stack)}
                          ELSE Holders(k) \ {Len(stack)}
  BY <1>1, <1>2, <1>4, TopChange DEF CountInv, f
<1>6. Len(stack) \notin Holders(m)
  BY <1>4 DEF Holders, Top
<1>7. Cardinality(Holders(m)') = cache[m].count + 1
  <2>1. IsFiniteSet(Holders(m)) /\ cache[m].count = Cardinality(Holders(m))
    BY <1>1, HoldersFinite DEF CountInv, CountsHolders
  <2>2. Holders(m)' = Holders(m) \cup {Len(stack)}
    BY <1>1, <1>2, <1>5
  <2> QED
    BY <1>6, <2>1, <2>2, FS_AddElement
<1>8. cache' \in [Members -> TableRecord] /\ cache'[m] = t
  BY <1>1 DEF CountInv
<1>9. \A k \in Members : k # m => cache'[k] = cache[k]
  BY <1>1 DEF CountInv
<1>10. CountsHolders'
  <2> SUFFICES ASSUME NEW k \in Members
               PROVE  cache'[k].count = Cardinality(Holders(k)')
    BY DEF CountsHolders
  <2>1. CASE k = m
    <3>1. cache'[m].count = Cardinality(Holders(m)')
      BY <1>1, <1>7, <1>8
    <3> QED
      BY <2>1, <3>1, Zenon
  <2>2. CASE k # m
    <3>1. Holders(k)' = Holders(k)
      BY <1>1, <1>5, <2>2
    <3>2. cache'[k] = cache[k] /\ cache[k].count = Cardinality(Holders(k))
      BY <1>9, <2>2 DEF CountInv, CountsHolders
    <3> QED
      BY <3>1, <3>2
  <2> QED
    BY <2>1, <2>2
<1>11. \A k \in Members : cache'[k].count = 0 <=> cache'[k] = NoTable
  <2>1. t.count # 0
    BY <1>1 DEF CountInv, TableRecord
  <2>2. NoTable.count = 0
    BY DEF NoTable
  <2> QED
    BY <1>8, <1>9, <2>1, <2>2 DEF CountInv
<1> QED
  BY <1>5, <1>8, <1>10, <1>11 DEF CountInv

\* A call that gives its table back: the entry counts one less, and is gone
\* with the last.
LEMMA ReleaseStays == CountInv /\ Release => CountInv'
<1> SUFFICES ASSUME CountInv, Release PROVE CountInv'
  OBVIOUS
<1> DEFINE f == [Advance(Top) EXCEPT !.holds = FALSE]
<1>a. At("release") /\ Become(f) /\ UNCHANGED flagged
  BY DEF Release
<1>0. PICK m \in Members : m = Top.member
  BY <1>a, AtFacts
<1>1. /\ stack # <<>> /\ Top \in FrameRecord /\ Shaped(Top) /\ m = Top.member
      /\ Top.op \in Ops /\ Top.pc \in 1..Len(Code(Top))
      /\ Len(Code(Top)) \in Nat /\ Code(Top)[Top.pc].do = "release"
  BY <1>0, <1>a, AtFacts
<1> DEFINE t == IF cache[m].count = 1 THEN NoTable
                ELSE [cache[m] EXCEPT !.count = cache[m].count - 1]
<1>2. cache' = [cache EXCEPT ![m] = t]
  <2>1. cache' = [cache EXCEPT ![Top.member] =
                    IF cache[Top.member].count = 1 THEN NoTable
                    ELSE [cache[Top.member] EXCEPT !.count = cache[Top.member].count - 1]]
    BY SMT DEF Release
  <2> QED
    BY <1>0, <2>1, Zenon
<1>3. /\ Top.pc = ReleaseAt(Top.op) /\ Top.pc \in Nat \ {0}
      /\ AcquireAt(Top.op) < ReleaseAt(Top.op) /\ AcquireAt(Top.op) \in Nat
      /\ ReleaseAt(Top.op) \in 0..Len(Code(Top))
  <2>1. Top.pc \in Nat \ {0}
    BY <1>1 DEF FrameRecord
  <2>2. Top.pc = ReleaseAt(Top.op)
    BY <1>1, ProgramShape DEF Code, Do
  <2> QED
    BY <1>1, <2>1, <2>2, ProgramShape DEF Code
<1>4. Top.holds = TRUE
  BY <1>1, <1>3 DEF Shaped, FrameRecord
<1>5. /\ f \in FrameRecord /\ f.op = Top.op /\ f.holds = FALSE
      /\ f.pc > ReleaseAt(Top.op) /\ f.member = m
  <2>1. PICK n : n = IF Top.failed THEN Len(Code(Top)) + 1 ELSE Top.pc + 1
    OBVIOUS
  <2>2. n \in Nat \ {0} /\ n > ReleaseAt(Top.op)
    BY <1>1, <1>3, <2>1
  <2>3. PICK g : g = [Top EXCEPT !.pc = n]
    OBVIOUS
  <2>4. /\ g \in FrameRecord /\ g.op = Top.op /\ g.pc = n /\ g.member = m
    BY <1>1, <2>2, <2>3, JumpEdit
  <2>5. f = [g EXCEPT !.holds = FALSE]
    BY <2>1, <2>3 DEF Advance
  <2> HIDE DEF f
  <2>6. f \in FrameRecord /\ f.op = g.op /\ f.pc = g.pc /\ f.member = g.member
        /\ f.holds = FALSE
    BY <2>4, <2>5 DEF FrameRecord
  <2> QED
    BY <2>2, <2>4, <2>6
<1>6. Shaped(f)
  <2> HIDE DEF f
  <2>1. f.pc \in Nat
    BY <1>5 DEF FrameRecord
  <2> QED
    BY <1>3, <1>5, <2>1 DEF Shaped
<1> HIDE DEF f
<1>7. /\ stack' \in Seq(FrameRecord) /\ Len(stack') = Len(stack)
      /\ \A i \in 1..Len(stack') : Shaped(stack'[i])
      /\ \A i \in 1..(Len(stack') - 1) : Calling(stack'[i])
      /\ \A k \in Members :
            Holders(k)' = IF k # Top.member THEN Holders(k)
                          ELSE IF f.holds THEN Holders(k) \cup {Len(stack)}
                          ELSE Holders(k) \ {Len(stack)}
  BY <1>a, <1>1, <1>5, <1>6, TopChange DEF CountInv
<1>8. Len(stack) \in Holders(m)
  <2>1. Len(stack) \in 1..Len(stack)
    BY <1>1 DEF CountInv
  <2> QED
    BY <1>1, <1>4, <2>1 DEF Holders, Top
<1>9. /\ cache[m].count = Cardinality(Holders(m)) /\ cache[m].count \in Nat \ {0}
      /\ Cardinality(Holders(m)') = cache[m].count - 1
  <2>1. IsFiniteSet(Holders(m)) /\ cache[m].count = Cardinality(Holders(m))
    BY HoldersFinite DEF CountInv, CountsHolders
  <2>2. Holders(m)' = Holders(m) \ {Len(stack)}
    BY <1>1, <1>5, <1>7
  <2>3. Cardinality(Holders(m)) \in Nat \ {0}
    BY <1>8, <2>1, FS_CardinalityType, FS_EmptySet
  <2> QED
    BY <1>8, <2>1, <2>2, <2>3, FS_RemoveElement
<1>10. /\ t \in TableRecord /\ t.count = cache[m].count - 1
       /\ t.count = 0 <=> t = NoTable
  <2>1. cache[m] \in TableRecord
    BY DEF CountInv
  <2>2. NoTable \in TableRecord /\ NoTable.count = 0
    BY DEF NoTable, TableRecord
  <2>3. CASE cache[m].count = 1
    BY <2>2, <2>3
  <2>4. CASE cache[m].count # 1
    <3>1. t = [cache[m] EXCEPT !.count = cache[m].count - 1]
      BY <2>4
    <3>2. cache[m].count - 1 \in Nat \ {0}
      BY <1>9, <2>4
    <3> HIDE DEF t
    <3>3. t \in TableRecord /\ t.count = cache[m].count - 1
      BY <2>1, <3>1, <3>2 DEF TableRecord
    <3> QED
      BY <2>2, <3>2, <3>3
  <2> QED
    BY <2>3, <2>4
<1> HIDE DEF t
<1>11. /\ cache' \in [Members -> TableRecord] /\ cache'[m] = t
       /\ \A k \in Members : k # m => cache'[k] = cache[k]
  BY <1>2, <1>10 DEF CountInv
<1>12. CountsHolders'
  <2> SUFFICES ASSUME NEW k \in Members
               PROVE  cache'[k].count = Cardinality(Holders(k)')
    BY DEF CountsHolders
  <2>1. CASE k = m
    <3>1. cache'[m].count = Cardinality(Holders(m)')
      BY <1>9, <1>10, <1>11
    <3> QED
      BY <2>1, <3>1, Zenon
  <2>2. CASE k # m
    <3>1. Holders(k)' = Holders(k)
      BY <1>1, <1>7, <2>2
    <3>2. cache'[k] = cache[k] /\ cache[k].count = Cardinality(Holders(k))
      BY <1>11, <2>2 DEF CountInv, CountsHolders
    <3> QED
      BY <3>1, <3>2
  <2> QED
    BY <2>1, <2>2
<1>13. \A k \in Members : cache'[k].count = 0 <=> cache'[k] = NoTable
  BY <1>10, <1>11 DEF CountInv
<1> QED
  BY <1>a, <1>7, <1>11, <1>12, <1>13 DEF CountInv

\* A table taken from the cache, refused, or made anew.
LEMMA AcquireStays ==
  CountInv /\ (AcquireCached \/ AcquireFails \/ AcquireNew) => CountInv'
<1>1. ASSUME CountInv, AcquireCached PROVE CountInv'
  <2>1. /\ At("acquire") /\ UNCHANGED flagged
        /\ Become([Top EXCEPT !.holds = TRUE, !.pc = @ + 1])
    BY <1>1 DEF AcquireCached
  <2> DEFINE m == Top.member
             t == [count |-> cache[m].count + 1,
                   key   |-> IF Top.named /\ cache[m].key = "none"
                             THEN "name" ELSE cache[m].key]
  <2>2. cache' = [cache EXCEPT ![m] = t]
    BY <1>1, Zenon DEF AcquireCached
  <2>3. cache[m] \in TableRecord /\ flagged \in [Members -> BOOLEAN]
    BY <1>1, <2>1, AtFacts DEF CountInv
  <2>4. t \in TableRecord /\ t.count = cache[m].count + 1
    BY <2>3 DEF TableRecord
  <2> QED
    BY <1>1, <2>1, <2>2, <2>3, <2>4, HoldStays
<1>2. ASSUME CountInv, AcquireFails PROVE CountInv'
  <2>1. /\ At("acquire") /\ UNCHANGED <<flagged, cache>> /\ Become(Fail(Top))
    BY <1>2 DEF AcquireFails
  <2>2. stack # <<>> /\ flagged \in [Members -> BOOLEAN]
    BY <1>2, <2>1 DEF At, CountInv
  <2> QED
    BY <1>2, <2>1, <2>2, FailStays
<1>3. ASSUME CountInv, AcquireNew PROVE CountInv'
  <2> DEFINE m   == Top.member
             key == OpenOutcome(m, Top.named, flagged[m])
  <2>1. /\ At("acquire") /\ cache[m] = NoTable
        /\ flagged' = [flagged EXCEPT ![m] = FlaggedAfter(m, @)]
        /\ IF key = "refused"
           THEN Become(Fail(Top)) /\ UNCHANGED cache
           ELSE /\ cache' = [cache EXCEPT ![m] = [count |-> 1, key |-> key]]
                /\ Become([Top EXCEPT !.holds = TRUE, !.pc = @ + 1])
    BY <1>3, Zenon DEF AcquireNew
  <2>2. stack # <<>> /\ m \in Members /\ Top.named \in BOOLEAN
    BY <1>3, <2>1, AtFacts DEF FrameRecord
  <2>3. flagged \in [Members -> BOOLEAN]
    BY <1>3 DEF CountInv
  <2>4. FlaggedAfter(m, flagged[m]) \in BOOLEAN
    BY <2>2, <2>3 DEF FlaggedAfter, Exposed
  <2>5. flagged' \in [Members -> BOOLEAN]
    BY <2>1, <2>2, <2>3, <2>4
  <2>6. CASE key = "refused"
    BY <1>3, <2>1, <2>2, <2>5, <2>6, FailStays
  <2>7. CASE key # "refused"
    <3> DEFINE t == [count |-> 1, key |-> key]
    <3>1. Kind[m].guess \in {"right", "wrong", "none"}
      BY <2>2, MembersAssumption
    <3>2. key \in {"none", "name", "right", "wrong"}
      BY <2>7, <3>1, SMTT(30) DEF OpenOutcome, TableKey, PayloadKey
    <3> HIDE DEF key
    <3>3. t \in TableRecord /\ t.count = 1
      BY <3>2 DEF TableRecord
    <3>4. t.count = cache[m].count + 1
      BY <2>1, <3>3 DEF NoTable
    <3>5. cache' = [cache EXCEPT ![m] = t]
      BY <2>1, <2>7, Zenon
    <3>6. Become([Top EXCEPT !.holds = TRUE, !.pc = @ + 1])
      BY <2>1, <2>7, Zenon
    <3> HIDE DEF t
    <3> QED
      BY <1>3, <2>1, <2>5, <3>3, <3>4, <3>5, <3>6, HoldStays
  <2> QED
    BY <2>6, <2>7
<1> QED
  BY <1>1, <1>2, <1>3

\* An instruction other than an acquire or a release, failing or going on.
LEMMA InstructionStays ==
  ASSUME CountInv, NEW do, do \notin {"acquire", "release"}, At(do),
         UNCHANGED <<flagged, cache>>,
         \/ Become(Fail(Top))
         \/ Become([Top EXCEPT !.pc = @ + 1])
         \/ \E g \in {"nothing", "good", "bad"} :
               Become([Top EXCEPT !.got = g, !.pc = @ + 1])
         \/ \E b \in BOOLEAN : Become([Top EXCEPT !.saw = b, !.pc = @ + 1])
         \/ \E g \in {"nothing", "good", "bad"} : Become([Top EXCEPT !.got = g])
  PROVE  CountInv'
<1>1. /\ stack # <<>> /\ ~Ended(Top) /\ Top \in FrameRecord /\ Shaped(Top)
      /\ Code(Top)[Top.pc].do \notin {"acquire", "release"}
  BY AtFacts
<1>2. flagged' \in [Members -> BOOLEAN]
  BY DEF CountInv
<1>3. CASE Become(Fail(Top))
  BY <1>1, <1>2, <1>3, FailStays
<1>4. CASE Become([Top EXCEPT !.pc = @ + 1])
  <2> DEFINE f == [Top EXCEPT !.pc = @ + 1]
  <2>1. /\ f \in FrameRecord /\ f.op = Top.op /\ f.holds = Top.holds
        /\ f.pc = Top.pc + 1 /\ f.member = Top.member
    BY <1>1, PcEdit
  <2> QED
    BY <1>1, <1>2, <1>4, <2>1, GoOnStays
<1>5. ASSUME NEW g \in {"nothing", "good", "bad"},
             Become([Top EXCEPT !.got = g, !.pc = @ + 1])
      PROVE  CountInv'
  <2> DEFINE f == [Top EXCEPT !.got = g, !.pc = @ + 1]
  <2>1. /\ f \in FrameRecord /\ f.op = Top.op /\ f.holds = Top.holds
        /\ f.pc = Top.pc + 1 /\ f.member = Top.member
    BY <1>1, GotEdit
  <2> QED
    BY <1>1, <1>2, <1>5, <2>1, GoOnStays
<1>6. ASSUME NEW b \in BOOLEAN, Become([Top EXCEPT !.saw = b, !.pc = @ + 1])
      PROVE  CountInv'
  <2> DEFINE f == [Top EXCEPT !.saw = b, !.pc = @ + 1]
  <2>1. /\ f \in FrameRecord /\ f.op = Top.op /\ f.holds = Top.holds
        /\ f.pc = Top.pc + 1 /\ f.member = Top.member
    BY <1>1, SawEdit
  <2> QED
    BY <1>1, <1>2, <1>6, <2>1, GoOnStays
<1>7. ASSUME NEW g \in {"nothing", "good", "bad"}, Become([Top EXCEPT !.got = g])
      PROVE  CountInv'
  <2> DEFINE f == [Top EXCEPT !.got = g]
  <2>1. /\ f \in FrameRecord /\ f.op = Top.op /\ f.holds = Top.holds
        /\ f.pc = Top.pc /\ f.member = Top.member
    BY <1>1, StayEdit
  <2> HIDE DEF f
  <2>2. Shaped(f)
    BY <1>1, <2>1 DEF Shaped
  <2> QED
    BY <1>1, <1>2, <1>7, <2>1, <2>2, StaySame DEF f
<1> QED
  BY <1>3, <1>4, <1>5, <1>6, <1>7

\* The instructions that end a call early come before its acquire.
LEMMA LeaveStays ==
  ASSUME CountInv, NEW do, do \in Leaving, At(do),
         UNCHANGED <<flagged, cache>>, Become(Leave(Top))
  PROVE  CountInv'
<1> DEFINE n == Len(Code(Top)) + 1
           f == [Top EXCEPT !.pc = n]
<1>1. /\ stack # <<>> /\ Top \in FrameRecord /\ Shaped(Top) /\ Top.op \in Ops
      /\ Top.pc \in 1..Len(Code(Top)) /\ Len(Code(Top)) \in Nat
      /\ Code(Top)[Top.pc].do = do
  BY AtFacts
<1>2. /\ AcquireAt(Top.op) \in Nat /\ ReleaseAt(Top.op) \in 0..Len(Code(Top))
      /\ Top.pc <= AcquireAt(Top.op) \/ ReleaseAt(Top.op) = 0
  BY <1>1, ProgramShape DEF Code, Do
<1>3. n \in Nat \ {0} /\ n > ReleaseAt(Top.op)
  BY <1>1, <1>2
<1>4. ~Top.holds
  BY <1>1, <1>2 DEF Shaped
<1> HIDE DEF n
<1>5. /\ f \in FrameRecord /\ f.op = Top.op /\ f.holds = Top.holds
      /\ f.pc = n /\ f.member = Top.member
  BY <1>1, <1>3, JumpEdit
<1> HIDE DEF f
<1>6. Shaped(f)
  BY <1>2, <1>3, <1>4, <1>5 DEF Shaped
<1>7. flagged' \in [Members -> BOOLEAN]
  BY DEF CountInv
<1> QED
  BY <1>1, <1>5, <1>6, <1>7, StaySame DEF f, n, Leave

\* A call made by a call, or from outside.
LEMMA CallStays ==
  ASSUME CountInv,
         \/ MakeCall
         \/ \E op \in Entries, m \in Members, named \in BOOLEAN : Enter(op, m, named)
  PROVE  CountInv'
<1>1. CASE MakeCall
  <2> DEFINE op == Code(Top)[Top.pc].call
             f  == CallOf(Top, op)
  <2>1. At("call") /\ stack' = Append(stack, f) /\ UNCHANGED <<flagged, cache>>
    BY <1>1 DEF MakeCall, Unchanged
  <2>2. /\ stack # <<>> /\ ~Ended(Top) /\ Top \in FrameRecord
        /\ Code(Top)[Top.pc].do = "call" /\ Top.op \in Ops
        /\ Top.pc \in 1..Len(Code(Top)) /\ Top.member \in Members
        /\ Len(Code(Top)) \in Nat
    BY <2>1, AtFacts
  <2>3. op \in Ops /\ Calling(Top)
    BY <2>2, ProgramShape DEF Code, Do, Calling
  <2>4. Top.got \in {"nothing", "good", "bad"}
    BY <2>2 DEF FrameRecord
  <2> HIDE DEF op
  <2>5. f \in FrameRecord /\ Shaped(f) /\ ~f.holds
    <3>1. CASE op = "load_attributes"
      <4>1. f = Frame(op, Attributes, TRUE)
        BY <3>1 DEF CallOf
      <4> QED
        BY <2>3, <2>4, <4>1, FrameShaped, MembersAssumption
    <3>2. CASE op = "verify_data"
      <4>1. f = [Frame(op, Top.member, FALSE) EXCEPT !.got = Top.got]
        BY <3>2 DEF CallOf
      <4> QED
        BY <2>2, <2>3, <2>4, <4>1, FrameShaped
    <3>3. CASE op \notin {"load_attributes", "verify_data"}
      <4>1. f = Frame(op, Top.member, FALSE)
        BY <3>3 DEF CallOf
      <4> QED
        BY <2>2, <2>3, <2>4, <4>1, FrameShaped
    <3> QED
      BY <3>1, <3>2, <3>3
  <2> QED
    BY <2>1, <2>3, <2>5, PushStays
<1>2. ASSUME NEW op \in Entries, NEW m \in Members, NEW named \in BOOLEAN,
             Enter(op, m, named)
      PROVE  CountInv'
  <2> DEFINE f == Frame(op, m, named)
  <2>1. stack = <<>> /\ stack' = <<f>> /\ UNCHANGED <<flagged, cache>>
    BY <1>2 DEF Enter, Unchanged
  <2>2. op \in Ops
    BY DEF Entries, Ops
  <2>3. f \in FrameRecord /\ Shaped(f) /\ ~f.holds
    BY <2>2, FrameShaped
  <2> HIDE DEF f
  <2>4. stack' = Append(stack, f)
    BY <2>1
  <2> QED
    BY <2>1, <2>3, <2>4, PushStays
<1> QED
  BY <1>1, <1>2

\* Every step keeps the counts.
LEMMA CountStep == CountInv /\ [Next]_vars => CountInv'
<1> SUFFICES ASSUME CountInv, [Next]_vars PROVE CountInv'
  OBVIOUS
<1> USE DEF Unchanged
<1>1. CASE Read
  <2>1. Deciphered(Top.member) # "refused" =>
          Deciphered(Top.member) \in {"nothing", "good", "bad"}
    BY DEF Deciphered
  <2> QED
    BY <1>1, <2>1, InstructionStays, Zenon DEF Read
<1>2. CASE Fetch
  BY <1>2, InstructionStays, Zenon DEF Fetch
<1>3. CASE Serve
  <2>1. Deciphered(Top.member) # "refused" =>
          Deciphered(Top.member) \in {"nothing", "good", "bad"}
    BY DEF Deciphered
  <2> QED
    BY <1>3, <2>1, InstructionStays, Zenon DEF Serve
<1>4. CASE ReadFails
  BY <1>4, InstructionStays, Zenon DEF ReadFails
<1>5. CASE NeedKey
  BY <1>5, InstructionStays, Zenon DEF NeedKey
<1>6. CASE NoteFlags
  <2>1. At("note_flags")
    BY <1>6 DEF NoteFlags
  <2>2. flagged[Top.member] \in BOOLEAN
    BY <2>1, AtFacts DEF CountInv
  <2>3. \/ Become(Leave(Top))
        \/ \E b \in BOOLEAN : Become([Top EXCEPT !.saw = b, !.pc = @ + 1])
    BY <1>6, <2>2, Zenon DEF NoteFlags
  <2>4. UNCHANGED <<flagged, cache>> /\ "note_flags" \in Leaving
    BY <1>6 DEF NoteFlags, Leaving
  <2> QED
    BY <2>1, <2>3, <2>4, InstructionStays, LeaveStays, Zenon
<1>7. CASE Prefix
  <2> DEFINE bytes == IF Top.saw THEN Deciphered(Top.member)
                      ELSE IF Kind[Top.member].encrypted /\ ~Kind[Top.member].short
                      THEN "bad" ELSE "good"
  <2>1. bytes # "refused" => bytes \in {"nothing", "good", "bad"}
    BY DEF Deciphered
  <2>2. /\ At("prefix") /\ UNCHANGED <<flagged, cache>>
        /\ IF bytes = "refused" THEN Become(Fail(Top))
           ELSE Become([Top EXCEPT !.got = bytes, !.pc = @ + 1])
    BY <1>7, Zenon DEF Prefix
  <2> HIDE DEF bytes
  <2> QED
    BY <2>1, <2>2, InstructionStays, Zenon
<1>8. CASE SkipMetadata
  <2>1. /\ At("skip_metadata") /\ UNCHANGED <<flagged, cache>>
        /\ \/ Become(Leave(Top))
           \/ Become([Top EXCEPT !.pc = @ + 1])
        /\ "skip_metadata" \in Leaving
    BY <1>8, Zenon DEF SkipMetadata, Leaving
  <2> QED
    BY <2>1, InstructionStays, LeaveStays, Zenon
<1>9. CASE Compare
  BY <1>9, InstructionStays, Zenon DEF Compare
<1>10. CASE Cached
  <2>1. /\ At("cached") /\ UNCHANGED <<flagged, cache>>
        /\ \/ Become(Leave(Top))
           \/ Become(Fail(Top))
           \/ Become([Top EXCEPT !.pc = @ + 1])
        /\ "cached" \in Leaving
    BY <1>10, Zenon DEF Cached, Leaving
  <2> QED
    BY <2>1, InstructionStays, LeaveStays, Zenon
<1>11. CASE Parse
  BY <1>11, InstructionStays, Zenon DEF Parse
<1>13. CASE Tabled
  <2>1. /\ At("tabled") /\ UNCHANGED <<flagged, cache>>
        /\ \/ Become(Leave(Top))
           \/ Become([Top EXCEPT !.pc = @ + 1])
        /\ "tabled" \in Leaving
    BY <1>13, Zenon DEF Tabled, Leaving
  <2> QED
    BY <2>1, InstructionStays, LeaveStays, Zenon
<1>14. CASE PassOver
  BY <1>14, InstructionStays, Zenon DEF PassOver
<1>12. CASE UNCHANGED vars
  BY <1>12 DEF vars, CountInv, CountsHolders, Holders
<1> QED
  BY <1>1, <1>2, <1>3, <1>4, <1>5, <1>6, <1>7, <1>8, <1>9, <1>10, <1>11, <1>12,
     <1>13, <1>14, AcquireStays, ReleaseStays, CallStays, ReturnStays, Zenon DEF Next

\* open_count is always the number of calls in progress that will release the
\* table, for every archive and every nesting of calls.
THEOREM CountsAreHolders == Spec => []CountsHolders
<1>1. CountInv => CountsHolders
  BY DEF CountInv
<1> QED
  BY <1>1, CountStarts, CountStep, PTL DEF Spec
=============================================================================
