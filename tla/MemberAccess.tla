---------------------------- MODULE MemberAccess ----------------------------
(***************************************************************************)
(* The cached sector-offset tables of an open archive and the calls that   *)
(* share them: mpq-reader.c, mpq-verify.c, the loading of (attributes) in  *)
(* mpq-attributes.c, and the named reads of the updater and of patches.    *)
(*                                                                         *)
(* A call is a frame of the call stack.  It runs its program one           *)
(* instruction at a time; an instruction that fails sends the call to the  *)
(* release of the table it holds, or out.  Sector data is abstracted to    *)
(* whether it is deciphered with the right key.                            *)
(***************************************************************************)
EXTENDS Integers, Sequences, FiniteSets

CONSTANTS Members,       \* the archive's members
          Kind,          \* what the archive holds of each member
          Attributes,    \* the member (attributes)
          Signature      \* the member (signature)

\* Kind[m].sectored   compressed in sectors behind an offset table
\* Kind[m].single     compressed as one unit
\* Kind[m].encrypted  the payload, and the offset table, are encrypted
\* Kind[m].flagged    the block table says so
\* Kind[m].damaged    the first word of the offset table is wrong
\* Kind[m].short      the payload is shorter than one cipher word
\* Kind[m].guess      the key found without a name: right, wrong or none
ASSUME MembersAssumption ==
    /\ Attributes \in Members /\ Signature \in Members
    /\ Kind \in [Members -> [sectored: BOOLEAN, single: BOOLEAN,
                             encrypted: BOOLEAN, flagged: BOOLEAN,
                             damaged: BOOLEAN, short: BOOLEAN,
                             guess: {"right", "wrong", "none"}]]
    /\ \A m \in Members :
          /\ ~(Kind[m].sectored /\ Kind[m].single)
          /\ Kind[m].flagged => Kind[m].encrypted
          /\ Kind[m].encrypted /\ ~Kind[m].sectored => Kind[m].flagged
          /\ Kind[m].sectored => Kind[m].guess # "wrong"

VARIABLES flagged,       \* LIBMPQ_FLAG_ENCRYPTED in the block table in memory
          cache,         \* mpq_file: open_count and key of each table
          stack,         \* the calls in progress, the caller first
          attributes     \* "unread", "read", or "refused" for good

vars == <<flagged, cache, stack, attributes>>

NoTable == [count |-> 0, key |-> "none"]

----------------------------------------------------------------------------
(* The programs of the calls                                               *)

Step(do) == [do |-> do, call |-> "none", strict |-> TRUE]
Call(op) == [do |-> "call", call |-> op, strict |-> TRUE]
Try(op)  == [do |-> "call", call |-> op, strict |-> FALSE]

\* libmpq__reader_sector_checksums
SectorChecksums == <<Step("acquire"), Step("fetch"), Step("release")>>

\* libmpq__reader_file_read
FileRead == <<Step("acquire"), Try("sector_checksums"), Step("read"),
              Step("release"), Call("verify_data")>>

\* libmpq__attributes_verify_data
VerifyData == <<Step("skip_metadata"), Try("load_attributes"), Step("compare")>>

\* load_attributes of mpq-attributes.c
LoadAttributes == <<Step("cached"), Step("acquire"), Call("file_read"),
                    Step("release"), Step("parse")>>

\* libmpq__reader_block_read
BlockRead == <<Step("acquire"), Step("read"), Step("release")>>

\* libmpq__verify_block
VerifyBlock == <<Step("acquire"), Call("sector_checksums"),
                 Call("block_read"), Step("release")>>

\* libmpq__verify_file, asked for attribute digests and sector checksums
VerifyFile == <<Call("load_attributes"), Step("acquire"),
                Call("sector_checksums"), Step("read"), Step("compare"),
                Step("release")>>

\* libmpq__reader_block_size_packed
BlockSizePacked == <<Step("tabled"), Step("acquire"), Step("release")>>

\* Mutant: the flags are taken before the offset table has been looked at.
BlockCompressionEarly ==
    <<Step("note_flags"), Call("block_size_packed"), Step("acquire"),
      Step("prefix"), Step("release")>>

\* libmpq__reader_block_compression
BlockCompression ==
    <<Call("block_size_packed"), Step("note_flags"), Step("acquire"),
      Step("prefix"), Step("release")>>

\* patch_read_adjusted, patch_writer_read_base, update_validate_member
ReadNamed == <<Step("acquire"), Call("file_read"), Step("release")>>

\* stream_adopt, libmpq__reader_stream_read and _close.  The private clone has
\* a cache of its own, and flags as on disk: here any the archive comes to.
Stream == <<Step("acquire"), Step("need_key"), Try("sector_checksums"),
            Step("serve"), Step("release")>>

Program ==
    [sector_checksums  |-> SectorChecksums,  file_read    |-> FileRead,
     verify_data       |-> VerifyData,       block_read   |-> BlockRead,
     load_attributes   |-> LoadAttributes,   verify_block |-> VerifyBlock,
     verify_file       |-> VerifyFile,       read_named   |-> ReadNamed,
     block_size_packed |-> BlockSizePacked,  stream       |-> Stream,
     block_compression |-> BlockCompression]

\* The calls a program using the library makes.
Entries == {"file_read", "block_read", "verify_block", "verify_file",
            "block_compression", "read_named", "stream"}

Frame(op, m, named) ==
    [op |-> op, member |-> m, named |-> named, pc |-> 1, holds |-> FALSE,
     failed |-> FALSE, got |-> "nothing", saw |-> FALSE]

Top == stack[Len(stack)]

Code(f) == Program[f.op]

Ended(f) == f.pc > Len(Code(f))

At(do) == stack # <<>> /\ ~Ended(Top) /\ Code(Top)[Top.pc].do = do

\* The call goes to the release of the table it holds, or ends.
Fail(f) ==
    [f EXCEPT !.failed = TRUE,
              !.pc = IF f.holds
                     THEN CHOOSE i \in 1..Len(Code(f)) : Code(f)[i].do = "release"
                     ELSE Len(Code(f)) + 1]

\* After its release a call that failed ends.
Advance(f) ==
    [f EXCEPT !.pc = IF f.failed THEN Len(Code(f)) + 1 ELSE f.pc + 1]

Become(f) == stack' = [stack EXCEPT ![Len(stack)] = f]

\* Past the last instruction.
Leave(f) == [f EXCEPT !.pc = Len(Code(f)) + 1]

----------------------------------------------------------------------------
(* The cache                                                               *)

\* A wrong first offset shows that a table is encrypted, flagged or not.
Exposed(m) == Kind[m].sectored /\ (Kind[m].encrypted \/ Kind[m].damaged)

\* Whether the block table says ENCRYPTED once the table has been read.
FlaggedAfter(m, flag) == flag \/ Exposed(m)

\* The key an encrypted offset table is deciphered with, by name or derived;
\* the table must then begin with its own size.
TableKey(m, named) ==
    LET key == IF named THEN "name" ELSE Kind[m].guess
    IN IF key = "none" \/ Kind[m].damaged \/ ~Kind[m].encrypted
       THEN "refused" ELSE key

\* Mutant: a raw encrypted member is searched for a key it already has.
PayloadKeySearched(m, named, flag) ==
    CASE flag /\ ~Kind[m].short /\ ~Kind[m].single ->
           IF Kind[m].guess = "none" THEN "refused" ELSE Kind[m].guess
      [] OTHER -> IF named THEN "name" ELSE "none"

\* Without a table, the key of a raw encrypted member opened without its name
\* is recovered from what its first block should begin with.
PayloadKey(m, named, flag) ==
    CASE named -> "name"
      [] ~named /\ flag /\ ~Kind[m].short /\ ~Kind[m].single ->
           IF Kind[m].guess = "none" THEN "refused" ELSE Kind[m].guess
      [] OTHER -> "none"

\* What opening member m anew ends in when nothing fails to be read: the key
\* it leaves in the cache, or "refused".
OpenOutcome(m, named, flag) ==
    IF Kind[m].sectored /\ FlaggedAfter(m, flag) THEN TableKey(m, named)
    ELSE IF Kind[m].sectored THEN IF named THEN "name" ELSE "none"
    ELSE PayloadKey(m, named, flag)

\* libmpq__reader_offsets_acquire of a table that is cached: a named open
\* gives its key to an entry that has none.
AcquireCached ==
    /\ At("acquire") /\ cache[Top.member] # NoTable
    /\ LET m == Top.member IN
       cache' = [cache EXCEPT
                   ![m] = [count |-> cache[m].count + 1,
                           key   |-> IF Top.named /\ cache[m].key = "none"
                                     THEN "name" ELSE cache[m].key]]
    /\ Become([Top EXCEPT !.holds = TRUE, !.pc = @ + 1])
    /\ UNCHANGED <<flagged, attributes>>

\* Mutant: the entry is flagged although its table could not be read.
AcquireFailsFlagging ==
    /\ At("acquire") /\ cache[Top.member] = NoTable
    /\ Become(Fail(Top))
    /\ flagged' = [flagged EXCEPT ![Top.member] = @ \/ Kind[Top.member].sectored]
    /\ UNCHANGED <<cache, attributes>>

\* Memory or the source fails before the table is judged.
AcquireFails ==
    /\ At("acquire") /\ cache[Top.member] = NoTable
    /\ Become(Fail(Top))
    /\ UNCHANGED <<flagged, cache, attributes>>

\* A new table.  The flag stays set when the open fails after it was set.
AcquireNew ==
    /\ At("acquire") /\ cache[Top.member] = NoTable
    /\ LET m   == Top.member
           key == OpenOutcome(m, Top.named, flagged[m])
       IN /\ flagged' = [flagged EXCEPT ![m] = FlaggedAfter(m, @)]
          /\ IF key = "refused"
             THEN Become(Fail(Top)) /\ UNCHANGED cache
             ELSE /\ cache' = [cache EXCEPT ![m] = [count |-> 1, key |-> key]]
                  /\ Become([Top EXCEPT !.holds = TRUE, !.pc = @ + 1])
    /\ UNCHANGED attributes

\* Mutant: the table is freed while a caller still holds it.
ReleaseFrees ==
    /\ At("release")
    /\ cache' = [cache EXCEPT ![Top.member] = NoTable]
    /\ Become([Advance(Top) EXCEPT !.holds = FALSE])
    /\ UNCHANGED <<flagged, attributes>>

\* libmpq__reader_offsets_release
Release ==
    /\ At("release")
    /\ LET m == Top.member IN
       cache' = [cache EXCEPT
                   ![m] = IF cache[m].count = 1 THEN NoTable
                          ELSE [cache[m] EXCEPT !.count = cache[m].count - 1]]
    /\ Become([Advance(Top) EXCEPT !.holds = FALSE])
    /\ UNCHANGED <<flagged, attributes>>

----------------------------------------------------------------------------
(* The other instructions                                                  *)

Unchanged == UNCHANGED <<flagged, cache, attributes>>

\* What deciphering a sector of m with the cached key gives.
Deciphered(m) ==
    IF flagged[m] /\ ~Kind[m].short
    THEN CASE cache[m].key = "none"  -> "refused"
           [] cache[m].key = "wrong" -> "bad"
           [] OTHER                  -> "good"
    ELSE IF Kind[m].encrypted /\ ~Kind[m].short THEN "bad" ELSE "good"

\* libmpq__reader_block_read_acquired of all blocks asked for.
Read ==
    /\ At("read")
    /\ LET bytes == Deciphered(Top.member) IN
       IF cache[Top.member] = NoTable \/ bytes = "refused"
       THEN Become(Fail(Top))
       ELSE Become([Top EXCEPT !.got = bytes, !.pc = @ + 1])
    /\ Unchanged

\* The sector checksums are not encrypted; a member not compressed in sectors
\* has none to fetch.
Fetch ==
    /\ At("fetch")
    /\ Become([Top EXCEPT !.pc = @ + 1])
    /\ Unchanged

\* A stream reads any number of times before it is closed.
Serve ==
    /\ At("serve")
    /\ \/ /\ Deciphered(Top.member) # "refused"
          /\ Become([Top EXCEPT !.got = Deciphered(Top.member)])
       \/ Become([Top EXCEPT !.pc = @ + 1])
    /\ Unchanged

\* The source, memory or a codec fails, or a sector checksum differs.
ReadFails ==
    /\ At("read") \/ (At("fetch") /\ Kind[Top.member].sectored)
    /\ Become(Fail(Top))
    /\ Unchanged

\* stream_adopt refuses a member whose first block it could not decipher.
NeedKey ==
    /\ At("need_key")
    /\ IF flagged[Top.member] /\ ~Kind[Top.member].short
          /\ cache[Top.member].key = "none"
       THEN Become(Fail(Top))
       ELSE Become([Top EXCEPT !.pc = @ + 1])
    /\ Unchanged

\* Only a member in sectors has an offset table to look into.
Tabled ==
    /\ At("tabled")
    /\ IF Kind[Top.member].sectored
       THEN Become([Top EXCEPT !.pc = @ + 1])
       ELSE Become(Leave(Top))
    /\ Unchanged

\* A block that is stored as it is has no method byte.
NoteFlags ==
    /\ At("note_flags")
    /\ \/ Become(Leave(Top))
       \/ /\ Kind[Top.member].sectored \/ Kind[Top.member].single
          /\ Become([Top EXCEPT !.saw = flagged[Top.member], !.pc = @ + 1])
    /\ Unchanged

\* read_packed of the method byte: one byte, or a whole cipher word where the
\* flags call for it.
Prefix ==
    /\ At("prefix")
    /\ LET m     == Top.member
           bytes == IF Top.saw THEN Deciphered(m)
                    ELSE IF Kind[m].encrypted /\ ~Kind[m].short THEN "bad"
                    ELSE "good"
       IN IF bytes = "refused" THEN Become(Fail(Top))
          ELSE Become([Top EXCEPT !.got = bytes, !.pc = @ + 1])
    /\ Unchanged

\* Mutant: no member is exempt.
ExemptNone(m) == FALSE

\* Loading the attributes of the attributes would not end.
Exempt(m) == m \in {Attributes, Signature}

SkipMetadata ==
    /\ At("skip_metadata")
    /\ IF Exempt(Top.member)
       THEN Become(Leave(Top))
       ELSE Become([Top EXCEPT !.pc = @ + 1])
    /\ Unchanged

\* The digests are compared when there are any; unusable ones are passed over.
\* A difference fails a complete read and is what verify_file reports.
Compare ==
    /\ At("compare")
    /\ IF attributes = "read" /\ Top.got = "bad"
       THEN Become(Fail(Top))
       ELSE Become([Top EXCEPT !.pc = @ + 1])
    /\ Unchanged

\* Attributes that were read or refused for good are not read again; they may
\* be absent, of an impossible size, or there is no memory for them.
Cached ==
    /\ At("cached")
    /\ \/ attributes = "read" /\ Become(Leave(Top))
       \/ attributes # "read" /\ Become(Fail(Top))
       \/ attributes = "unread" /\ Become([Top EXCEPT !.pc = @ + 1])
    /\ Unchanged

Parse ==
    /\ At("parse")
    /\ \/ attributes' = "read" /\ Become([Top EXCEPT !.pc = @ + 1])
       \/ UNCHANGED attributes /\ Become(Fail(Top))
    /\ UNCHANGED <<flagged, cache>>

CallOf(f, op) ==
    CASE op = "load_attributes" -> Frame(op, Attributes, TRUE)
      [] op = "verify_data"     -> [Frame(op, f.member, FALSE) EXCEPT !.got = f.got]
      [] OTHER                  -> Frame(op, f.member, FALSE)

\* Sector checksums are verified only where there are any.
Needless(f, op) ==
    f.op = "verify_file" /\ op = "sector_checksums" /\ ~Kind[f.member].sectored

\* Lossy sound is not compared with the digests of what it was made from.
PassOver ==
    /\ At("call")
    /\ LET op == Code(Top)[Top.pc].call IN Needless(Top, op) \/ op = "verify_data"
    /\ Become([Top EXCEPT !.pc = @ + 1])
    /\ Unchanged

MakeCall ==
    /\ At("call") /\ ~Needless(Top, Code(Top)[Top.pc].call)
    /\ stack' = Append(stack, CallOf(Top, Code(Top)[Top.pc].call))
    /\ Unchanged

Caller == stack[Len(stack) - 1]

\* What is remembered of attributes that could not be loaded: LIBMPQ_ERROR_FORMAT
\* and their absence are, other failures are not.
Remembered ==
    IF Top.op = "load_attributes" /\ Top.failed
    THEN {attributes, "refused"} ELSE {attributes}

\* The call returns; its caller goes on, or fails with it.
Return ==
    /\ stack # <<>> /\ Ended(Top)
    /\ attributes' \in Remembered
    /\ LET rest == SubSeq(stack, 1, Len(stack) - 1)
           on   == IF Top.failed /\ Code(Caller)[Caller.pc].strict
                   THEN Fail(Caller) ELSE [Caller EXCEPT !.pc = @ + 1]
       IN stack' = IF rest = <<>> THEN <<>>
                   ELSE [rest EXCEPT ![Len(rest)] = on]
    /\ UNCHANGED <<flagged, cache>>

\* A call from outside.  Only a named read, or a stream opened by name, knows
\* the member's name; a block is verified by its sector checksum alone.
Enter(op, m, named) ==
    /\ stack = <<>>
    /\ op = "verify_block" => Kind[m].sectored
    /\ named = (op = "read_named") \/ op = "stream"
    /\ stack' = <<Frame(op, m, named)>>
    /\ Unchanged

Init ==
    /\ flagged = [m \in Members |-> Kind[m].flagged]
    /\ cache = [m \in Members |-> NoTable]
    /\ stack = <<>>
    /\ attributes = "unread"

Next ==
    \/ \E op \in Entries, m \in Members, named \in BOOLEAN : Enter(op, m, named)
    \/ AcquireCached \/ AcquireFails \/ AcquireNew \/ Release
    \/ Read \/ Fetch \/ Serve \/ ReadFails \/ NeedKey \/ Tabled \/ NoteFlags
    \/ Prefix \/ SkipMetadata \/ Compare \/ Cached \/ Parse
    \/ MakeCall \/ PassOver \/ Return

Spec == Init /\ [][Next]_vars

----------------------------------------------------------------------------
(* Properties                                                              *)

Holders(m) == {i \in 1..Len(stack) : stack[i].holds /\ stack[i].member = m}

\* open_count is the number of calls that will release the table, on every
\* path through nested and failing calls: no call finds its table freed, and
\* none is left behind when the outermost call has returned.
CountsHolders == \A m \in Members : cache[m].count = Cardinality(Holders(m))

\* A call made under an open by name deciphers with the name's key, never
\* with one that was guessed, although inner calls open the member without
\* its name (mpq-reader.c:746).
NamedReadsDecipher ==
    \A i \in 1..Len(stack) :
       stack[i].holds /\ stack[i].named => cache[stack[i].member].key = "name"

\* Opening a member ends as it would have in the archive as it was read from
\* disk, whatever was opened, refused or failed before: the flag an open may
\* leave in the block table (mpq-reader.c:828) changes no later answer.
OpensRepeatable ==
    \A m \in Members : \A named \in BOOLEAN :
       OpenOutcome(m, named, flagged[m]) = OpenOutcome(m, named, Kind[m].flagged)

\* The method byte reported for a block is a deciphered one, also for the
\* member whose encryption only its offset table gives away.
MethodByteDeciphered ==
    \A i \in 1..Len(stack) :
       stack[i].op = "block_compression" => stack[i].got # "bad"

\* Reading the attributes never comes to need the attributes: verification of
\* complete reads does not recurse.
AttributesLoadedOnce ==
    \A i, j \in 1..Len(stack) :
       stack[i].op = "load_attributes" /\ stack[j].op = "load_attributes" => i = j
=============================================================================
