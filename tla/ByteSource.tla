----------------------------- MODULE ByteSource -----------------------------
(***************************************************************************)
(* The byte sources under the reader, mpq-source.c and mpq-mpqe.c, while   *)
(* the archive's path may come to name another file: opening a path,       *)
(* cloning an open archive for a stream, and reading a range from a plain  *)
(* file, an encrypted container or the application's callbacks.            *)
(*                                                                         *)
(* The i-th byte of the k-th file published under the path is <<k, i>>.    *)
(* An encrypted container is kept in chunks of ChunkSize bytes, each under *)
(* a key stream that depends on its place.                                 *)
(***************************************************************************)
EXTENDS Integers, Sequences, FiniteSets

CONSTANTS FileSizes,     \* the size of each file published in turn
          Inodes,        \* names the file system gives to open or linked files
          Streams,       \* handles for private clones
          SourceKind,    \* "file", "mpqe" or "custom"
          ChunkSize,     \* LIBMPQ_MPQE_CHUNK_SIZE
          BatchChunks    \* chunks per LIBMPQ_MPQE_READ_BUFFER_SIZE

\* the handle that clones are made of
Archive == "archive"

ASSUME SourceAssumption ==
    /\ Archive \notin Streams
    /\ FileSizes \in Seq(Nat \ {0}) /\ FileSizes # <<>>
    /\ Cardinality(Inodes) > Cardinality(Streams) + 2
    /\ SourceKind \subseteq {"file", "mpqe", "custom"}
    /\ ChunkSize \in Nat \ {0} /\ BatchChunks \in Nat \ {0}

VARIABLES published,     \* how many files the path has named
          path,          \* the inode it names now
          file,          \* which of the files an inode holds
          opened,        \* the open sources
          request        \* the read in progress or just answered

fvars == <<published, path, file, opened, request>>

Handles == Streams \cup {Archive}

Closed    == [status |-> "closed"]
NoRequest == [status |-> "none"]

BatchSize == BatchChunks * ChunkSize

LeastOf(a, b) == IF a < b THEN a ELSE b

RoundUp(n) == ((n + ChunkSize - 1) \div ChunkSize) * ChunkSize

RoundDown(n) == (n \div ChunkSize) * ChunkSize

Available(h) == opened[h].status = "ready"

----------------------------------------------------------------------------
(* The file system                                                         *)

Referenced == {path} \cup {opened[h].inode : h \in {g \in Handles : opened[g] # Closed}}

\* An update is published: another file is renamed over the path.  Inodes
\* that nothing refers to any more are given out again.
Publish ==
    /\ published < Len(FileSizes)
    /\ published' = published + 1
    /\ \E i \in Inodes \ Referenced :
          path' = i /\ file' = [file EXCEPT ![i] = published + 1]
    /\ UNCHANGED <<opened, request>>

----------------------------------------------------------------------------
(* Opening and cloning                                                     *)

\* The application makes one call at a time.
NotReading == request = NoRequest /\ UNCHANGED request

\* libmpq__source_open_common and the variants over it: the size is captured.
Source(kind, inode, status, of) ==
    [status |-> status, kind |-> kind, inode |-> inode,
     size |-> FileSizes[file[inode]], of |-> of]

OpenArchive(kind) ==
    /\ opened[Archive] = Closed /\ NotReading
    /\ opened' = [opened EXCEPT ![Archive] = Source(kind, path, "ready", file[path])]
    /\ UNCHANGED <<published, path, file>>

\* libmpq__source_clone: callbacks are copied, anything else is opened anew
\* by its path.
CloneSource(s) ==
    /\ Available(Archive) /\ opened[s] = Closed /\ NotReading
    /\ LET from  == opened[Archive]
           inode == IF from.kind = "custom" THEN from.inode ELSE path
       IN opened' = [opened EXCEPT
                       ![s] = Source(from.kind, inode, "cloned", from.of)]
    /\ UNCHANGED <<published, path, file>>

\* Mutant: the file found under the path is taken for the archive.
CloneUnchecked(s) ==
    /\ opened[s].status = "cloned" /\ NotReading
    /\ opened' = [opened EXCEPT ![s].status = "ready"]
    /\ UNCHANGED <<published, path, file>>

\* libmpq__reader_archive_clone: the identities of the two open files, device
\* and inode, must agree where the source has one.  The clone is discarded when
\* they do not, or when it cannot be opened as an archive.
CheckClone(s) ==
    /\ opened[s].status = "cloned" /\ NotReading
    /\ \/ opened' = [opened EXCEPT ![s] = Closed]
       \/ /\ \/ opened[s].kind = "custom"
             \/ opened[s].inode = opened[Archive].inode
          /\ opened' = [opened EXCEPT ![s] = [opened[s] EXCEPT !.status = "ready"]]
    /\ UNCHANGED <<published, path, file>>

\* The archive is not closed under a clone that is being made.
Close(h) ==
    /\ Available(h) /\ NotReading
    /\ h = Archive => \A s \in Streams : opened[s].status # "cloned"
    /\ opened' = [opened EXCEPT ![h] = Closed]
    /\ UNCHANGED <<published, path, file>>

----------------------------------------------------------------------------
(* Reading                                                                 *)

\* libmpq__source_read_at: a range beyond the captured size is refused.
BeginRead(h, offset, size) ==
    /\ Available(h) /\ request = NoRequest
    /\ request' = [status |-> IF offset > opened[h].size
                                 \/ size > opened[h].size - offset
                              THEN "refused" ELSE "busy",
                   handle |-> h, offset |-> offset, size |-> size,
                   buffer |-> <<>>]
    /\ UNCHANGED <<published, path, file, opened>>

\* The plain bytes first..last - 1 of the file behind a handle.
Bytes(h, first, last) ==
    [i \in 1..(last - first) |-> <<file[opened[h].inode], first + i - 1>>]

\* What is stored of them in an encrypted container, and what deciphering a
\* batch that is taken to begin at place base makes of that.
Enciphered(bytes) == [i \in 1..Len(bytes) |->
                        [byte |-> bytes[i], chunk |-> RoundDown(bytes[i][2])]]

\* Mutant: the key stream starts with the batch.
DecipheredFromStart(cells, base) ==
    [i \in 1..Len(cells) |->
        IF cells[i].chunk = RoundDown(i - 1) THEN cells[i].byte ELSE <<0, 0>>]

\* libmpq__mpqe_transform_chunk over the batch
Deciphering(cells, base) ==
    [i \in 1..Len(cells) |->
        IF cells[i].chunk = base + RoundDown(i - 1) THEN cells[i].byte ELSE <<0, 0>>]

Copied == Len(request.buffer)

\* One turn of source_mpqe_read_at: the chunks around the bytes still missing,
\* as many as the batch holds.
ReadBatch ==
    /\ request.status = "busy" /\ opened[request.handle].kind = "mpqe"
    /\ Copied < request.size
    /\ LET h         == request.handle
           wanted    == request.offset + Copied
           first     == RoundDown(wanted)
           required  == LeastOf(RoundUp(request.offset + request.size - first), BatchSize)
           physical  == LeastOf(opened[h].size - first, required)
           plain     == Deciphering(Enciphered(Bytes(h, first, first + physical)), first)
           available == LeastOf(physical - (wanted - first), request.size - Copied)
       IN request' =
            IF first >= opened[h].size \/ physical <= wanted - first
            THEN [request EXCEPT !.status = "refused"]
            ELSE [request EXCEPT
                    !.buffer = @ \o SubSeq(plain, wanted - first + 1,
                                           wanted - first + available)]
    /\ UNCHANGED <<published, path, file, opened>>

\* file_backend_read_at and custom_backend_read_at: the whole range at once.
ReadRange ==
    /\ request.status = "busy" /\ opened[request.handle].kind # "mpqe"
    /\ Copied < request.size
    /\ request' = [request EXCEPT
                     !.buffer = Bytes(request.handle, request.offset,
                                      request.offset + request.size)]
    /\ UNCHANGED <<published, path, file, opened>>

EndRead ==
    /\ request.status = "busy" /\ Copied = request.size
    /\ request' = [request EXCEPT !.status = "done"]
    /\ UNCHANGED <<published, path, file, opened>>

\* The backend returns an error.
ReadBreaks ==
    /\ request.status = "busy" /\ Copied < request.size
    /\ request' = [request EXCEPT !.status = "refused"]
    /\ UNCHANGED <<published, path, file, opened>>

\* The caller has used the answer.
TakeAnswer ==
    /\ request.status \in {"done", "refused"}
    /\ request' = NoRequest
    /\ UNCHANGED <<published, path, file, opened>>

SourceInit ==
    /\ published = 1
    /\ \E i \in Inodes :
          path = i /\ file = [j \in Inodes |-> IF j = i THEN 1 ELSE 0]
    /\ opened = [h \in Handles |-> Closed]
    /\ request = NoRequest

SourceNext ==
    \/ Publish
    \/ \E kind \in SourceKind : OpenArchive(kind)
    \/ \E s \in Streams : CloneSource(s) \/ CheckClone(s)
    \/ \E h \in Handles : Close(h)
    \/ \E h \in Handles, offset \in 0..FileSizes[1], size \in 0..FileSizes[1] :
          BeginRead(h, offset, size)
    \/ ReadBatch \/ ReadRange \/ EndRead \/ ReadBreaks \/ TakeAnswer

SourceSpec == SourceInit /\ [][SourceNext]_fvars

----------------------------------------------------------------------------
(* Properties                                                              *)

\* A clone that a stream uses reads the file its archive was opened on, so
\* that member numbers mean the same in both, whenever the path is replaced
\* and however inodes are given out again: the archive's own open file keeps
\* its inode from being reused while clones are compared with it.
StreamsReadTheirArchive ==
    \A s \in Streams :
       Available(s) => file[opened[s].inode] = opened[s].of

\* A read that succeeds returns the bytes of the range asked for, wherever it
\* falls on the chunks and batches of an encrypted container and its end.
ReadsAreSlices ==
    request.status = "done" =>
      request.buffer = Bytes(request.handle, request.offset,
                             request.offset + request.size)
=============================================================================
