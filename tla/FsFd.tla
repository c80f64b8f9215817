-------------------------------- MODULE FsFd ---------------------------------
(***************************************************************************)
(* The fd table of one session: allocation of the minimum free fd with a   *)
(* hint, and the cursor and length each fd keeps beside its content file.  *)
(* Tables of different sessions share nothing but the files.  What a file  *)
(* holds is left out; its length is kept, since reads are clamped by the   *)
(* length the fd remembers and fail past the end of the file.              *)
(***************************************************************************)
EXTENDS Integers

CONSTANTS
    File,      \* content files
    MaxFd,     \* u32::MAX: the last fd
    MaxLen,    \* bound on offsets and lengths
    IoSizes    \* sizes of reads and writes, at most FS_IO_MAX_BYTES

ASSUME FdAssumption ==
    /\ MaxFd \in Nat /\ MaxLen \in Nat
    /\ IoSizes \subseteq Nat

Fd == 0..MaxFd
Offset == 0..MaxLen
Entries == [file : File, cursor : Offset, length : Offset,
            read : BOOLEAN, write : BOOLEAN]

VARIABLES
    open,      \* the fds in use: the keys of FdTable.entries
    entry,     \* Fd -> FdEntry, for the fds in use
    hint,      \* FdTable.next_hint
    len        \* File -> length of the content file

vars == <<open, entry, hint, len>>

Init ==
    /\ open = {}
    /\ entry \in [Fd -> {e \in Entries : e.cursor = 0 /\ e.length = 0
                                         /\ ~e.read /\ ~e.write}]
    /\ hint = 0
    /\ len = [f \in File |-> 0]

Larger(a, b) == IF a >= b THEN a ELSE b
Smaller(a, b) == IF a <= b THEN a ELSE b

(* FdTable::insert.  The loop walks up from the hint to the first free fd; *)
(* when it runs out of fds the open fails.  The hint wraps in the build    *)
(* without overflow checks.                                                *)
Insert(e) ==
    \E n \in Fd \ open :
        /\ n >= hint
        /\ \A m \in Fd : hint <= m /\ m < n => m \in open
        /\ open' = open \union {n}
        /\ entry' = [entry EXCEPT ![n] = e]
        /\ hint' = (n + 1) % (MaxFd + 1)

(* open_read anchors the length of the file, open_write always 0, with a   *)
(* new file or one that is there.                                          *)
FsOpen(f, r, w) ==
    /\ r \/ w
    /\ Insert([file |-> f, cursor |-> 0, length |-> IF w THEN 0 ELSE len[f],
               read |-> r, write |-> w])
    /\ UNCHANGED len

(* Mutant: the hint is not lowered to the freed fd.                        *)
FsCloseKeepsHint(n) ==
    /\ n \in open
    /\ open' = open \ {n}
    /\ UNCHANGED <<entry, hint, len>>

(* fs_close: FdTable::remove lowers the hint to the freed fd.              *)
FsClose(n) ==
    /\ n \in open
    /\ open' = open \ {n}
    /\ hint' = Smaller(hint, n)
    /\ UNCHANGED <<entry, len>>

(* remove_session: the next open of the session starts with a new table.   *)
DropSession ==
    /\ open # {}
    /\ open' = {}
    /\ hint' = 0
    /\ UNCHANGED <<entry, len>>

(* read_clamped.                                                           *)
Clamped(e, off, n) == Smaller(n, IF e.length >= off THEN e.length - off ELSE 0)

FsRead(fd, n) ==
    /\ fd \in open /\ entry[fd].read
    /\ entry' = [entry EXCEPT ![fd].cursor = @ + Clamped(entry[fd], @, n)]
    /\ UNCHANGED <<open, hint, len>>

(* write_all_at of n bytes: an empty payload does not reach the file.      *)
Written(f, off, n) ==
    IF n = 0 THEN len ELSE [len EXCEPT ![f] = Larger(@, off + n)]

FsWrite(fd, n) ==
    LET e == entry[fd]
    IN  /\ fd \in open /\ e.write
        /\ e.cursor + n <= MaxLen
        /\ len' = Written(e.file, e.cursor, n)
        /\ entry' = [entry EXCEPT ![fd] =
                        [e EXCEPT !.cursor = e.cursor + n,
                                  !.length = Larger(e.length, e.cursor + n)]]
        /\ UNCHANGED <<open, hint>>

FsPwrite(fd, off, n) ==
    LET e == entry[fd]
    IN  /\ fd \in open /\ e.write
        /\ off + n <= MaxLen
        /\ len' = Written(e.file, off, n)
        /\ entry' = [entry EXCEPT ![fd] =
                        [e EXCEPT !.length = Larger(e.length, off + n)]]
        /\ UNCHANGED <<open, hint>>

(* fs_lseek: whence and offset make any cursor in range.                   *)
FsLseek(fd, c) ==
    LET e == entry[fd]
    IN  /\ fd \in open
        /\ entry' = [entry EXCEPT ![fd] = [e EXCEPT !.cursor = c]]
        /\ UNCHANGED <<open, hint, len>>

Next ==
    \/ \E f \in File : \E r \in BOOLEAN : \E w \in BOOLEAN : FsOpen(f, r, w)
    \/ \E fd \in Fd : FsClose(fd)
    \/ DropSession
    \/ \E fd \in Fd : \E n \in IoSizes : FsRead(fd, n) \/ FsWrite(fd, n)
    \/ \E fd \in Fd : \E off \in Offset : \E n \in IoSizes : FsPwrite(fd, off, n)
    \/ \E fd \in Fd : \E c \in Offset : FsLseek(fd, c)

Spec == Init /\ [][Next]_vars
-----------------------------------------------------------------------------
(* Types of the table.                                                     *)
TypeOK ==
    /\ open \subseteq Fd
    /\ entry \in [Fd -> Entries]
    /\ hint \in Fd
    /\ len \in [File -> Offset]

(* "Keep the hint at or below the lowest freed fd": every fd below the     *)
(* hint is in use, also after the hint wrapped.  What makes MinimumFree    *)
(* inductive.                                                              *)
HintBelowFree == \A n \in Fd : n < hint => n \in open

(* "the minimum free value is allocated" (fs_fd_table.rs): an fd is given  *)
(* out only when all the smaller ones are in use.                          *)
MinimumFree ==
    [][\A n \in open' \ open : \A m \in Fd : m < n => m \in open]_vars

(* The length an fd clamps its reads with is never past the end of its     *)
(* file, whatever other fds write to the file: read_exact_at, which fails  *)
(* there, is never asked for bytes past the end.                           *)
LengthWithinFile == \A fd \in open : entry[fd].length <= len[entry[fd].file]

(* fs_fstat returns the "current length": the length of an fd is the       *)
(* length of its file.                                                     *)
LengthCurrent == \A fd \in open : entry[fd].length = len[entry[fd].file]
==============================================================================
