----------------------------- MODULE FsFdProofs ------------------------------
(***************************************************************************)
(* Proofs about FsFd, for every number of fds, files and lengths.          *)
(***************************************************************************)
EXTENDS FsFd, TLAPS

(* The hint stays within the fds when it moves past a given one.           *)
LEMMA HintWraps ==
    ASSUME NEW n \in Fd
    PROVE  /\ (n + 1) % (MaxFd + 1) \in Fd
           /\ (n + 1) % (MaxFd + 1) <= n + 1
  <1>1. MaxFd \in Nat /\ n \in Nat /\ n <= MaxFd
    BY FdAssumption DEF Fd
  <1>2. CASE n < MaxFd
    <2>1. (n + 1) % (MaxFd + 1) = n + 1
      BY <1>1, <1>2
    <2> QED BY <2>1, <1>1, <1>2 DEF Fd
  <1>3. CASE n = MaxFd
    <2>1. (n + 1) % (MaxFd + 1) = 0
      BY <1>1, <1>3
    <2> QED BY <2>1, <1>1, <1>3 DEF Fd
  <1> QED BY <1>1, <1>2, <1>3

(* Every step of the table keeps its types.                                *)
LEMMA TypeStep ==
    ASSUME TypeOK, [Next]_vars
    PROVE  TypeOK'
  <1> USE FdAssumption DEF TypeOK
  <1>0. Fd \subseteq Nat /\ Offset \subseteq Nat /\ 0 \in Fd /\ 0 \in Offset
    BY DEF Fd, Offset
  <1>1. ASSUME NEW f \in File, NEW r \in BOOLEAN, NEW w \in BOOLEAN, FsOpen(f, r, w)
        PROVE  TypeOK'
    <2> DEFINE e == [file |-> f, cursor |-> 0, length |-> IF w THEN 0 ELSE len[f],
                     read |-> r, write |-> w]
    <2>1. e \in Entries
      BY <1>0 DEF Entries
    <2> HIDE DEF e
    <2>2. Insert(e) /\ UNCHANGED len
      BY <1>1 DEF FsOpen, e
    <2>3. PICK n \in Fd \ open : /\ open' = open \union {n}
                                 /\ entry' = [entry EXCEPT ![n] = e]
                                 /\ hint' = (n + 1) % (MaxFd + 1)
      BY <2>2 DEF Insert
    <2>4. hint' \in Fd
      BY <2>3, HintWraps
    <2> QED BY <2>1, <2>2, <2>3, <2>4
  <1>2. ASSUME NEW fd \in Fd, FsClose(fd) PROVE TypeOK'
    BY <1>2 DEF FsClose, Smaller
  <1>3. CASE DropSession
    BY <1>3, <1>0 DEF DropSession
  <1>4. ASSUME NEW fd \in Fd, NEW n \in IoSizes, FsRead(fd, n) PROVE TypeOK'
    <2>1. entry[fd] \in Entries /\ n \in Nat
      OBVIOUS
    <2>2. entry[fd].cursor + Clamped(entry[fd], entry[fd].cursor, n) \in Offset
      BY <2>1 DEF Entries, Clamped, Smaller, Offset
    <2>3. [entry[fd] EXCEPT !.cursor = @ + Clamped(entry[fd], @, n)] \in Entries
      BY <2>1, <2>2 DEF Entries
    <2> QED BY <1>4, <2>3 DEF FsRead
  <1>5. ASSUME NEW fd \in Fd, NEW n \in IoSizes, FsWrite(fd, n) PROVE TypeOK'
    <2>1. entry[fd] \in Entries /\ n \in Nat /\ entry[fd].cursor + n <= MaxLen
      BY <1>5 DEF FsWrite
    <2>2. entry[fd].cursor + n \in Offset /\ entry[fd].file \in File
      BY <2>1 DEF Entries, Offset
    <2>3. Written(entry[fd].file, entry[fd].cursor, n) \in [File -> Offset]
      BY <2>1, <2>2 DEF Written, Larger
    <2>4. [entry[fd] EXCEPT !.cursor = entry[fd].cursor + n,
                            !.length = Larger(entry[fd].length, entry[fd].cursor + n)]
             \in Entries
      BY <2>1, <2>2 DEF Entries, Larger
    <2> QED BY <1>5, <2>3, <2>4 DEF FsWrite
  <1>6. ASSUME NEW fd \in Fd, NEW off \in Offset, NEW n \in IoSizes,
               FsPwrite(fd, off, n)
        PROVE  TypeOK'
    <2>1. entry[fd] \in Entries /\ n \in Nat /\ off + n <= MaxLen
      BY <1>6 DEF FsPwrite
    <2>2. off + n \in Offset /\ entry[fd].file \in File
      BY <2>1 DEF Entries, Offset
    <2>3. Written(entry[fd].file, off, n) \in [File -> Offset]
      BY <2>1, <2>2 DEF Written, Larger
    <2>4. [entry[fd] EXCEPT !.length = Larger(entry[fd].length, off + n)] \in Entries
      BY <2>1, <2>2 DEF Entries, Larger
    <2> QED BY <1>6, <2>3, <2>4 DEF FsPwrite
  <1>7. ASSUME NEW fd \in Fd, NEW c \in Offset, FsLseek(fd, c) PROVE TypeOK'
    <2>1. [entry[fd] EXCEPT !.cursor = c] \in Entries
      BY DEF Entries
    <2> QED BY <1>7, <2>1 DEF FsLseek
  <1>8. CASE UNCHANGED vars
    BY <1>8 DEF vars
  <1> QED
    BY <1>1, <1>2, <1>3, <1>4, <1>5, <1>6, <1>7, <1>8 DEF Next

(* Every fd below the hint stays in use.                                   *)
LEMMA HintStep ==
    ASSUME TypeOK, HintBelowFree, [Next]_vars
    PROVE  HintBelowFree'
  <1> USE FdAssumption DEF TypeOK, HintBelowFree
  <1>0. Fd \subseteq Nat
    BY DEF Fd
  <1>1. ASSUME NEW f \in File, NEW r \in BOOLEAN, NEW w \in BOOLEAN, FsOpen(f, r, w)
        PROVE  HintBelowFree'
    <2>1. PICK n \in Fd \ open :
             /\ n >= hint
             /\ \A m \in Fd : hint <= m /\ m < n => m \in open
             /\ open' = open \union {n}
             /\ hint' = (n + 1) % (MaxFd + 1)
      BY <1>1 DEF FsOpen, Insert
    <2>2. hint' \in Fd /\ hint' <= n + 1
      BY <2>1, HintWraps
    <2>3. SUFFICES ASSUME NEW m \in Fd, m < hint' PROVE m \in open'
      OBVIOUS
    <2>4. m < n \/ m = n
      BY <1>0, <2>2, <2>3
    <2>5. CASE m < n
      <3>1. m < hint \/ hint <= m
        BY <1>0
      <3> QED BY <3>1, <2>1, <2>5
    <2> QED BY <2>1, <2>4, <2>5
  <1>2. ASSUME NEW fd \in Fd, FsClose(fd) PROVE HintBelowFree'
    <2>1. open' = open \ {fd} /\ hint' <= hint /\ hint' <= fd /\ hint' \in Fd
      BY <1>2, <1>0 DEF FsClose, Smaller
    <2>2. SUFFICES ASSUME NEW m \in Fd, m < hint' PROVE m \in open'
      OBVIOUS
    <2>3. m < hint /\ m # fd
      BY <2>1, <2>2, <1>0
    <2> QED BY <2>1, <2>3
  <1>3. CASE DropSession
    BY <1>3, <1>0 DEF DropSession
  <1>4. CASE open' = open /\ hint' = hint
    BY <1>4
  <1> QED
    BY <1>1, <1>2, <1>3, <1>4
    DEF Next, vars, FsRead, FsWrite, FsPwrite, FsLseek

(* An fd that a step binds is the smallest one that was free.              *)
LEMMA MinimumStep ==
    ASSUME TypeOK, HintBelowFree, [Next]_vars,
           NEW n \in open' \ open, NEW m \in Fd, m < n
    PROVE  m \in open
  <1> USE FdAssumption DEF TypeOK, HintBelowFree
  <1>0. Fd \subseteq Nat
    BY DEF Fd
  <1>1. ASSUME NEW f \in File, NEW r \in BOOLEAN, NEW w \in BOOLEAN, FsOpen(f, r, w)
        PROVE  m \in open
    <2>1. PICK k \in Fd \ open :
             /\ \A x \in Fd : hint <= x /\ x < k => x \in open
             /\ open' = open \union {k}
      BY <1>1 DEF FsOpen, Insert
    <2>2. n = k
      BY <2>1
    <2>3. m < hint \/ hint <= m
      BY <1>0
    <2> QED BY <2>1, <2>2, <2>3
  <1>2. CASE open' \subseteq open
    BY <1>2
  <1> QED
    BY <1>1, <1>2
    DEF Next, vars, FsClose, DropSession, FsRead, FsWrite, FsPwrite, FsLseek

(* A write of at least one byte makes the file reach its end.              *)
LEMMA WrittenReaches ==
    ASSUME TypeOK, NEW f \in File, NEW off \in Nat, NEW n \in Nat \ {0}
    PROVE  /\ \A g \in File : len[g] <= Written(f, off, n)[g]
           /\ off + n <= Written(f, off, n)[f]
  BY DEF TypeOK, Written, Larger, Offset

(* No step takes the length of an fd past the end of its file, when no     *)
(* write is empty.                                                         *)
LEMMA LengthStep ==
    ASSUME 0 \notin IoSizes, TypeOK, LengthWithinFile, [Next]_vars
    PROVE  LengthWithinFile'
  <1> USE FdAssumption DEF TypeOK
  <1>0. Fd \subseteq Nat /\ Offset \subseteq Nat
    BY DEF Fd, Offset
  <1>1. ASSUME NEW f \in File, NEW r \in BOOLEAN, NEW w \in BOOLEAN, FsOpen(f, r, w)
        PROVE  LengthWithinFile'
    <2> DEFINE e == [file |-> f, cursor |-> 0, length |-> IF w THEN 0 ELSE len[f],
                     read |-> r, write |-> w]
    <2>0. len[f] \in Nat
      BY <1>0
    <2>1. e.file = f /\ e.length <= len[f]
      BY <2>0
    <2> HIDE DEF e
    <2>2. Insert(e) /\ len' = len
      BY <1>1 DEF FsOpen, e
    <2>3. PICK n \in Fd \ open : /\ open' = open \union {n}
                                 /\ entry' = [entry EXCEPT ![n] = e]
      BY <2>2 DEF Insert
    <2> QED BY <2>1, <2>2, <2>3 DEF LengthWithinFile
  <1>2. CASE open' \subseteq open /\ entry' = entry /\ len' = len
    BY <1>2 DEF LengthWithinFile
  <1>3. ASSUME NEW fd \in open, open' = open, len' = len,
               \A x \in open : /\ entry'[x].file = entry[x].file
                               /\ entry'[x].length = entry[x].length
        PROVE  LengthWithinFile'
    BY <1>3 DEF LengthWithinFile
  <1>4. ASSUME NEW fd \in Fd, NEW n \in IoSizes, FsRead(fd, n)
        PROVE  LengthWithinFile'
    <2>1. /\ fd \in open /\ open' = open /\ len' = len
          /\ entry' = [entry EXCEPT ![fd].cursor = @ + Clamped(entry[fd], @, n)]
      BY <1>4 DEF FsRead
    <2>2. entry[fd] \in Entries
      OBVIOUS
    <2>3. \A x \in open : /\ entry'[x].file = entry[x].file
                          /\ entry'[x].length = entry[x].length
      BY <2>1, <2>2 DEF Entries
    <2> QED BY <2>1, <2>3, <1>3
  <1>5. ASSUME NEW fd \in open, NEW off \in Offset, NEW n \in IoSizes,
               open' = open, len' = Written(entry[fd].file, off, n),
               entry'[fd].file = entry[fd].file,
               entry'[fd].length = Larger(entry[fd].length, off + n),
               \A x \in open \ {fd} : entry'[x] = entry[x]
        PROVE  LengthWithinFile'
    <2>1. entry[fd] \in Entries /\ n \in Nat \ {0} /\ off \in Nat
      BY <1>0
    <2>2. entry[fd].file \in File /\ entry[fd].length \in Nat
      BY <2>1, <1>0 DEF Entries
    <2>3. /\ \A g \in File : len[g] <= len'[g]
          /\ off + n <= len'[entry[fd].file]
      BY <1>5, <2>1, <2>2, WrittenReaches
    <2>4. len' \in [File -> Int]
      BY <1>5, <1>0, <2>1, <2>2 DEF Written, Larger, Offset
    <2>5. SUFFICES ASSUME NEW x \in open
                   PROVE  entry'[x].length <= len'[entry'[x].file]
      BY <1>5 DEF LengthWithinFile
    <2>6. entry[x] \in Entries /\ entry[x].length <= len[entry[x].file]
      BY DEF LengthWithinFile
    <2>7. /\ entry[x].file \in File /\ entry[x].length \in Int
          /\ len[entry[x].file] \in Int /\ len'[entry[x].file] \in Int
      BY <2>4, <2>6, <1>0 DEF Entries, Offset
    <2>8. entry[x].length <= len'[entry[x].file]
      BY <2>3, <2>6, <2>7
    <2>9. CASE x = fd
      BY <1>5, <2>1, <2>2, <2>3, <2>8, <2>9 DEF Larger
    <2> QED BY <1>5, <2>8, <2>9
  <1>6. ASSUME NEW fd \in Fd, NEW n \in IoSizes, FsWrite(fd, n)
        PROVE  LengthWithinFile'
    <2>1. fd \in open /\ entry[fd] \in Entries
      BY <1>6 DEF FsWrite
    <2>2. entry[fd].cursor \in Offset
      BY <2>1 DEF Entries
    <2>3. /\ open' = open /\ len' = Written(entry[fd].file, entry[fd].cursor, n)
          /\ entry'[fd].file = entry[fd].file
          /\ entry'[fd].length = Larger(entry[fd].length, entry[fd].cursor + n)
          /\ \A x \in open \ {fd} : entry'[x] = entry[x]
      BY <1>6, <2>1 DEF FsWrite, Entries
    <2> QED BY <2>1, <2>2, <2>3, <1>5
  <1>7. ASSUME NEW fd \in Fd, NEW off \in Offset, NEW n \in IoSizes,
               FsPwrite(fd, off, n)
        PROVE  LengthWithinFile'
    <2>1. fd \in open /\ entry[fd] \in Entries
      BY <1>7 DEF FsPwrite
    <2>2. /\ open' = open /\ len' = Written(entry[fd].file, off, n)
          /\ entry'[fd].file = entry[fd].file
          /\ entry'[fd].length = Larger(entry[fd].length, off + n)
          /\ \A x \in open \ {fd} : entry'[x] = entry[x]
      BY <1>7, <2>1 DEF FsPwrite, Entries
    <2> QED BY <2>1, <2>2, <1>5
  <1>8. ASSUME NEW fd \in Fd, NEW c \in Offset, FsLseek(fd, c)
        PROVE  LengthWithinFile'
    <2>1. /\ fd \in open /\ open' = open /\ len' = len
          /\ entry' = [entry EXCEPT ![fd] = [entry[fd] EXCEPT !.cursor = c]]
      BY <1>8 DEF FsLseek
    <2>2. \A x \in open : /\ entry'[x].file = entry[x].file
                          /\ entry'[x].length = entry[x].length
      BY <2>1 DEF Entries
    <2> QED BY <2>1, <2>2, <1>3
  <1> QED
    BY <1>1, <1>2, <1>4, <1>6, <1>7, <1>8
    DEF Next, vars, FsClose, DropSession

-----------------------------------------------------------------------------
(* FdTable::insert always gives out the minimum free fd, through every     *)
(* order of opens, closes and dropped sessions.                            *)
THEOREM FdMinimum == Spec => MinimumFree
  <1>1. Init => TypeOK /\ HintBelowFree
    BY FdAssumption DEF Init, TypeOK, HintBelowFree, Fd, Offset, Entries
  <1>2. TypeOK /\ HintBelowFree /\ [Next]_vars => (TypeOK /\ HintBelowFree)'
    BY TypeStep, HintStep
  <1>3. TypeOK /\ HintBelowFree /\ [Next]_vars
          => [\A n \in open' \ open : \A m \in Fd : m < n => m \in open]_vars
    BY MinimumStep
  <1> QED
    BY <1>1, <1>2, <1>3, PTL DEF Spec, MinimumFree

(* When no write is empty, read_clamped never asks for bytes past the end  *)
(* of the file, however many fds share the file.                           *)
THEOREM FdLength ==
    ASSUME 0 \notin IoSizes
    PROVE  Spec => []LengthWithinFile
  <1>1. Init => TypeOK /\ LengthWithinFile
    BY FdAssumption DEF Init, TypeOK, LengthWithinFile, Fd, Offset, Entries
  <1>2. TypeOK /\ LengthWithinFile /\ [Next]_vars => (TypeOK /\ LengthWithinFile)'
    BY TypeStep, LengthStep
  <1> QED
    BY <1>1, <1>2, PTL DEF Spec
==============================================================================
