-------------------------- MODULE IdentityDbProofs --------------------------
(***************************************************************************)
(* Proofs about IdentityDb for all user ids, lengths and bounds: the files *)
(* hold documents, whole or cut off in front; what a scan finds is         *)
(* determined by the file; a rewrite copies the list of identities with    *)
(* one change, so that the files implement IdentityMap; and a rewrite      *)
(* keeps what it does not concern.                                         *)
(***************************************************************************)
EXTENDS IdentityDb, TLAPS, WellFoundedInduction

-----------------------------------------------------------------------------
(* Files as sequences of documents. *)

Cell == [id : Identity, part : Nat \ {0}]

\* A cell is followed by the rest of its document.
Whole(f) ==
    \A i \in 1..Len(f) :
        /\ f[i].part <= f[i].id.len
        /\ \A d \in 0..(f[i].id.len - f[i].part) :
              /\ i + d <= Len(f)
              /\ f[i + d].id = f[i].id
              /\ f[i + d].part = f[i].part + d

File == {f \in Seq(Cell) : Whole(f)}

\* A document has at least one cell.
LEMMA IdentityLength ==
    ASSUME NEW id \in Identity PROVE id.len \in Nat \ {0}
  <1>1. id.len \in SaveLens \cup UpdateLens
    BY DEF Identity
  <1>2. \A n \in UpdateLens : n \in Nat \ {0}
    BY IdentityDbAssumption DEF IdentityDbAssumption
  <1>3. \A n \in SaveLens : n \in Nat \ {0}
    <2>1. peek_len \in Nat /\ SaveLens \subseteq 1..peek_len
      BY IdentityDbAssumption DEF IdentityDbAssumption
    <2> QED BY <2>1
  <1> QED BY <1>1, <1>2, <1>3

\* A document is a file.
LEMMA DocumentFile ==
    ASSUME NEW id \in Identity
    PROVE  Document(id) \in File /\ Len(Document(id)) = id.len
  <1> DEFINE g == Document(id)
  <1>1. id.len \in Nat \ {0}
    BY IdentityLength
  <1>2. g \in Seq(Cell) /\ Len(g) = id.len
    <2>1. \A i \in 1..id.len : [id |-> id, part |-> i] \in Cell
      BY <1>1 DEF Cell
    <2>2. g \in [1..id.len -> Cell]
      BY <2>1 DEF Document
    <2> HIDE DEF g
    <2> QED BY <1>1, <2>2
  <1>3. \A i \in 1..id.len : g[i].id = id /\ g[i].part = i
    BY DEF Document
  <1> HIDE DEF g
  <1>4. Whole(g)
    BY <1>1, <1>2, <1>3 DEF Whole
  <1> QED BY <1>2, <1>4 DEF File, g

\* So is nothing.
LEMMA EmptyFile == << >> \in File
  <1>1. << >> \in Seq(Cell) /\ Len(<< >>) = 0
    OBVIOUS
  <1> QED BY <1>1 DEF File, Whole

\* What a file is made of.
LEMMA FileTypes ==
    ASSUME NEW f \in File
    PROVE  /\ f \in Seq(Cell) /\ Len(f) \in Nat
           /\ \A i \in 1..Len(f) : /\ f[i] \in Cell /\ f[i].id \in Identity
                                   /\ f[i].id.len \in Nat \ {0}
                                   /\ f[i].part \in Nat \ {0}
                                   /\ f[i].part <= f[i].id.len
  <1>1. f \in Seq(Cell) /\ Len(f) \in Nat
    BY DEF File
  <1>2. ASSUME NEW i \in 1..Len(f)
        PROVE  f[i] \in Cell /\ f[i].part <= f[i].id.len
    <2>1. f[i] \in Cell
      BY <1>1
    <2> QED BY <2>1 DEF File, Whole
  <1>3. \A c \in Cell : /\ c.id \in Identity /\ c.part \in Nat \ {0}
                        /\ c.id.len \in Nat \ {0}
    BY IdentityLength DEF Cell
  <1> QED BY <1>1, <1>2, <1>3

\* The cells of two sequences one after the other.
LEMMA Concatenation ==
    ASSUME NEW S, NEW a \in Seq(S), NEW b \in Seq(S), NEW c, c = a \o b
    PROVE  /\ c \in Seq(S) /\ Len(c) = Len(a) + Len(b)
           /\ \A i \in 1..Len(a) : c[i] = a[i]
           /\ \A i \in 1..Len(b) : c[Len(a) + i] = b[i]
  OBVIOUS

\* Sequences of the same length and elements are equal.
LEMMA SeqEqual ==
    ASSUME NEW S, NEW r \in Seq(S), NEW s \in Seq(S), Len(r) = Len(s),
           \A i \in 1..Len(r) : r[i] = s[i]
    PROVE  r = s
  OBVIOUS

\* Two files one after the other are a file.
LEMMA ConcatFile ==
    ASSUME NEW a \in File, NEW b \in File
    PROVE  a \o b \in File
  <1> DEFINE c == a \o b
  <1>0. a \in Seq(Cell) /\ b \in Seq(Cell) /\ Whole(a) /\ Whole(b)
    BY DEF File
  <1>1. /\ c \in Seq(Cell) /\ Len(c) = Len(a) + Len(b)
        /\ \A i \in 1..Len(a) : c[i] = a[i]
        /\ \A i \in 1..Len(b) : c[Len(a) + i] = b[i]
    BY <1>0, Concatenation
  <1> HIDE DEF c
  <1>2. Len(a) \in Nat /\ Len(b) \in Nat
    BY <1>0
  <1>3. ASSUME NEW i \in 1..Len(c)
        PROVE  /\ c[i].part <= c[i].id.len
               /\ \A d \in 0..(c[i].id.len - c[i].part) :
                    /\ i + d <= Len(c)
                    /\ c[i + d].id = c[i].id
                    /\ c[i + d].part = c[i].part + d
    <2>1. CASE i <= Len(a)
      <3>1. /\ i \in 1..Len(a) /\ c[i] = a[i]
            /\ a[i].id.len \in Nat /\ a[i].part \in Nat
        BY <1>1, <1>2, <2>1, FileTypes
      <3>2. a[i].part <= a[i].id.len
        BY <1>0, <3>1 DEF Whole
      <3>3. ASSUME NEW d \in 0..(a[i].id.len - a[i].part)
            PROVE  i + d <= Len(c) /\ c[i + d].id = c[i].id
                   /\ c[i + d].part = c[i].part + d
        <4>1. /\ i + d <= Len(a) /\ a[i + d].id = a[i].id
              /\ a[i + d].part = a[i].part + d
          BY <1>0, <3>1 DEF Whole
        <4>2. i + d \in 1..Len(a)
          BY <1>2, <3>1, <4>1
        <4> QED BY <1>1, <1>2, <3>1, <4>1, <4>2
      <3> QED BY <3>1, <3>2, <3>3
    <2>2. CASE i > Len(a)
      <3> DEFINE j == i - Len(a)
      <3>1. j \in 1..Len(b) /\ i = Len(a) + j
        BY <1>1, <1>2, <2>2
      <3> HIDE DEF j
      <3>2. c[i] = b[j] /\ b[j].id.len \in Nat /\ b[j].part \in Nat
        BY <1>1, <3>1, FileTypes
      <3>3. b[j].part <= b[j].id.len
        BY <1>0, <3>1 DEF Whole
      <3>4. ASSUME NEW d \in 0..(b[j].id.len - b[j].part)
            PROVE  i + d <= Len(c) /\ c[i + d].id = c[i].id
                   /\ c[i + d].part = c[i].part + d
        <4>1. /\ j + d <= Len(b) /\ b[j + d].id = b[j].id
              /\ b[j + d].part = b[j].part + d
          BY <1>0, <3>1 DEF Whole
        <4>2. j + d \in 1..Len(b) /\ i + d = Len(a) + (j + d)
          BY <1>2, <3>1, <3>2, <4>1
        <4>3. c[i + d] = b[j + d]
          BY <1>1, <4>2
        <4> QED BY <1>1, <1>2, <3>2, <4>1, <4>2, <4>3
      <3> QED BY <3>2, <3>3, <3>4
    <2> QED BY <1>2, <2>1, <2>2
  <1>4. Whole(c)
    BY <1>3 DEF Whole
  <1> QED BY <1>1, <1>4 DEF File, c

\* The cells behind an offset.
LEMMA SuffixCells ==
    ASSUME NEW f \in Seq(Cell), NEW n \in Nat,
           NEW g, g = SubSeq(f, n + 1, Len(f))
    PROVE  /\ g \in Seq(Cell)
           /\ Len(g) = IF n <= Len(f) THEN Len(f) - n ELSE 0
           /\ \A i \in 1..Len(g) : g[i] = f[n + i]
  OBVIOUS

\* A file cut off in front is a file: write() leaves such a rest.
LEMMA SuffixFile ==
    ASSUME NEW f \in File, NEW n \in Nat
    PROVE  SubSeq(f, n + 1, Len(f)) \in File
  <1> DEFINE g == SubSeq(f, n + 1, Len(f))
  <1>0. f \in Seq(Cell) /\ Whole(f) /\ Len(f) \in Nat
    BY DEF File
  <1>1. /\ g \in Seq(Cell)
        /\ Len(g) = IF n <= Len(f) THEN Len(f) - n ELSE 0
        /\ \A i \in 1..Len(g) : g[i] = f[n + i]
    BY <1>0, SuffixCells
  <1> HIDE DEF g
  <1>2. ASSUME NEW i \in 1..Len(g)
        PROVE  /\ g[i].part <= g[i].id.len
               /\ \A d \in 0..(g[i].id.len - g[i].part) :
                    /\ i + d <= Len(g)
                    /\ g[i + d].id = g[i].id
                    /\ g[i + d].part = g[i].part + d
    <2>1. /\ n + i \in 1..Len(f) /\ g[i] = f[n + i]
          /\ Len(g) = Len(f) - n /\ i \in Nat
      BY <1>0, <1>1
    <2>2. g[i].id.len \in Nat /\ g[i].part \in Nat
      BY <2>1, FileTypes
    <2>3. ASSUME NEW d \in 0..(g[i].id.len - g[i].part)
          PROVE  i + d <= Len(g) /\ g[i + d].id = g[i].id
                 /\ g[i + d].part = g[i].part + d
      <3>1. /\ (n + i) + d <= Len(f) /\ f[(n + i) + d].id = f[n + i].id
            /\ f[(n + i) + d].part = f[n + i].part + d
        BY <1>0, <2>1 DEF Whole
      <3>2. i + d \in 1..Len(g) /\ n + (i + d) = (n + i) + d
        BY <1>0, <2>1, <2>2, <3>1
      <3>3. g[i + d] = f[(n + i) + d]
        BY <1>1, <3>2
      <3> QED BY <2>1, <3>1, <3>2, <3>3
    <2>4. g[i].part <= g[i].id.len
      BY <1>0, <2>1 DEF Whole
    <2> QED BY <2>3, <2>4
  <1>3. Whole(g)
    BY <1>2 DEF Whole
  <1> QED BY <1>1, <1>3 DEF File, g

\* A scan that reads a document stays inside the file.
LEMMA Jump ==
    ASSUME NEW f \in File, NEW o \in Nat, o < Len(f), f[o + 1].part = 1
    PROVE  /\ f[o + 1].id.len \in Nat \ {0}
           /\ o + f[o + 1].id.len \in 0..Len(f)
  <1>1. o + 1 \in 1..Len(f) /\ f[o + 1].id.len \in Nat \ {0} /\ Len(f) \in Nat
    BY FileTypes
  <1>2. (o + 1) + (f[o + 1].id.len - 1) <= Len(f)
    BY <1>1 DEF File, Whole
  <1> QED BY <1>1, <1>2

\* The first of two sequences, found again.
LEMMA PrefixOfConcat ==
    ASSUME NEW a \in Seq(Cell), NEW b \in Seq(Cell), NEW c, c = a \o b
    PROVE  /\ c \in Seq(Cell) /\ Len(c) = Len(a) + Len(b)
           /\ SubSeq(c, 1, Len(a)) = a
  <1>1. /\ c \in Seq(Cell) /\ Len(c) = Len(a) + Len(b)
        /\ \A i \in 1..Len(a) : c[i] = a[i]
    OBVIOUS
  <1> DEFINE p == SubSeq(c, 1, Len(a))
  <1>2. p \in Seq(Cell) /\ Len(p) = Len(a) /\ \A i \in 1..Len(a) : p[i] = c[i]
    BY <1>1
  <1> HIDE DEF p
  <1>3. Len(p) = Len(a) /\ \A i \in 1..Len(p) : p[i] = a[i]
    BY <1>1, <1>2
  <1>4. p = a
    BY <1>2, <1>3, SeqEqual
  <1> QED BY <1>1, <1>4 DEF p

\* What Overwrite makes of the cells up to its end.
LEMMA OverwriteCells ==
    ASSUME NEW f \in Seq(Cell), NEW o \in 0..Len(f), NEW c \in Seq(Cell),
           NEW g, g = Overwrite(f, o, c)
    PROVE  /\ g \in Seq(Cell)
           /\ o + Len(c) <= Len(g)
           /\ SubSeq(g, 1, o + Len(c)) = SubSeq(f, 1, o) \o c
  <1> DEFINE p == SubSeq(f, 1, o)
             t == SubSeq(f, o + Len(c) + 1, Len(f))
  <1>1. /\ p \in Seq(Cell) /\ Len(p) = o
        /\ \A i \in 1..o : p[i] = f[i]
    OBVIOUS
  <1>2. t \in Seq(Cell)
    BY SuffixCells
  <1>3. g = p \o c \o t
    BY DEF Overwrite
  <1> HIDE DEF p, t
  <1> DEFINE q == p \o c
  <1>4. q \in Seq(Cell) /\ Len(q) = o + Len(c)
    BY <1>1
  <1>5. g = q \o t
    BY <1>3
  <1> HIDE DEF q
  <1>6. g \in Seq(Cell) /\ Len(g) = Len(q) + Len(t) /\ SubSeq(g, 1, Len(q)) = q
    BY <1>2, <1>4, <1>5, PrefixOfConcat
  <1> QED BY <1>2, <1>4, <1>6 DEF p, q

\* Overwriting at a document boundary makes a file again.
LEMMA OverwriteFile ==
    ASSUME NEW f \in File, NEW o \in 0..Len(f), SubSeq(f, 1, o) \in File,
           NEW c \in File
    PROVE  /\ Overwrite(f, o, c) \in File
           /\ o + Len(c) \in 0..Len(Overwrite(f, o, c))
           /\ SubSeq(Overwrite(f, o, c), 1, o + Len(c)) = SubSeq(f, 1, o) \o c
           /\ SubSeq(f, 1, o) \o c \in File
  <1>1. f \in Seq(Cell) /\ c \in Seq(Cell) /\ Len(f) \in Nat /\ Len(c) \in Nat
    BY DEF File
  <1>2. SubSeq(f, 1, o) \o c \in File
    BY ConcatFile
  <1>3. SubSeq(f, o + Len(c) + 1, Len(f)) \in File
    <2>1. o + Len(c) \in Nat
      BY <1>1
    <2> QED BY <2>1, SuffixFile
  <1>4. Overwrite(f, o, c) \in File
    BY <1>2, <1>3, ConcatFile DEF Overwrite
  <1>5. /\ o + Len(c) <= Len(Overwrite(f, o, c))
        /\ SubSeq(Overwrite(f, o, c), 1, o + Len(c)) = SubSeq(f, 1, o) \o c
    BY <1>1, OverwriteCells
  <1>6. Len(Overwrite(f, o, c)) \in Nat
    BY <1>4, FileTypes
  <1> QED BY <1>1, <1>2, <1>4, <1>5, <1>6

-----------------------------------------------------------------------------
(* The types. *)

\* Both files hold documents, whole ones or the ends of such; so does what has
\* been written of the second one.
FilesOK ==
    /\ db \in File /\ tmp \in File
    /\ at \in 0..Len(tmp)
    /\ SubSeq(tmp, 1, at) \in File

TypeInv ==
    /\ FilesOK
    /\ pc \in {"idle", "copy", "gap"}
    /\ job \in Jobs \cup {NoJob}
    /\ pc = "copy" => job \in Jobs /\ from \in 0..Len(db)
    /\ crashes \in 0..MaxCrashes /\ damaged \in BOOLEAN

\* Before the first turn of the loop nothing is written.
LEMMA NothingWritten == ASSUME NEW f PROVE SubSeq(f, 1, 0) \in File
  <1>1. SubSeq(f, 1, 0) = << >>
    OBVIOUS
  <1> QED BY <1>1, EmptyFile

\* What a turn of the loop writes is a document or nothing.
LEMMA WrittenFile ==
    ASSUME job \in Jobs, NEW id \in Identity, NEW c \in Replacements(id)
    PROVE  c \in File
  <1>1. CASE c = Document(id) \/ c = << >>
    BY <1>1, DocumentFile, EmptyFile
  <1>2. CASE job.op # "remove" /\ c = Document([uid |-> job.uid, len |-> job.len])
    <2>1. job.uid \in Uid /\ job.len \in UpdateLens
      BY <1>2 DEF Jobs
    <2>2. [uid |-> job.uid, len |-> job.len] \in Identity
      BY <2>1 DEF Identity
    <2> QED BY <1>2, <2>2, DocumentFile
  <1> QED BY <1>1, <1>2 DEF Replacements

\* The files are empty at first.
LEMMA TypeInit == Init => TypeInv
  <1> SUFFICES ASSUME Init PROVE TypeInv
    OBVIOUS
  <1>1. db \in File /\ tmp \in File /\ Len(tmp) = 0 /\ at = 0
    BY EmptyFile DEF Init
  <1>2. FilesOK
    BY <1>1, NothingWritten DEF FilesOK
  <1>3. MaxCrashes \in Nat
    BY IdentityDbAssumption DEF IdentityDbAssumption
  <1>4. pc = "idle" /\ job = NoJob /\ crashes = 0 /\ damaged \in BOOLEAN
    BY DEF Init
  <1>5. crashes \in 0..MaxCrashes
    BY <1>3, <1>4
  <1> QED BY <1>2, <1>4, <1>5 DEF TypeInv

\* Every action keeps the types.
LEMMA TypeStep == ASSUME TypeInv, Next PROVE TypeInv'
  <1>0. /\ FilesOK /\ db \in Seq(Cell) /\ tmp \in Seq(Cell) /\ Len(db) \in Nat
        /\ Len(tmp) \in Nat
    BY FileTypes DEF TypeInv, FilesOK
  <1>1. ASSUME NEW id \in Identity, wish_save_identity_entry(id)
        PROVE  TypeInv'
    <2>1. db' \in File
      BY <1>0, <1>1, DocumentFile, ConcatFile DEF wish_save_identity_entry, FilesOK
    <2>2. FilesOK'
      BY <1>0, <1>1, <2>1 DEF wish_save_identity_entry, FilesOK
    <2> QED BY <1>1, <2>2 DEF wish_save_identity_entry, TypeInv
  <1>2. ASSUME NEW j \in Jobs, Begin(j) PROVE TypeInv'
    <2>1. UNCHANGED <<db, tmp>> /\ at' = 0
      BY <1>2 DEF Begin
    <2>2. FilesOK'
      BY <1>0, <2>1, NothingWritten DEF FilesOK
    <2> QED BY <1>0, <1>2, <2>2 DEF Begin, TypeInv
  <1>3. CASE CopyDocument
    <2>1. PICK c \in Replacements(db[from + 1].id) :
            /\ tmp' = Overwrite(tmp, at, c)
            /\ at' = at + Len(c)
            /\ from' = from + db[from + 1].id.len
      BY <1>3 DEF CopyDocument
    <2>2. /\ pc = "copy" /\ from < Len(db) /\ db[from + 1].part = 1
          /\ from \in Nat /\ job \in Jobs /\ db \in File
      BY <1>0, <1>3 DEF CopyDocument, Readable, TypeInv, FilesOK
    <2>3. db[from + 1].id \in Identity
      <3>1. from + 1 \in 1..Len(db)
        BY <1>0, <2>2
      <3> QED BY <2>2, <3>1, FileTypes
    <2>4. c \in File
      BY <2>2, <2>3, WrittenFile
    <2>5. from' \in 0..Len(db)
      BY <2>1, <2>2, Jump
    <2>6. /\ tmp' \in File /\ at' \in 0..Len(tmp')
          /\ SubSeq(tmp', 1, at') = SubSeq(tmp, 1, at) \o c
          /\ SubSeq(tmp, 1, at) \o c \in File
      BY <1>0, <2>1, <2>4, OverwriteFile DEF FilesOK
    <2>7. FilesOK'
      BY <1>3, <2>2, <2>6 DEF CopyDocument, FilesOK
    <2> QED BY <1>3, <2>5, <2>7 DEF CopyDocument, TypeInv
  <1>4. CASE wish_fs_remove
    <2>1. FilesOK'
      BY <1>0, <1>4, EmptyFile DEF wish_fs_remove, FilesOK
    <2>2. damaged' \in BOOLEAN
      BY <1>4 DEF wish_fs_remove, Damages, TypeInv
    <2> QED BY <1>4, <2>1, <2>2 DEF wish_fs_remove, TypeInv
  <1>5. CASE wish_fs_rename
    <2>1. db' \in File /\ tmp' \in File /\ at' = 0 /\ Len(tmp') = 0
      BY <1>0, <1>5, EmptyFile DEF wish_fs_rename, FilesOK
    <2>2. FilesOK'
      BY <2>1, NothingWritten DEF FilesOK
    <2> QED BY <1>5, <2>2 DEF wish_fs_rename, TypeInv
  <1>6. CASE Crash
    <2>1. UNCHANGED <<db, tmp>> /\ at' = 0
      BY <1>6 DEF Crash
    <2>2. FilesOK'
      BY <1>0, <2>1, NothingWritten DEF FilesOK
    <2>3. damaged' \in BOOLEAN
      BY <1>6 DEF Crash, TypeInv
    <2>4. crashes' \in 0..MaxCrashes
      <3>1. MaxCrashes \in Nat
        BY IdentityDbAssumption DEF IdentityDbAssumption
      <3> QED BY <1>6, <3>1 DEF Crash, TypeInv
    <2> QED BY <1>6, <2>2, <2>3, <2>4 DEF Crash, TypeInv
  <1>7. CASE Save
    <2>1. PICK u \in Uid, n \in SaveLens :
            wish_save_identity_entry([uid |-> u, len |-> n])
      BY <1>7 DEF Save
    <2>2. [uid |-> u, len |-> n] \in Identity
      BY DEF Identity
    <2> QED BY <1>1, <2>1, <2>2
  <1>8. CASE wish_identity_remove \/ wish_api_identity_update
    <2>1. \E j \in Jobs : Begin(j)
      BY <1>8 DEF wish_identity_remove, wish_api_identity_update,
                  wish_identity_update, Jobs
    <2> QED BY <1>2, <2>1
  <1> QED BY <1>3, <1>4, <1>5, <1>6, <1>7, <1>8 DEF Next

\* The types hold in every behaviour.
LEMMA Files == Spec => []TypeInv
  <1>1. TypeInv /\ [Next]_vars => TypeInv'
    <2> SUFFICES ASSUME TypeInv, [Next]_vars PROVE TypeInv'
      OBVIOUS
    <2>1. CASE UNCHANGED vars
      BY <2>1 DEF vars, TypeInv, FilesOK
    <2> QED BY <2>1, TypeStep
  <1> QED BY <1>1, TypeInit, PTL DEF Spec

\* Type correctness: what the files consist of, and that both offsets of a
\* rewrite stay inside their files (wish_identity_remove and _update).
THEOREM IdentityDbType == Spec => []IdTypeOK
  <1>1. TypeInv => IdTypeOK
    <2> SUFFICES ASSUME TypeInv PROVE IdTypeOK
      OBVIOUS
    <2>1. \A f \in {db, tmp} : \A i \in DOMAIN f :
             f[i].id \in Identity /\ f[i].part \in 1..f[i].id.len
      <3>1. ASSUME NEW f \in File, NEW i \in DOMAIN f
            PROVE  f[i].id \in Identity /\ f[i].part \in 1..f[i].id.len
        <4>1. i \in 1..Len(f)
          BY FileTypes
        <4> QED BY <4>1, FileTypes
      <3> QED BY <3>1 DEF TypeInv, FilesOK
    <2> QED BY <2>1 DEF TypeInv, FilesOK, IdTypeOK
  <1> QED BY <1>1, Files, PTL

-----------------------------------------------------------------------------
(* Scans, by induction over the file. *)

\* Induction without an operator for a parameter: a set that holds 0 and with
\* each number the next holds every number.
LEMMA SetInduction ==
    ASSUME NEW S, 0 \in S, \A n \in Nat : n \in S => n + 1 \in S
    PROVE  Nat \subseteq S
  <1> DEFINE R == OpToRel(<, Nat)
             T == Nat \ S
  <1> SUFFICES ASSUME T # {} PROVE FALSE
    OBVIOUS
  <1>1. IsWellFoundedOn(R, Nat)
    BY NatLessThanWellFounded
  <1>2. PICK x \in T : \A y \in T : ~(<<y, x>> \in R)
    <2>1. T \subseteq Nat
      OBVIOUS
    <2> HIDE DEF R, T
    <2> QED BY <1>1, <2>1, WFMin
  <1>3. x # 0 /\ x \in Nat
    OBVIOUS
  <1>4. x - 1 \in Nat /\ x - 1 < x
    BY <1>3
  <1>5. <<x - 1, x>> \in R
    BY <1>3, <1>4 DEF OpToRel
  <1>6. x - 1 \in S
    BY <1>2, <1>4, <1>5
  <1>7. (x - 1) + 1 \in S
    BY <1>4, <1>6
  <1> QED BY <1>3, <1>7

\* Offsets at which documents follow each other, from o on.
Trail(f, o, r) ==
    /\ r \in Seq(0..Len(f))
    /\ Len(r) >= 1
    /\ r[1] = o
    /\ \A i \in 1..(Len(r) - 1) :
          /\ r[i] < Len(f)
          /\ f[r[i] + 1].part = 1
          /\ r[i + 1] = r[i] + f[r[i] + 1].id.len

\* Those a scan from o reads at, up to the one where it stops.
Run(f, o, r) ==
    /\ Trail(f, o, r)
    /\ \A i \in 1..(Len(r) - 1) : Readable(f, r[i])
    /\ ~Readable(f, r[Len(r)])

\* Where the scan at o goes on.
After(f, o) == o + f[o + 1].id.len

\* The same for an accepted document.
LEMMA ReadableJump ==
    ASSUME NEW f \in File, NEW o \in 0..Len(f), Readable(f, o)
    PROVE  After(f, o) \in 0..Len(f) /\ After(f, o) > o
  <1>1. o \in Nat /\ o < Len(f) /\ f[o + 1].part = 1 /\ Len(f) \in Nat
    BY FileTypes DEF Readable
  <1>2. f[o + 1].id.len \in Nat \ {0} /\ o + f[o + 1].id.len \in 0..Len(f)
    BY <1>1, Jump
  <1> QED BY <1>1, <1>2 DEF After

\* A scan that stops where it starts.
LEMMA RunStop ==
    ASSUME NEW f \in File, NEW o \in 0..Len(f), ~Readable(f, o)
    PROVE  Run(f, o, <<o>>)
  <1> DEFINE r == <<o>>
  <1>1. r \in Seq(0..Len(f)) /\ Len(r) = 1 /\ r[1] = o
    OBVIOUS
  <1> HIDE DEF r
  <1>2. Run(f, o, r)
    BY <1>1 DEF Run, Trail
  <1> QED BY <1>2 DEF r

\* A sequence with one more element in front.
LEMMA ConsSeq ==
    ASSUME NEW S, NEW o \in S, NEW r \in Seq(S), NEW c, c = <<o>> \o r
    PROVE  /\ c \in Seq(S) /\ Len(c) = Len(r) + 1 /\ c[1] = o
           /\ \A i \in 1..Len(r) : c[i + 1] = r[i]
  OBVIOUS

\* A scan that reads a document and goes on.
LEMMA RunCons ==
    ASSUME NEW f \in File, NEW o \in 0..Len(f), Readable(f, o),
           NEW r, Run(f, After(f, o), r)
    PROVE  Run(f, o, <<o>> \o r)
  <1> DEFINE c == <<o>> \o r
  <1>1. r \in Seq(0..Len(f)) /\ Len(r) \in Nat /\ Len(r) >= 1
        /\ r[1] = After(f, o)
    BY DEF Run, Trail
  <1>2. /\ c \in Seq(0..Len(f)) /\ Len(c) = Len(r) + 1 /\ c[1] = o
        /\ \A i \in 1..Len(r) : c[i + 1] = r[i]
    BY <1>1, ConsSeq
  <1> HIDE DEF c
  <1>3. ASSUME NEW i \in 1..(Len(c) - 1)
        PROVE  /\ c[i] < Len(f) /\ f[c[i] + 1].part = 1
               /\ c[i + 1] = c[i] + f[c[i] + 1].id.len
               /\ Readable(f, c[i])
    <2>1. CASE i = 1
      <3>1. c[i] = o /\ c[i + 1] = After(f, o)
        BY <1>1, <1>2, <2>1
      <3> QED BY <3>1 DEF Readable, After
    <2>2. CASE i # 1
      <3> DEFINE j == i - 1
      <3>1. /\ j \in 1..(Len(r) - 1) /\ i = j + 1
            /\ j + 1 \in 1..Len(r) /\ j \in 1..Len(r)
        BY <1>1, <1>2, <2>2
      <3> HIDE DEF j
      <3>2. c[i] = r[j] /\ c[i + 1] = r[j + 1]
        BY <1>2, <3>1
      <3> QED BY <3>1, <3>2 DEF Run, Trail
    <2> QED BY <2>1, <2>2
  <1>4. c[Len(c)] = r[Len(r)]
    <2> DEFINE n == Len(r)
    <2>1. n \in 1..Len(r)
      BY <1>1
    <2> HIDE DEF n
    <2>2. c[n + 1] = r[n]
      BY <1>2, <2>1
    <2> QED BY <1>2, <2>2 DEF n
  <1>5. Run(f, o, c)
    BY <1>1, <1>2, <1>3, <1>4 DEF Run, Trail
  <1> QED BY <1>5 DEF c

\* The recursion of Offsets, and what solves it for the last n + 1 offsets.
Body(f, h, o) == IF Readable(f, o) THEN <<o>> \o h[After(f, o)] ELSE <<o>>

Recurs(f, h) == h = [o \in 0..Len(f) |-> Body(f, h, o)]

Solves(f, h, n) ==
    /\ h \in [0..Len(f) -> Seq(0..Len(f))]
    /\ \A o \in 0..Len(f) : o >= Len(f) - n => h[o] = Body(f, h, o)

\* The scan stops at the end of the file.
LEMMA SolvesFirst == ASSUME NEW f \in File PROVE \E h : Solves(f, h, 0)
  <1> DEFINE h == [o \in 0..Len(f) |-> <<o>>]
  <1>1. h \in [0..Len(f) -> Seq(0..Len(f))]
    OBVIOUS
  <1>2. \A o \in 0..Len(f) : h[o] = <<o>>
    OBVIOUS
  <1> HIDE DEF h
  <1>3. ASSUME NEW o \in 0..Len(f), o >= Len(f) - 0 PROVE h[o] = Body(f, h, o)
    <2>1. Len(f) \in Nat
      BY FileTypes
    <2>2. ~Readable(f, o)
      BY <1>3, <2>1 DEF Readable
    <2> QED BY <1>2, <2>2 DEF Body
  <1>4. Solves(f, h, 0)
    BY <1>1, <1>3 DEF Solves
  <1> QED BY <1>4

\* One offset further to the front.
LEMMA SolvesNext ==
    ASSUME NEW f \in File, NEW n \in Nat, NEW h, Solves(f, h, n)
    PROVE  \E g : Solves(f, g, n + 1)
  <1> DEFINE q == Len(f) - n - 1
  <1>0. Len(f) \in Nat /\ q \in Int
    BY FileTypes
  <1>1. \A o \in Int : o >= Len(f) - (n + 1) <=> (o >= Len(f) - n \/ o = q)
    BY <1>0
  <1>2. Len(f) - n = q + 1
    BY <1>0
  <1> HIDE DEF q
  <1>3. CASE q < 0
    <2>1. \A o \in 0..Len(f) : o >= Len(f) - n
      BY <1>0, <1>2, <1>3
    <2>2. Solves(f, h, n + 1)
      BY <2>1 DEF Solves
    <2> QED BY <2>2
  <1>4. CASE q >= 0
    <2> DEFINE v == Body(f, h, q)
               g == [h EXCEPT ![q] = v]
    <2>1. q \in 0..Len(f)
      BY <1>0, <1>2, <1>4
    <2>2. v \in Seq(0..Len(f))
      <3>1. CASE Readable(f, q)
        <4>1. After(f, q) \in 0..Len(f)
          BY <2>1, <3>1, ReadableJump
        <4>2. h[After(f, q)] \in Seq(0..Len(f))
          BY <4>1 DEF Solves
        <4>3. v = <<q>> \o h[After(f, q)]
          BY <3>1 DEF Body
        <4> HIDE DEF v
        <4> QED BY <2>1, <4>2, <4>3, ConsSeq
      <3>2. CASE ~Readable(f, q)
        <4>1. v = <<q>>
          BY <3>2 DEF Body
        <4> HIDE DEF v
        <4> QED BY <2>1, <4>1
      <3> QED BY <3>1, <3>2
    <2>3. h \in [0..Len(f) -> Seq(0..Len(f))]
      BY DEF Solves
    <2>v. v = Body(f, h, q)
      OBVIOUS
    <2> HIDE DEF v
    <2>4. /\ g \in [0..Len(f) -> Seq(0..Len(f))]
          /\ g[q] = v
          /\ \A o \in 0..Len(f) : o # q => g[o] = h[o]
      BY <2>1, <2>2, <2>3
    <2> HIDE DEF g
    <2>5. ASSUME NEW o \in 0..Len(f), o >= Len(f) - (n + 1)
          PROVE  g[o] = Body(f, g, o)
      <3>1. g[o] = Body(f, h, o)
        <4>1. CASE o = q
          BY <2>4, <2>v, <4>1
        <4>2. CASE o # q
          <5>1. o \in Int /\ o >= Len(f) - n
            BY <1>1, <2>5, <4>2
          <5> QED BY <2>4, <4>2, <5>1 DEF Solves
        <4> QED BY <4>1, <4>2
      <3>2. CASE Readable(f, o)
        <4>1. After(f, o) \in 0..Len(f) /\ After(f, o) > o
          BY <3>2, ReadableJump
        <4>2. After(f, o) # q
          <5>1. o >= q
            BY <1>0, <1>1, <1>2, <2>5
          <5> QED BY <1>0, <4>1, <5>1
        <4>3. g[After(f, o)] = h[After(f, o)]
          BY <2>4, <4>1, <4>2
        <4> QED BY <3>1, <3>2, <4>3 DEF Body
      <3>3. CASE ~Readable(f, o)
        BY <3>1, <3>3 DEF Body
      <3> QED BY <3>2, <3>3
    <2>6. Solves(f, g, n + 1)
      BY <2>4, <2>5 DEF Solves
    <2> QED BY <2>6
  <1> QED BY <1>0, <1>3, <1>4

\* The recursion has a solution: one for the offsets near the end is extended
\* to the one before them.
LEMMA RecursSolvable == ASSUME NEW f \in File PROVE \E h : Recurs(f, h)
  <1> DEFINE S == {n \in Nat : \E h : Solves(f, h, n)}
  <1>1. 0 \in S
    BY SolvesFirst
  <1>2. \A n \in Nat : n \in S => n + 1 \in S
    BY SolvesNext
  <1>3. Nat \subseteq S
    <2> HIDE DEF S
    <2> QED BY <1>1, <1>2, SetInduction
  <1>4. Len(f) \in Nat
    BY FileTypes
  <1>5. PICK h : Solves(f, h, Len(f))
    BY <1>3, <1>4
  <1>6. \A o \in 0..Len(f) : h[o] = Body(f, h, o)
    BY <1>4, <1>5 DEF Solves
  <1>7. h = [o \in 0..Len(f) |-> Body(f, h, o)]
    BY <1>5, <1>6 DEF Solves
  <1> QED BY <1>7 DEF Recurs

\* Every solution gives runs.
LEMMA RecursRuns ==
    ASSUME NEW f \in File, NEW h, Recurs(f, h)
    PROVE  \A o \in 0..Len(f) : Run(f, o, h[o])
  <1> DEFINE L == Len(f)
             S == {n \in Nat : \A o \in 0..L : o >= L - n => Run(f, o, h[o])}
  <1>0. L \in Nat
    BY FileTypes
  <1>a. \A o \in 0..L : h[o] = IF Readable(f, o) THEN <<o>> \o h[After(f, o)]
                                                 ELSE <<o>>
    BY DEF Recurs, Body
  <1>1. 0 \in S
    <2> SUFFICES ASSUME NEW o \in 0..L, o >= L PROVE Run(f, o, h[o])
      BY <1>0
    <2>1. ~Readable(f, o)
      BY <1>0 DEF Readable
    <2> QED BY <1>a, <2>1, RunStop
  <1>2. ASSUME NEW n \in Nat, n \in S PROVE n + 1 \in S
    <2> SUFFICES ASSUME NEW o \in 0..L, o >= L - (n + 1) PROVE Run(f, o, h[o])
      OBVIOUS
    <2>1. CASE Readable(f, o)
      <3>1. After(f, o) \in 0..L /\ After(f, o) > o
        BY <2>1, ReadableJump
      <3>2. After(f, o) >= L - n
        BY <1>0, <3>1
      <3>3. Run(f, After(f, o), h[After(f, o)])
        BY <1>2, <3>1, <3>2
      <3> QED BY <1>a, <2>1, <3>3, RunCons
    <2>2. CASE ~Readable(f, o)
      BY <1>a, <2>2, RunStop
    <2> QED BY <2>1, <2>2
  <1>3. Nat \subseteq S
    <2> HIDE DEF S
    <2> QED BY <1>1, <1>2, SetInduction
  <1>4. L \in S
    BY <1>0, <1>3
  <1> QED BY <1>0, <1>4

\* Offsets is the run from the start of the file.
LEMMA OffsetsRun == ASSUME NEW f \in File PROVE Run(f, 0, Offsets(f))
  <1> DEFINE h == CHOOSE h : Recurs(f, h)
  <1>1. Recurs(f, h)
    BY RecursSolvable
  <1>2. Offsets(f) = h[0]
    BY DEF Offsets, Recurs, Body, After
  <1>3. 0 \in 0..Len(f)
    BY FileTypes
  <1> HIDE DEF h
  <1> QED BY <1>1, <1>2, <1>3, RecursRuns

\* Two trails from the same offset agree as far as both go.
LEMMA TrailsAgree ==
    ASSUME NEW f \in File, NEW o, NEW r, NEW s, Trail(f, o, r), Trail(f, o, s)
    PROVE  \A i \in Nat \ {0} : i <= Len(r) /\ i <= Len(s) => r[i] = s[i]
  <1> DEFINE S == {n \in Nat : n + 1 <= Len(r) /\ n + 1 <= Len(s)
                                 => r[n + 1] = s[n + 1]}
  <1>0. Len(r) \in Nat /\ Len(s) \in Nat
    BY DEF Trail
  <1>1. 0 \in S
    BY DEF Trail
  <1>2. ASSUME NEW n \in Nat, n \in S PROVE n + 1 \in S
    <2> SUFFICES ASSUME (n + 1) + 1 <= Len(r), (n + 1) + 1 <= Len(s)
                 PROVE  r[(n + 1) + 1] = s[(n + 1) + 1]
      BY <1>0
    <2>1. /\ n + 1 \in 1..(Len(r) - 1) /\ n + 1 \in 1..(Len(s) - 1)
          /\ n + 1 <= Len(r) /\ n + 1 <= Len(s)
      BY <1>0
    <2>2. r[n + 1] = s[n + 1]
      BY <1>2, <2>1
    <2> QED BY <2>1, <2>2 DEF Trail
  <1>3. Nat \subseteq S
    <2> HIDE DEF S
    <2> QED BY <1>1, <1>2, SetInduction
  <1>4. ASSUME NEW i \in Nat \ {0}, i <= Len(r), i <= Len(s) PROVE r[i] = s[i]
    <2>1. i - 1 \in S /\ (i - 1) + 1 = i
      BY <1>3
    <2> QED BY <1>4, <2>1
  <1> QED BY <1>4

-----------------------------------------------------------------------------
(* Two scans of the same file, and scans of a file that grows. *)

\* The offsets of a trail are those of cells.
LEMMA TrailTypes ==
    ASSUME NEW f \in File, NEW r, Trail(f, 0, r)
    PROVE  /\ r \in Seq(0..Len(f)) /\ Len(r) \in Nat /\ Len(r) >= 1
           /\ \A i \in 1..(Len(r) - 1) :
                 /\ r[i] \in 0..Len(f) /\ r[i] + 1 \in 1..Len(f)
                 /\ f[r[i] + 1].id \in Identity
                 /\ f[r[i] + 1].id.len \in Nat \ {0}
  <1>1. r \in Seq(0..Len(f)) /\ Len(r) \in Nat /\ Len(r) >= 1 /\ Len(f) \in Nat
    BY FileTypes DEF Trail
  <1>2. ASSUME NEW i \in 1..(Len(r) - 1)
        PROVE  r[i] \in 0..Len(f) /\ r[i] + 1 \in 1..Len(f)
    <2>1. i \in 1..Len(r) /\ r[i] < Len(f)
      BY <1>1 DEF Trail
    <2>2. r[i] \in 0..Len(f)
      BY <1>1, <2>1
    <2> QED BY <1>1, <2>1, <2>2
  <1> QED BY <1>1, <1>2, FileTypes

\* A scan is determined by where it starts.
LEMMA RunUnique ==
    ASSUME NEW f \in File, NEW r, NEW s, Run(f, 0, r), Run(f, 0, s)
    PROVE  r = s
  <1>1. /\ r \in Seq(0..Len(f)) /\ Len(r) \in Nat /\ Len(r) >= 1
        /\ s \in Seq(0..Len(f)) /\ Len(s) \in Nat /\ Len(s) >= 1
    BY TrailTypes DEF Run
  <1>2. \A i \in Nat \ {0} : i <= Len(r) /\ i <= Len(s) => r[i] = s[i]
    BY TrailsAgree DEF Run
  <1>3. ~(Len(r) < Len(s))
    <2> DEFINE n == Len(r)
    <2> SUFFICES ASSUME n < Len(s) PROVE FALSE
      OBVIOUS
    <2>1. n \in 1..(Len(s) - 1) /\ r[n] = s[n]
      BY <1>1, <1>2
    <2> QED BY <2>1 DEF Run
  <1>4. ~(Len(s) < Len(r))
    <2> DEFINE n == Len(s)
    <2> SUFFICES ASSUME n < Len(r) PROVE FALSE
      OBVIOUS
    <2>1. n \in 1..(Len(r) - 1) /\ r[n] = s[n]
      BY <1>1, <1>2
    <2> QED BY <2>1 DEF Run
  <1>5. Len(r) = Len(s) /\ \A i \in 1..Len(r) : r[i] = s[i]
    BY <1>1, <1>2, <1>3, <1>4
  <1> QED BY <1>1, <1>5, SeqEqual

\* So is a trail to the end of the file.
LEMMA TrailUnique ==
    ASSUME NEW f \in File, NEW r, NEW s, Trail(f, 0, r), Trail(f, 0, s),
           r[Len(r)] = Len(f), s[Len(s)] = Len(f)
    PROVE  r = s
  <1>1. /\ r \in Seq(0..Len(f)) /\ Len(r) \in Nat /\ Len(r) >= 1
        /\ s \in Seq(0..Len(f)) /\ Len(s) \in Nat /\ Len(s) >= 1
        /\ Len(f) \in Nat
    BY TrailTypes, FileTypes
  <1>2. \A i \in Nat \ {0} : i <= Len(r) /\ i <= Len(s) => r[i] = s[i]
    BY TrailsAgree
  <1>3. ~(Len(r) < Len(s))
    <2> DEFINE n == Len(r)
    <2> SUFFICES ASSUME n < Len(s) PROVE FALSE
      OBVIOUS
    <2>1. n \in 1..(Len(s) - 1) /\ r[n] = s[n]
      BY <1>1, <1>2
    <2>2. s[n] < Len(f)
      BY <2>1 DEF Trail
    <2> QED BY <1>1, <2>1, <2>2
  <1>4. ~(Len(s) < Len(r))
    <2> DEFINE n == Len(s)
    <2> SUFFICES ASSUME n < Len(r) PROVE FALSE
      OBVIOUS
    <2>1. n \in 1..(Len(r) - 1) /\ r[n] = s[n]
      BY <1>1, <1>2
    <2>2. r[n] < Len(f)
      BY <2>1 DEF Trail
    <2> QED BY <1>1, <2>1, <2>2
  <1>5. Len(r) = Len(s) /\ \A i \in 1..Len(r) : r[i] = s[i]
    BY <1>1, <1>2, <1>3, <1>4
  <1> QED BY <1>1, <1>5, SeqEqual

\* The identities of the documents on a trail.
Ids(f, r) == [i \in 1..(Len(r) - 1) |-> f[r[i] + 1].id]

\* The file consists of the documents of these identities.
Holds(f, ids) ==
    \E r : Trail(f, 0, r) /\ r[Len(r)] = Len(f) /\ ids = Ids(f, r)

\* They are identities.
LEMMA IdsTypes ==
    ASSUME NEW f \in File, NEW r, Trail(f, 0, r)
    PROVE  /\ Ids(f, r) \in Seq(Identity) /\ Len(Ids(f, r)) = Len(r) - 1
           /\ \A i \in 1..(Len(r) - 1) : Ids(f, r)[i] = f[r[i] + 1].id
  <1>1. Len(r) - 1 \in Nat
        /\ \A i \in 1..(Len(r) - 1) : f[r[i] + 1].id \in Identity
    BY TrailTypes
  <1> DEFINE n == Len(r) - 1
             g == Ids(f, r)
  <1>2. g \in [1..n -> Identity] /\ \A i \in 1..n : g[i] = f[r[i] + 1].id
    BY <1>1 DEF Ids
  <1>3. n \in Nat
    BY <1>1
  <1> HIDE DEF n, g
  <1>4. g \in Seq(Identity) /\ Len(g) = n
    BY <1>2, <1>3
  <1> QED BY <1>2, <1>4 DEF n, g

\* The scan finds those on the trail of its offsets.
LEMMA ScanIds ==
    ASSUME NEW f \in File
    PROVE  /\ Scan(f) = Ids(f, Offsets(f)) /\ Scan(f) \in Seq(Identity)
           /\ Len(Scan(f)) = Len(Offsets(f)) - 1
           /\ Len(Offsets(f)) \in Nat /\ Len(Offsets(f)) >= 1
  <1>1. Scan(f) = Ids(f, Offsets(f))
    BY DEF Scan, Ids
  <1>2. Trail(f, 0, Offsets(f))
    BY OffsetsRun DEF Run
  <1> QED BY <1>1, <1>2, IdsTypes, TrailTypes

\* A scan that reaches the end finds everything there is.
LEMMA CleanHolds ==
    ASSUME NEW f \in File, Clean(f) PROVE Holds(f, Scan(f))
  <1>1. Trail(f, 0, Offsets(f))
    BY OffsetsRun DEF Run
  <1>2. Offsets(f)[Len(Offsets(f))] = Len(f)
    BY DEF Clean, Last
  <1> QED BY <1>1, <1>2, ScanIds DEF Holds

\* And nothing else.
LEMMA HoldsScan ==
    ASSUME NEW f \in File, Clean(f), NEW ids, Holds(f, ids)
    PROVE  Scan(f) = ids
  <1>1. Trail(f, 0, Offsets(f))
    BY OffsetsRun DEF Run
  <1>2. Offsets(f)[Len(Offsets(f))] = Len(f)
    BY DEF Clean, Last
  <1>3. PICK r : Trail(f, 0, r) /\ r[Len(r)] = Len(f) /\ ids = Ids(f, r)
    BY DEF Holds
  <1>4. r = Offsets(f)
    BY <1>1, <1>2, <1>3, TrailUnique
  <1> QED BY <1>3, <1>4, ScanIds

\* The empty file.
LEMMA HoldsEmpty == ASSUME NEW f, f = << >> PROVE Holds(f, << >>) /\ f \in File
  <1> DEFINE r == <<0>>
  <1>1. f \in File
    BY EmptyFile
  <1>2. Len(f) = 0
    OBVIOUS
  <1>3. r \in Seq(0..Len(f)) /\ Len(r) = 1 /\ r[1] = 0
    BY <1>2
  <1> HIDE DEF r
  <1>4. Trail(f, 0, r) /\ r[Len(r)] = Len(f)
    BY <1>2, <1>3 DEF Trail
  <1>5. Ids(f, r) = << >>
    BY <1>3 DEF Ids
  <1> QED BY <1>1, <1>4, <1>5 DEF Holds

\* The elements of a sequence with one more at the end.
LEMMA AppendTypes ==
    ASSUME NEW S, NEW T, S \subseteq T, NEW r \in Seq(S), NEW x \in T,
           NEW s, s = Append(r, x)
    PROVE  /\ s \in Seq(T) /\ Len(s) = Len(r) + 1 /\ s[Len(r) + 1] = x
           /\ \A i \in 1..Len(r) : s[i] = r[i]
  OBVIOUS

\* The trail s of c is the trail r of f and one more document.
Extends(f, r, id, c, s) ==
    /\ c \in File /\ Trail(c, 0, s) /\ s[Len(s)] = Len(c)
    /\ Ids(c, s) = Append(Ids(f, r), id)
    /\ Len(s) = Len(r) + 1
    /\ \A i \in 1..(Len(r) - 1) : s[i] = r[i] /\ c[r[i] + 1] = f[r[i] + 1]
    /\ s[Len(r)] = Len(f) /\ Len(f) < Len(c)
    /\ c[Len(f) + 1] = [id |-> id, part |-> 1]

\* A trail to the end goes on through a document that is appended.
LEMMA TrailAppend ==
    ASSUME NEW f \in File, NEW id \in Identity,
           NEW r, Trail(f, 0, r), r[Len(r)] = Len(f),
           NEW c, c = f \o Document(id), NEW s, s = Append(r, Len(c))
    PROVE  Extends(f, r, id, c, s)
  <1> DEFINE g == Document(id)
  <1>1. /\ g \in File /\ Len(g) = id.len /\ id.len \in Nat \ {0}
        /\ f \in Seq(Cell) /\ g \in Seq(Cell) /\ Len(f) \in Nat
    BY DocumentFile, FileTypes, IdentityLength
  <1>g. g[1] = [id |-> id, part |-> 1]
    BY <1>1 DEF Document
  <1>2. /\ c \in File /\ Len(c) = Len(f) + id.len
        /\ \A i \in 1..Len(f) : c[i] = f[i]
        /\ c[Len(f) + 1] = g[1]
    <2> HIDE DEF g
    <2>1. c = f \o g
      BY DEF g
    <2>2. 1 \in 1..Len(g)
      BY <1>1
    <2>3. c \in File
      BY <1>1, <2>1, ConcatFile
    <2>a. f \in Seq(Cell) /\ g \in Seq(Cell)
      BY <1>1
    <2>4. /\ Len(c) = Len(f) + Len(g) /\ \A i \in 1..Len(f) : c[i] = f[i]
          /\ \A i \in 1..Len(g) : c[Len(f) + i] = g[i]
      BY <2>a, <2>1, Concatenation
    <2>5. c[Len(f) + 1] = g[1]
      BY <2>2, <2>4
    <2> QED BY <1>1, <2>3, <2>4, <2>5
  <1> HIDE DEF g
  <1>3. /\ r \in Seq(0..Len(f)) /\ Len(r) \in Nat /\ Len(r) >= 1
        /\ \A i \in 1..(Len(r) - 1) : r[i] + 1 \in 1..Len(f)
    BY TrailTypes
  <1>4. /\ s \in Seq(0..Len(c)) /\ Len(s) = Len(r) + 1
        /\ s[Len(r) + 1] = Len(c) /\ \A i \in 1..Len(r) : s[i] = r[i]
    <2>1. 0..Len(f) \subseteq 0..Len(c) /\ Len(c) \in 0..Len(c)
      BY <1>1, <1>2
    <2> QED BY <1>3, <2>1, AppendTypes
  <1>5. s[Len(r)] = Len(f)
    <2>1. Len(r) \in 1..Len(r)
      BY <1>3
    <2> QED BY <1>4, <2>1
  <1>6. ASSUME NEW i \in 1..(Len(s) - 1)
        PROVE  /\ s[i] < Len(c) /\ c[s[i] + 1].part = 1
               /\ s[i + 1] = s[i] + c[s[i] + 1].id.len
               /\ c[s[i] + 1].id = Append(Ids(f, r), id)[i]
    <2>0. /\ Ids(f, r) \in Seq(Identity) /\ Len(Ids(f, r)) = Len(r) - 1
          /\ \A k \in 1..(Len(r) - 1) : Ids(f, r)[k] = f[r[k] + 1].id
      BY IdsTypes
    <2> DEFINE a == Append(Ids(f, r), id)
    <2>a. /\ Len(a) = Len(r) /\ a[Len(r)] = id
          /\ \A k \in 1..(Len(r) - 1) : a[k] = f[r[k] + 1].id
      BY <1>3, <2>0, AppendTypes
    <2> HIDE DEF a
    <2>1. CASE i = Len(r)
      <3>1. s[i] = Len(f) /\ s[i + 1] = Len(c)
        BY <1>4, <1>5, <2>1
      <3>2. c[s[i] + 1].part = 1 /\ c[s[i] + 1].id = id
        <4>1. c[s[i] + 1] = [id |-> id, part |-> 1]
          BY <1>2, <1>g, <3>1
        <4> QED BY <4>1
      <3>3. s[i] < Len(c) /\ Len(c) = s[i] + id.len
        BY <1>1, <1>2, <3>1
      <3> QED BY <2>1, <2>a, <3>1, <3>2, <3>3 DEF a
    <2>2. CASE i # Len(r)
      <3>1. i \in 1..(Len(r) - 1) /\ i \in 1..Len(r) /\ i + 1 \in 1..Len(r)
        BY <1>3, <1>4, <2>2
      <3>2. s[i] = r[i] /\ s[i + 1] = r[i + 1] /\ r[i] + 1 \in 1..Len(f)
        BY <1>3, <1>4, <3>1
      <3>3. c[s[i] + 1] = f[r[i] + 1]
        BY <1>2, <3>2
      <3>4. r[i] < Len(f) /\ f[r[i] + 1].part = 1
            /\ r[i + 1] = r[i] + f[r[i] + 1].id.len
        BY <3>1 DEF Trail
      <3>5. s[i] < Len(c)
        BY <1>1, <1>2, <1>3, <3>1, <3>2, <3>4, TrailTypes
      <3> QED BY <2>a, <3>1, <3>2, <3>3, <3>4, <3>5 DEF a
    <2> QED BY <2>1, <2>2
  <1>7. Trail(c, 0, s)
    <2>1. s[1] = 0
      <3>1. 1 \in 1..Len(r) /\ r[1] = 0
        BY <1>3 DEF Trail
      <3> QED BY <1>4, <3>1
    <2>2. \A i \in 1..(Len(s) - 1) :
             /\ s[i] < Len(c) /\ c[s[i] + 1].part = 1
             /\ s[i + 1] = s[i] + c[s[i] + 1].id.len
      BY <1>6
    <2>3. Len(s) >= 1
      BY <1>3, <1>4
    <2> QED BY <1>4, <2>1, <2>2, <2>3 DEF Trail
  <1>8. Ids(c, s) = Append(Ids(f, r), id)
    <2> DEFINE a == Append(Ids(f, r), id)
               b == Ids(c, s)
    <2>0. Ids(f, r) \in Seq(Identity) /\ Len(Ids(f, r)) = Len(r) - 1
      BY IdsTypes
    <2>1. a \in Seq(Identity) /\ Len(a) = Len(r)
      BY <1>3, <2>0, AppendTypes
    <2>2. b \in Seq(Identity) /\ Len(b) = Len(r)
          /\ \A i \in 1..Len(r) : b[i] = c[s[i] + 1].id
      <3>1. Len(s) - 1 = Len(r)
        BY <1>3, <1>4
      <3>2. b \in Seq(Identity) /\ Len(b) = Len(s) - 1
        BY <1>2, <1>7, IdsTypes
      <3>3. \A i \in 1..(Len(s) - 1) : b[i] = c[s[i] + 1].id
        BY DEF Ids
      <3> HIDE DEF b
      <3> QED BY <3>1, <3>2, <3>3
    <2>3. \A i \in 1..Len(r) : a[i] = c[s[i] + 1].id
      <3>1. Len(s) - 1 = Len(r)
        BY <1>3, <1>4
      <3>2. \A i \in 1..(Len(s) - 1) : c[s[i] + 1].id = Append(Ids(f, r), id)[i]
        BY <1>6
      <3> QED BY <3>1, <3>2
    <2> HIDE DEF a, b
    <2>4. \A i \in 1..Len(r) : a[i] = b[i]
      BY <2>2, <2>3
    <2>5. a = b
      BY <2>1, <2>2, <2>4
    <2> QED BY <2>5 DEF a, b
  <1>9. \A i \in 1..(Len(r) - 1) : s[i] = r[i] /\ c[r[i] + 1] = f[r[i] + 1]
    BY <1>2, <1>3, <1>4
  <1>10. Len(f) < Len(c) /\ s[Len(s)] = Len(c)
    BY <1>1, <1>2, <1>4
  <1> QED BY <1>2, <1>4, <1>5, <1>7, <1>8, <1>9, <1>10, <1>g DEF Extends

\* One more document, one more identity.
LEMMA HoldsAppend ==
    ASSUME NEW f \in File, NEW ids, Holds(f, ids), NEW id \in Identity
    PROVE  Holds(f \o Document(id), Append(ids, id))
  <1>1. PICK r : Trail(f, 0, r) /\ r[Len(r)] = Len(f) /\ ids = Ids(f, r)
    BY DEF Holds
  <1> DEFINE c == f \o Document(id)
             s == Append(r, Len(c))
  <1>c. c = f \o Document(id) /\ s = Append(r, Len(c))
    OBVIOUS
  <1> HIDE DEF s, c
  <1>2. Extends(f, r, id, c, s)
    BY <1>1, <1>c, TrailAppend
  <1>3. Holds(c, Append(ids, id))
    BY <1>1, <1>2 DEF Holds, Extends
  <1> QED BY <1>3 DEF c

\* Appending a document of a length that is accepted.
LEMMA CleanAppend ==
    ASSUME NEW f \in File, Clean(f), NEW id \in Identity, id.len <= peek_len
    PROVE  /\ Clean(f \o Document(id))
           /\ Scan(f \o Document(id)) = Append(Scan(f), id)
  <1> DEFINE r == Offsets(f)
             c == f \o Document(id)
             s == Append(r, Len(c))
  <1>1. Run(f, 0, r) /\ r[Len(r)] = Len(f)
    BY OffsetsRun DEF Clean, Last
  <1>c. c = f \o Document(id) /\ s = Append(r, Len(c))
    OBVIOUS
  <1> HIDE DEF r, c, s
  <1>2. /\ c \in File /\ Trail(c, 0, s) /\ s[Len(s)] = Len(c)
        /\ Len(s) = Len(r) + 1
        /\ \A i \in 1..(Len(r) - 1) : s[i] = r[i] /\ c[r[i] + 1] = f[r[i] + 1]
        /\ s[Len(r)] = Len(f) /\ Len(f) < Len(c)
        /\ c[Len(f) + 1] = [id |-> id, part |-> 1]
    <2>1. Trail(f, 0, r)
      BY <1>1 DEF Run
    <2>2. Extends(f, r, id, c, s)
      BY <1>1, <1>c, <2>1, TrailAppend
    <2> QED BY <2>2 DEF Extends
  <1>3. Len(r) \in Nat /\ Len(r) >= 1 /\ Len(f) \in Nat /\ Len(c) \in Nat
        /\ r \in Seq(0..Len(f))
    BY <1>1, <1>2, TrailTypes, FileTypes DEF Run
  <1>4. ASSUME NEW i \in 1..(Len(s) - 1) PROVE Readable(c, s[i])
    <2>1. CASE i = Len(r)
      BY <1>2, <2>1 DEF Readable
    <2>2. CASE i # Len(r)
      <3>1. i \in 1..(Len(r) - 1)
        BY <1>2, <1>3, <2>2
      <3>2. Readable(f, r[i]) /\ s[i] = r[i] /\ c[r[i] + 1] = f[r[i] + 1]
        BY <1>1, <1>2, <3>1 DEF Run
      <3>3. r[i] \in 0..Len(f)
        BY <1>3, <3>1
      <3> QED BY <1>2, <1>3, <3>2, <3>3 DEF Readable
    <2> QED BY <2>1, <2>2
  <1>5. ~Readable(c, s[Len(s)])
    BY <1>2, <1>3 DEF Readable
  <1>6. Run(c, 0, s)
    BY <1>2, <1>4, <1>5 DEF Run
  <1>7. Offsets(c) = s
    BY <1>2, <1>6, OffsetsRun, RunUnique
  <1>8. Clean(c)
    BY <1>2, <1>7 DEF Clean, Last
  <1>9. Holds(f, Scan(f))
    BY CleanHolds
  <1>10. Holds(c, Append(Scan(f), id))
    BY <1>9, HoldsAppend DEF c
  <1>11. Scan(c) = Append(Scan(f), id)
    BY <1>2, <1>8, <1>10, HoldsScan
  <1> QED BY <1>8, <1>11 DEF c

-----------------------------------------------------------------------------
(* What a rewrite makes of a list of identities. *)

Uniq(ids) == \A i, k \in 1..Len(ids) : ids[i].uid = ids[k].uid => i = k

Without(ids, m) == SubSeq(ids, 1, m - 1) \o SubSeq(ids, m + 1, Len(ids))

\* What the job makes of the identities old: without the one of its uid, or
\* with a new one in its place; or it leaves them as they are.
Removed(j, old, new) ==
    \/ new = old /\ \A i \in 1..Len(old) : old[i].uid # j.uid
    \/ \E m \in 1..Len(old) : old[m].uid = j.uid /\ new = Without(old, m)

Updated(j, old, new) ==
    /\ Len(new) = Len(old)
    /\ \A i \in 1..Len(old) :
          \/ new[i] = old[i]
          \/ old[i].uid = j.uid /\ new[i] = [uid |-> j.uid, len |-> j.len]

Rewritten(j, old, new) ==
    /\ j.op = "remove" => Removed(j, old, new)
    /\ j.op # "remove" => Updated(j, old, new)

\* The list without one of its elements.
LEMMA WithoutTypes ==
    ASSUME NEW ids \in Seq(Identity), NEW m \in 1..Len(ids),
           NEW w, w = Without(ids, m)
    PROVE  /\ w \in Seq(Identity) /\ Len(w) = Len(ids) - 1
           /\ \A i \in 1..(m - 1) : w[i] = ids[i]
           /\ \A i \in m..(Len(ids) - 1) : w[i] = ids[i + 1]
  <1> DEFINE a == SubSeq(ids, 1, m - 1)
             b == SubSeq(ids, m + 1, Len(ids))
  <1>1. a \in Seq(Identity) /\ Len(a) = m - 1 /\ \A i \in 1..(m - 1) : a[i] = ids[i]
    OBVIOUS
  <1>2. b \in Seq(Identity) /\ Len(b) = Len(ids) - m
        /\ \A i \in 1..(Len(ids) - m) : b[i] = ids[m + i]
    OBVIOUS
  <1>3. w = a \o b /\ Len(ids) \in Nat
    BY DEF Without
  <1>a. a \in Seq(Identity) /\ b \in Seq(Identity)
    BY <1>1, <1>2
  <1> HIDE DEF a, b
  <1>4. /\ w \in Seq(Identity) /\ Len(w) = Len(a) + Len(b)
        /\ \A i \in 1..Len(a) : w[i] = a[i]
        /\ \A i \in 1..Len(b) : w[Len(a) + i] = b[i]
    BY <1>a, <1>3, Concatenation
  <1>5. \A i \in 1..(m - 1) : w[i] = ids[i]
    BY <1>1, <1>4
  <1>6. ASSUME NEW i \in m..(Len(ids) - 1) PROVE w[i] = ids[i + 1]
    <2> DEFINE k == i - (m - 1)
    <2>1. k \in 1..(Len(ids) - m) /\ i = (m - 1) + k /\ i + 1 = m + k
      BY <1>3
    <2> HIDE DEF k
    <2>2. w[(m - 1) + k] = b[k] /\ b[k] = ids[m + k]
      BY <1>1, <1>2, <1>4, <2>1
    <2> QED BY <2>1, <2>2
  <1> QED BY <1>1, <1>2, <1>3, <1>4, <1>5, <1>6

\* The list with one more identity.
LEMMA AppendIds ==
    ASSUME NEW ids \in Seq(Identity), NEW x \in Identity,
           NEW s, s = Append(ids, x)
    PROVE  /\ s \in Seq(Identity) /\ Len(s) = Len(ids) + 1
           /\ s[Len(ids) + 1] = x /\ \A i \in 1..Len(ids) : s[i] = ids[i]
  OBVIOUS

\* Removing commutes with a further identity.
LEMMA WithoutAppend ==
    ASSUME NEW ids \in Seq(Identity), NEW m \in 1..Len(ids), NEW x \in Identity
    PROVE  Append(Without(ids, m), x) = Without(Append(ids, x), m)
  <1> DEFINE w == Without(ids, m)
             a == Append(w, x)
             s == Append(ids, x)
             b == Without(s, m)
  <1>e. w = Without(ids, m) /\ a = Append(w, x) /\ s = Append(ids, x)
        /\ b = Without(s, m) /\ Len(ids) \in Nat
    OBVIOUS
  <1> HIDE DEF w, a, s, b
  <1>1. /\ w \in Seq(Identity) /\ Len(w) = Len(ids) - 1
        /\ \A i \in 1..(m - 1) : w[i] = ids[i]
        /\ \A i \in m..(Len(ids) - 1) : w[i] = ids[i + 1]
    BY <1>e, WithoutTypes
  <1>2. /\ a \in Seq(Identity) /\ Len(a) = Len(w) + 1
        /\ a[Len(w) + 1] = x /\ \A i \in 1..Len(w) : a[i] = w[i]
    BY <1>e, <1>1, AppendIds
  <1>3. /\ s \in Seq(Identity) /\ Len(s) = Len(ids) + 1
        /\ s[Len(ids) + 1] = x /\ \A i \in 1..Len(ids) : s[i] = ids[i]
    BY <1>e, AppendIds
  <1>4. m \in 1..Len(s)
    BY <1>e, <1>3
  <1>5. /\ b \in Seq(Identity) /\ Len(b) = Len(s) - 1
        /\ \A i \in 1..(m - 1) : b[i] = s[i]
        /\ \A i \in m..(Len(s) - 1) : b[i] = s[i + 1]
    BY <1>e, <1>3, <1>4, WithoutTypes
  <1>6. Len(a) = Len(ids) /\ Len(b) = Len(ids)
    BY <1>e, <1>1, <1>2, <1>3, <1>5
  <1>7. ASSUME NEW i \in 1..Len(a) PROVE a[i] = b[i]
    <2>1. CASE i < m
      <3>1. i \in 1..(m - 1) /\ i \in 1..Len(w) /\ i \in 1..Len(ids)
        BY <1>e, <1>1, <1>6, <2>1
      <3> QED BY <1>1, <1>2, <1>3, <1>5, <3>1
    <2>2. CASE i >= m /\ i < Len(ids)
      <3>1. /\ i \in m..(Len(ids) - 1) /\ i \in 1..Len(w) /\ i + 1 \in 1..Len(ids)
            /\ i \in m..(Len(s) - 1)
        BY <1>e, <1>1, <1>3, <1>6, <2>2
      <3> QED BY <1>1, <1>2, <1>3, <1>5, <3>1
    <2>3. CASE i = Len(ids)
      <3>1. i = Len(w) + 1 /\ i \in m..(Len(s) - 1)
        BY <1>e, <1>1, <1>3, <2>3
      <3>2. a[i] = x
        BY <1>2, <3>1
      <3>3. b[i] = s[i + 1] /\ s[i + 1] = x
        BY <1>3, <1>5, <2>3, <3>1
      <3> QED BY <3>2, <3>3
    <2> QED BY <1>e, <1>6, <2>1, <2>2, <2>3
  <1>8. a = b
    BY <1>2, <1>5, <1>6, <1>7, SeqEqual
  <1> QED BY <1>8, <1>e DEF a, b

\* Removing the last.
LEMMA WithoutLast ==
    ASSUME NEW ids \in Seq(Identity), NEW x \in Identity
    PROVE  Without(Append(ids, x), Len(ids) + 1) = ids
  <1> DEFINE s == Append(ids, x)
             n == Len(ids)
             b == Without(s, n + 1)
  <1>e. s = Append(ids, x) /\ n = Len(ids) /\ b = Without(s, n + 1) /\ n \in Nat
    OBVIOUS
  <1> HIDE DEF s, n, b
  <1>1. /\ s \in Seq(Identity) /\ Len(s) = Len(ids) + 1
        /\ \A i \in 1..Len(ids) : s[i] = ids[i]
    BY <1>e, AppendIds
  <1>2. n + 1 \in 1..Len(s)
    BY <1>e, <1>1
  <1>3. /\ b \in Seq(Identity) /\ Len(b) = Len(s) - 1
        /\ \A i \in 1..((n + 1) - 1) : b[i] = s[i]
    BY <1>e, <1>1, <1>2, WithoutTypes
  <1>4. Len(b) = Len(ids) /\ \A i \in 1..Len(b) : b[i] = ids[i]
    BY <1>e, <1>1, <1>3
  <1>5. b = ids
    BY <1>3, <1>4, SeqEqual
  <1> QED BY <1>5 DEF b, s, n

\* An identity that the job does not concern is kept.
LEMMA RewrittenKeep ==
    ASSUME NEW j, NEW old \in Seq(Identity), NEW new \in Seq(Identity),
           Rewritten(j, old, new), NEW x \in Identity,
           j.op = "remove" => x.uid # j.uid
    PROVE  Rewritten(j, Append(old, x), Append(new, x))
  <1> DEFINE o == Append(old, x)
             n == Append(new, x)
  <1>e. o = Append(old, x) /\ n = Append(new, x)
    OBVIOUS
  <1> HIDE DEF o, n
  <1>1. /\ o \in Seq(Identity) /\ Len(o) = Len(old) + 1
        /\ o[Len(old) + 1] = x /\ \A i \in 1..Len(old) : o[i] = old[i]
    BY <1>e, AppendIds
  <1>2. /\ n \in Seq(Identity) /\ Len(n) = Len(new) + 1
        /\ n[Len(new) + 1] = x /\ \A i \in 1..Len(new) : n[i] = new[i]
    BY <1>e, AppendIds
  <1>3. Len(old) \in Nat /\ Len(new) \in Nat
    OBVIOUS
  <1>4. ASSUME NEW i \in 1..Len(o) PROVE i \in 1..Len(old) \/ i = Len(old) + 1
    BY <1>1, <1>3
  <1>5. ASSUME j.op = "remove" PROVE Removed(j, o, n)
    <2>1. CASE new = old /\ \A i \in 1..Len(old) : old[i].uid # j.uid
      <3>1. n = o
        BY <1>e, <2>1
      <3>2. \A i \in 1..Len(o) : o[i].uid # j.uid
        BY <1>1, <1>4, <1>5, <2>1
      <3> QED BY <3>1, <3>2 DEF Removed
    <2>2. ASSUME NEW m \in 1..Len(old), old[m].uid = j.uid, new = Without(old, m)
          PROVE  Removed(j, o, n)
      <3>1. n = Without(o, m)
        BY <1>e, <2>2, WithoutAppend
      <3>2. m \in 1..Len(o) /\ o[m].uid = j.uid
        BY <1>1, <1>3, <2>2
      <3> QED BY <3>1, <3>2 DEF Removed
    <2> QED BY <1>5, <2>1, <2>2 DEF Rewritten, Removed
  <1>6. ASSUME j.op # "remove" PROVE Updated(j, o, n)
    <2>1. Updated(j, old, new)
      BY <1>6 DEF Rewritten
    <2>2. Len(n) = Len(o)
      BY <1>1, <1>2, <2>1 DEF Updated
    <2>3. ASSUME NEW i \in 1..Len(o)
          PROVE  \/ n[i] = o[i]
                 \/ o[i].uid = j.uid /\ n[i] = [uid |-> j.uid, len |-> j.len]
      <3>1. CASE i = Len(old) + 1
        BY <1>1, <1>2, <2>1, <3>1 DEF Updated
      <3>2. CASE i \in 1..Len(old)
        BY <1>1, <1>2, <2>1, <3>2 DEF Updated
      <3> QED BY <1>4, <3>1, <3>2
    <2> QED BY <2>2, <2>3 DEF Updated
  <1>7. Rewritten(j, o, n)
    BY <1>5, <1>6 DEF Rewritten
  <1> QED BY <1>7 DEF o, n

\* A removal leaves out the one entry of its uid.
LEMMA RewrittenDrop ==
    ASSUME NEW j, NEW old \in Seq(Identity), NEW new \in Seq(Identity),
           Rewritten(j, old, new), NEW x \in Identity,
           j.op = "remove", x.uid = j.uid, Uniq(Append(old, x))
    PROVE  Rewritten(j, Append(old, x), new)
  <1> DEFINE o == Append(old, x)
  <1>e. o = Append(old, x)
    OBVIOUS
  <1> HIDE DEF o
  <1>1. /\ o \in Seq(Identity) /\ Len(o) = Len(old) + 1
        /\ o[Len(old) + 1] = x /\ \A i \in 1..Len(old) : o[i] = old[i]
        /\ Len(old) \in Nat
    BY <1>e, AppendIds
  <1>2. \A i \in 1..Len(old) : old[i].uid # j.uid
    <2> SUFFICES ASSUME NEW i \in 1..Len(old), old[i].uid = j.uid PROVE FALSE
      OBVIOUS
    <2>1. o[i].uid = o[Len(old) + 1].uid
      BY <1>1
    <2>2. i \in 1..Len(o) /\ Len(old) + 1 \in 1..Len(o) /\ i # Len(old) + 1
      BY <1>1
    <2> QED BY <1>e, <2>1, <2>2 DEF Uniq
  <1>3. new = old
    BY <1>2 DEF Rewritten, Removed
  <1>4. Without(o, Len(old) + 1) = old
    BY <1>e, WithoutLast
  <1>5. Len(old) + 1 \in 1..Len(o) /\ o[Len(old) + 1].uid = j.uid
    BY <1>1
  <1>6. Removed(j, o, new)
    BY <1>3, <1>4, <1>5 DEF Removed
  <1> QED BY <1>6, <1>e DEF Rewritten

\* An update puts the new identity in the place of the old.
LEMMA RewrittenReplace ==
    ASSUME NEW j, NEW old \in Seq(Identity), NEW new \in Seq(Identity),
           Rewritten(j, old, new), NEW x \in Identity, NEW y \in Identity,
           j.op # "remove", x.uid = j.uid, y = [uid |-> j.uid, len |-> j.len]
    PROVE  Rewritten(j, Append(old, x), Append(new, y))
  <1> DEFINE o == Append(old, x)
             n == Append(new, y)
  <1>e. o = Append(old, x) /\ n = Append(new, y)
    OBVIOUS
  <1> HIDE DEF o, n
  <1>1. /\ o \in Seq(Identity) /\ Len(o) = Len(old) + 1
        /\ o[Len(old) + 1] = x /\ \A i \in 1..Len(old) : o[i] = old[i]
    BY <1>e, AppendIds
  <1>2. /\ n \in Seq(Identity) /\ Len(n) = Len(new) + 1
        /\ n[Len(new) + 1] = y /\ \A i \in 1..Len(new) : n[i] = new[i]
    BY <1>e, AppendIds
  <1>3. Len(old) \in Nat /\ Len(new) \in Nat
    OBVIOUS
  <1>4. Updated(j, old, new)
    BY DEF Rewritten
  <1>5. Len(n) = Len(o) /\ Len(new) = Len(old)
    BY <1>1, <1>2, <1>4 DEF Updated
  <1>6. ASSUME NEW i \in 1..Len(o)
        PROVE  \/ n[i] = o[i]
               \/ o[i].uid = j.uid /\ n[i] = [uid |-> j.uid, len |-> j.len]
    <2>1. CASE i = Len(old) + 1
      <3>1. n[i] = y /\ o[i] = x
        BY <1>1, <1>2, <1>5, <2>1
      <3> QED BY <3>1
    <2>2. CASE i \in 1..Len(old)
      BY <1>1, <1>2, <1>4, <1>5, <2>2 DEF Updated
    <2> QED BY <1>1, <1>3, <2>1, <2>2
  <1>7. Updated(j, o, n)
    BY <1>5, <1>6 DEF Updated
  <1> QED BY <1>7, <1>e DEF Rewritten

-----------------------------------------------------------------------------
(* The list that the files implement, until they are damaged. *)

\* A turn of the loop: what has been written holds what the job makes of what
\* has been read, and so it does with one more document.
LEMMA CopyTurn ==
    ASSUME job \in Jobs, NEW w \in File, NEW old \in Seq(Identity),
           NEW new \in Seq(Identity), Holds(w, new), Rewritten(job, old, new),
           NEW x \in Identity, Uniq(Append(old, x)), NEW c \in Replacements(x)
    PROVE  \E more \in Seq(Identity) :
              Holds(w \o c, more) /\ Rewritten(job, Append(old, x), more)
  <1>1. CASE c = Document(x) /\ (job.op = "remove" => x.uid # job.uid)
    <2>1. Append(new, x) \in Seq(Identity)
      BY AppendIds
    <2>2. Holds(w \o c, Append(new, x))
      BY <1>1, HoldsAppend
    <2>3. Rewritten(job, Append(old, x), Append(new, x))
      BY <1>1, RewrittenKeep
    <2> QED BY <2>1, <2>2, <2>3
  <1>2. CASE c = << >> /\ job.op = "remove" /\ x.uid = job.uid
    <2>1. w \o c = w
      <3>1. w \in Seq(Cell)
        BY FileTypes
      <3> QED BY <1>2, <3>1
    <2>2. Holds(w \o c, new)
      BY <2>1
    <2>3. Rewritten(job, Append(old, x), new)
      BY <1>2, RewrittenDrop
    <2> QED BY <2>2, <2>3
  <1>3. CASE /\ job.op # "remove" /\ x.uid = job.uid
             /\ c = Document([uid |-> job.uid, len |-> job.len])
    <2> DEFINE y == [uid |-> job.uid, len |-> job.len]
    <2>1. y \in Identity
      <3>1. job.uid \in Uid /\ job.len \in UpdateLens
        BY <1>3 DEF Jobs
      <3> QED BY <3>1 DEF Identity
    <2>2. y = [uid |-> job.uid, len |-> job.len]
      OBVIOUS
    <2> HIDE DEF y
    <2>3. Append(new, y) \in Seq(Identity)
      BY <2>1, AppendIds
    <2>4. Holds(w \o c, Append(new, y))
      BY <1>3, <2>1, <2>2, HoldsAppend
    <2>5. Rewritten(job, Append(old, x), Append(new, y))
      BY <1>3, <2>1, <2>2, RewrittenReplace
    <2> QED BY <2>3, <2>4, <2>5
  <1> QED BY <1>1, <1>2, <1>3 DEF Replacements

\* How far a rewrite has come.
Copied ==
    \E k \in 1..Len(Offsets(db)), ids \in Seq(Identity) :
       /\ from = Offsets(db)[k]
       /\ Holds(SubSeq(tmp, 1, at), ids)
       /\ Rewritten(job, SubSeq(Scan(db), 1, k - 1), ids)

\* Until it is damaged, the file that holds the contents can be read to its
\* end and has one entry of a uid, and a rewrite is on its way.
MapInv ==
    ~damaged => /\ Uniq(Contents)
                /\ pc # "gap" => Clean(db)
                /\ pc = "gap" => Clean(tmp)
                /\ pc = "copy" => Copied

\* One change of the list or none.
Change == \/ Contents' = Contents
          \/ Map!Save \/ Map!Remove \/ Map!Update

\* A scan of the empty file.
LEMMA EmptyClean ==
    ASSUME NEW f, f = << >> PROVE Clean(f) /\ Scan(f) = << >>
  <1>1. f \in File /\ Holds(f, << >>)
    BY HoldsEmpty
  <1>2. /\ Offsets(f) \in Seq(0..Len(f)) /\ Len(Offsets(f)) \in Nat
        /\ Len(Offsets(f)) >= 1
    BY <1>1, OffsetsRun, TrailTypes DEF Run
  <1>3. Len(f) = 0
    OBVIOUS
  <1>4. Len(Offsets(f)) \in 1..Len(Offsets(f))
    BY <1>2
  <1>5. Offsets(f)[Len(Offsets(f))] \in 0..Len(f)
    BY <1>2, <1>4
  <1>6. Clean(f)
    BY <1>3, <1>5 DEF Clean, Last
  <1> QED BY <1>1, <1>6, HoldsScan

\* The list is empty at first.
LEMMA MapInit == Init => MapInv
  <1> SUFFICES ASSUME Init PROVE MapInv
    OBVIOUS
  <1>1. pc = "idle" /\ db = << >>
    BY DEF Init
  <1>2. Clean(db) /\ Scan(db) = << >>
    BY <1>1, EmptyClean
  <1>3. Contents = << >>
    BY <1>1, <1>2 DEF Contents
  <1>4. Uniq(Contents)
    BY <1>3 DEF Uniq
  <1> QED BY <1>1, <1>2, <1>4 DEF MapInv

\* The scan is as long as the entries counted.
LEMMA EntriesCounted ==
    ASSUME NEW f \in File, Clean(f),
           wish_get_num_uid_entries(f) < WISH_PORT_MAX_UIDS
    PROVE  Len(Scan(f)) < WISH_PORT_MAX_UIDS
  <1>1. Len(Scan(f)) \in Nat
    BY ScanIds
  <1>2. WISH_PORT_MAX_UIDS \in Nat
    BY IdentityDbAssumption DEF IdentityDbAssumption
  <1> QED BY <1>1, <1>2 DEF wish_get_num_uid_entries

\* Saving adds an identity that is not there.
LEMMA SaveStep ==
    ASSUME TypeInv, MapInv, ~damaged, NEW id \in Identity, id.len <= peek_len,
           wish_save_identity_entry(id)
    PROVE  MapInv' /\ Change
  <1>1. /\ pc = "idle" /\ pc' = "idle" /\ damaged' = damaged
        /\ db' = db \o Document(id) /\ ~wish_identity_exists(db, id.uid)
        /\ wish_get_num_uid_entries(db) < WISH_PORT_MAX_UIDS
    BY DEF wish_save_identity_entry
  <1>2. db \in File /\ Clean(db) /\ Uniq(Scan(db)) /\ Contents = Scan(db)
    BY <1>1 DEF TypeInv, FilesOK, MapInv, Contents
  <1>3. Clean(db') /\ Scan(db') = Append(Scan(db), id)
    BY <1>1, <1>2, CleanAppend
  <1>4. Contents' = Append(Contents, id)
    BY <1>1, <1>2, <1>3 DEF Contents
  <1>5. Contents \in Seq(Identity) /\ DOMAIN Contents = 1..Len(Contents)
    BY <1>2, ScanIds
  <1>6. \A i \in 1..Len(Contents) : Contents[i].uid # id.uid
    BY <1>1, <1>2, <1>5 DEF wish_identity_exists
  <1>7. Uniq(Contents')
    <2> DEFINE s == Append(Contents, id)
    <2>1. /\ Len(s) = Len(Contents) + 1 /\ Len(Contents) \in Nat
          /\ s[Len(Contents) + 1] = id
          /\ \A i \in 1..Len(Contents) : s[i] = Contents[i]
      BY <1>5, AppendIds
    <2> HIDE DEF s
    <2>2. ASSUME NEW i \in 1..Len(s), NEW k \in 1..Len(s), s[i].uid = s[k].uid
          PROVE  i = k
      <3>1. CASE i \in 1..Len(Contents) /\ k \in 1..Len(Contents)
        BY <1>2, <2>1, <2>2, <3>1 DEF Uniq
      <3>2. CASE i \in 1..Len(Contents) /\ k = Len(Contents) + 1
        BY <1>6, <2>1, <2>2, <3>2
      <3>3. CASE i = Len(Contents) + 1 /\ k \in 1..Len(Contents)
        BY <1>6, <2>1, <2>2, <3>3
      <3>4. CASE i = Len(Contents) + 1 /\ k = Len(Contents) + 1
        BY <3>4
      <3> QED BY <2>1, <3>1, <3>2, <3>3, <3>4
    <2>3. Uniq(s)
      BY <2>2 DEF Uniq
    <2> QED BY <1>4, <2>3 DEF s
  <1>8. Map!Save
    <2>1. Len(Contents) < WISH_PORT_MAX_UIDS
      BY <1>1, <1>2, EntriesCounted
    <2>2. ~Map!Known(id.uid)
      BY <1>5, <1>6 DEF Map!Known
    <2> QED BY <1>4, <2>1, <2>2 DEF Map!Save
  <1>9. MapInv'
    BY <1>1, <1>3, <1>7 DEF MapInv
  <1> QED BY <1>8, <1>9 DEF Change

\* A rewrite begins with nothing read and nothing written.
LEMMA BeginStep ==
    ASSUME TypeInv, MapInv, ~damaged, NEW j \in Jobs, Begin(j)
    PROVE  MapInv' /\ Change
  <1>1. /\ pc = "idle" /\ pc' = "copy" /\ damaged' = damaged
        /\ db' = db /\ tmp' = tmp /\ job' = j /\ from' = 0 /\ at' = 0
    BY DEF Begin
  <1>2. Contents' = Contents /\ db \in File /\ Clean(db) /\ Uniq(Contents)
    BY <1>1 DEF Contents, TypeInv, FilesOK, MapInv
  <1>3. Copied'
    <2>1. 1 \in 1..Len(Offsets(db)) /\ Offsets(db)[1] = 0
      BY <1>2, OffsetsRun, ScanIds DEF Run, Trail
    <2>2. Holds(SubSeq(tmp, 1, 0), << >>)
      <3>1. SubSeq(tmp, 1, 0) = << >>
        OBVIOUS
      <3> QED BY <3>1, HoldsEmpty
    <2>3. SubSeq(Scan(db), 1, 1 - 1) = << >>
      OBVIOUS
    <2>4. Rewritten(j, << >>, << >>)
      BY DEF Rewritten, Removed, Updated
    <2>5. << >> \in Seq(Identity)
      OBVIOUS
    <2> QED BY <1>1, <2>1, <2>2, <2>3, <2>4, <2>5 DEF Copied
  <1> QED BY <1>1, <1>2, <1>3 DEF MapInv, Change

\* What is before the next of a sequence.
LEMMA NextPrefix ==
    ASSUME NEW ids \in Seq(Identity), NEW k \in 1..Len(ids)
    PROVE  /\ SubSeq(ids, 1, k) = Append(SubSeq(ids, 1, k - 1), ids[k])
           /\ SubSeq(ids, 1, k - 1) \in Seq(Identity) /\ ids[k] \in Identity
  <1> DEFINE a == SubSeq(ids, 1, k)
             b == SubSeq(ids, 1, k - 1)
             s == Append(b, ids[k])
  <1>1. a \in Seq(Identity) /\ Len(a) = k /\ \A i \in 1..k : a[i] = ids[i]
    OBVIOUS
  <1>2. b \in Seq(Identity) /\ Len(b) = k - 1 /\ \A i \in 1..(k - 1) : b[i] = ids[i]
    OBVIOUS
  <1>3. ids[k] \in Identity
    OBVIOUS
  <1>e. s = Append(b, ids[k])
    OBVIOUS
  <1> HIDE DEF a, b, s
  <1>4. /\ s \in Seq(Identity) /\ Len(s) = Len(b) + 1
        /\ s[Len(b) + 1] = ids[k] /\ \A i \in 1..Len(b) : s[i] = b[i]
    BY <1>2, <1>3, <1>e, AppendIds
  <1>5. Len(s) = Len(a) /\ \A i \in 1..Len(s) : s[i] = a[i]
    BY <1>1, <1>2, <1>4
  <1>6. s = a
    BY <1>1, <1>4, <1>5, SeqEqual
  <1> QED BY <1>2, <1>3, <1>6 DEF a, b, s

\* A part of a list with one entry of a uid.
LEMMA UniqPrefix ==
    ASSUME NEW ids \in Seq(Identity), NEW k \in 1..Len(ids), Uniq(ids)
    PROVE  Uniq(SubSeq(ids, 1, k))
  <1> DEFINE a == SubSeq(ids, 1, k)
  <1>1. Len(a) = k /\ Len(ids) \in Nat /\ \A i \in 1..k : a[i] = ids[i]
    OBVIOUS
  <1> HIDE DEF a
  <1>2. Uniq(a)
    BY <1>1 DEF Uniq
  <1> QED BY <1>2 DEF a

\* Where a turn of the loop leads.
LEMMA TurnOffsets ==
    ASSUME TypeInv, CopyDocument, NEW k \in 1..Len(Offsets(db)),
           from = Offsets(db)[k]
    PROVE  /\ k \in 1..Len(Scan(db)) /\ k + 1 \in 1..Len(Offsets(db))
           /\ from' = Offsets(db)[k + 1]
           /\ db[from + 1].id \in Identity /\ db[from + 1].id.len <= peek_len
           /\ SubSeq(Scan(db), 1, k - 1) \in Seq(Identity)
           /\ SubSeq(Scan(db), 1, (k + 1) - 1)
                = Append(SubSeq(Scan(db), 1, k - 1), db[from + 1].id)
  <1> DEFINE r == Offsets(db)
             x == db[from + 1].id
  <1>1. Readable(db, from) /\ from' = from + x.len
    BY DEF CopyDocument
  <1>2. db \in File
    BY DEF TypeInv, FilesOK
  <1>3. /\ Scan(db) \in Seq(Identity) /\ Len(Scan(db)) = Len(r) - 1
        /\ Len(r) \in Nat /\ Scan(db) = Ids(db, r) /\ Run(db, 0, r)
    BY <1>2, ScanIds, OffsetsRun
  <1>e. r = Offsets(db) /\ x = db[from + 1].id /\ from = r[k]
    OBVIOUS
  <1> HIDE DEF r, x
  <1>4. k # Len(r)
    BY <1>1, <1>3, <1>e DEF Run
  <1>5. k \in 1..(Len(r) - 1) /\ k \in 1..Len(Scan(db)) /\ k + 1 \in 1..Len(r)
    BY <1>3, <1>4, <1>e
  <1>6. from' = r[k + 1]
    BY <1>1, <1>3, <1>5, <1>e DEF Run, Trail
  <1>7. Scan(db)[k] = x
    BY <1>3, <1>5, <1>e DEF Ids
  <1>8. /\ SubSeq(Scan(db), 1, k) = Append(SubSeq(Scan(db), 1, k - 1), x)
        /\ SubSeq(Scan(db), 1, k - 1) \in Seq(Identity) /\ x \in Identity
    BY <1>3, <1>5, <1>7, NextPrefix
  <1>9. (k + 1) - 1 = k
    BY <1>5
  <1>10. x.len <= peek_len
    BY <1>1, <1>e DEF Readable
  <1> QED BY <1>5, <1>6, <1>8, <1>9, <1>10, <1>e

\* What a turn of the loop writes.
LEMMA TurnWrites ==
    ASSUME TypeInv, CopyDocument, db[from + 1].id \in Identity
    PROVE  \E c \in Replacements(db[from + 1].id) :
              SubSeq(tmp', 1, at') = SubSeq(tmp, 1, at) \o c
  <1>1. PICK c \in Replacements(db[from + 1].id) :
          tmp' = Overwrite(tmp, at, c) /\ at' = at + Len(c)
    BY DEF CopyDocument
  <1>2. job \in Jobs
    BY DEF CopyDocument, TypeInv
  <1>3. c \in File
    BY <1>1, <1>2, WrittenFile
  <1>4. tmp \in File /\ at \in 0..Len(tmp) /\ SubSeq(tmp, 1, at) \in File
    BY DEF TypeInv, FilesOK
  <1>5. SubSeq(tmp', 1, at') = SubSeq(tmp, 1, at) \o c
    BY <1>1, <1>3, <1>4, OverwriteFile
  <1> QED BY <1>5

\* When the loop ends, everything the scan finds has been read.
LEMMA LoopEnd ==
    ASSUME TypeInv, ~Readable(db, from), NEW k \in 1..Len(Offsets(db)),
           from = Offsets(db)[k]
    PROVE  SubSeq(Scan(db), 1, k - 1) = Scan(db)
  <1> DEFINE r == Offsets(db)
             s == Scan(db)
  <1>1. /\ s \in Seq(Identity) /\ Len(s) = Len(r) - 1
        /\ Len(r) \in Nat /\ Run(db, 0, r)
    BY ScanIds, OffsetsRun DEF TypeInv, FilesOK
  <1>e. from = r[k] /\ k \in 1..Len(r)
    OBVIOUS
  <1> HIDE DEF r, s
  <1>2. k = Len(r)
    <2>1. ~(k \in 1..(Len(r) - 1))
      BY <1>1, <1>e DEF Run
    <2> QED BY <1>1, <1>e, <2>1
  <1>3. SubSeq(s, 1, Len(s)) = s
    BY <1>1
  <1>4. k - 1 = Len(s)
    BY <1>1, <1>2
  <1> QED BY <1>3, <1>4 DEF s

\* A turn of the loop changes nothing in the list.
LEMMA CopyStep ==
    ASSUME TypeInv, MapInv, ~damaged, CopyDocument
    PROVE  MapInv' /\ Change
  <1>1. /\ pc = "copy" /\ pc' = "copy" /\ damaged' = damaged
        /\ db' = db /\ job' = job
    BY DEF CopyDocument
  <1>2. /\ Contents' = Contents /\ Uniq(Contents) /\ Contents = Scan(db)
        /\ Clean(db) /\ db \in File /\ job \in Jobs
    BY <1>1 DEF Contents, MapInv, TypeInv, FilesOK
  <1> DEFINE w == SubSeq(tmp, 1, at)
             x == db[from + 1].id
  <1>3. PICK k \in 1..Len(Offsets(db)), ids \in Seq(Identity) :
          /\ from = Offsets(db)[k] /\ Holds(w, ids)
          /\ Rewritten(job, SubSeq(Scan(db), 1, k - 1), ids)
    BY <1>1 DEF MapInv, Copied
  <1> DEFINE old == SubSeq(Scan(db), 1, k - 1)
  <1>4. /\ k \in 1..Len(Scan(db)) /\ k + 1 \in 1..Len(Offsets(db))
        /\ from' = Offsets(db)[k + 1] /\ x \in Identity /\ old \in Seq(Identity)
        /\ SubSeq(Scan(db), 1, (k + 1) - 1) = Append(old, x)
    BY <1>3, TurnOffsets
  <1>5. PICK c \in Replacements(x) : SubSeq(tmp', 1, at') = w \o c
    BY <1>4, TurnWrites
  <1>6. w \in File
    BY DEF TypeInv, FilesOK
  <1>7. Uniq(Append(old, x))
    <2>1. (k + 1) - 1 = k /\ Scan(db) \in Seq(Identity)
      BY <1>2, <1>4, ScanIds
    <2>2. Uniq(SubSeq(Scan(db), 1, k))
      BY <1>2, <1>4, <2>1, UniqPrefix
    <2> QED BY <1>4, <2>1, <2>2
  <1>8. Rewritten(job, old, ids)
    BY <1>3
  <1> HIDE DEF w, x, old
  <1>9. PICK more \in Seq(Identity) :
           Holds(w \o c, more) /\ Rewritten(job, Append(old, x), more)
    BY <1>2, <1>3, <1>4, <1>5, <1>6, <1>7, <1>8, CopyTurn
  <1>10. Copied'
    BY <1>1, <1>4, <1>5, <1>9 DEF Copied
  <1> QED BY <1>1, <1>2, <1>10 DEF MapInv, Change

-----------------------------------------------------------------------------
(* The completed rewrite, and the refinement. *)

\* A list with one entry of a uid, less one element.
LEMMA UniqWithout ==
    ASSUME NEW ids \in Seq(Identity), NEW m \in 1..Len(ids), Uniq(ids)
    PROVE  Uniq(Without(ids, m))
  <1> DEFINE w == Without(ids, m)
             Place(i) == IF i < m THEN i ELSE i + 1
  <1>e. w = Without(ids, m) /\ Len(ids) \in Nat
    OBVIOUS
  <1> HIDE DEF w
  <1>1. /\ w \in Seq(Identity) /\ Len(w) = Len(ids) - 1
        /\ \A i \in 1..(m - 1) : w[i] = ids[i]
        /\ \A i \in m..(Len(ids) - 1) : w[i] = ids[i + 1]
    BY <1>e, WithoutTypes
  <1>2. ASSUME NEW i \in 1..Len(w)
        PROVE  Place(i) \in 1..Len(ids) /\ w[i] = ids[Place(i)]
    <2>1. CASE i < m
      <3>1. i \in 1..(m - 1) /\ i \in 1..Len(ids)
        BY <1>e, <1>1, <2>1
      <3> QED BY <1>1, <2>1, <3>1
    <2>2. CASE ~(i < m)
      <3>1. i \in m..(Len(ids) - 1) /\ i + 1 \in 1..Len(ids)
        BY <1>e, <1>1, <2>2
      <3> QED BY <1>1, <2>2, <3>1
    <2> QED BY <2>1, <2>2
  <1>3. ASSUME NEW i \in 1..Len(w), NEW k \in 1..Len(w), w[i].uid = w[k].uid
        PROVE  i = k
    <2>1. /\ Place(i) \in 1..Len(ids) /\ w[i] = ids[Place(i)]
          /\ Place(k) \in 1..Len(ids) /\ w[k] = ids[Place(k)]
      BY <1>2
    <2>2. Place(i) = Place(k)
      <3> HIDE DEF Place
      <3> QED BY <1>3, <2>1 DEF Uniq
    <2> QED BY <2>2
  <1>4. Uniq(w)
    BY <1>3 DEF Uniq
  <1> QED BY <1>4 DEF w

\* A completed rewrite is one change of the list.
LEMMA RewrittenChange ==
    ASSUME TypeInv, job \in Jobs, Contents \in Seq(Identity), Uniq(Contents),
           NEW new \in Seq(Identity), Contents' = new,
           Rewritten(job, Contents, new)
    PROVE  Uniq(new) /\ Change
  <1>1. CASE job.op = "remove"
    <2>1. CASE new = Contents
      BY <2>1 DEF Change
    <2>2. ASSUME NEW m \in 1..Len(Contents), new = Without(Contents, m)
          PROVE  Uniq(new) /\ Change
      <3>1. Uniq(new)
        BY <2>2, UniqWithout
      <3>2. DOMAIN Contents = 1..Len(Contents)
        OBVIOUS
      <3>3. Map!Remove
        BY <2>2, <3>2 DEF Map!Remove, Without
      <3> QED BY <3>1, <3>3 DEF Change
    <2> QED BY <1>1, <2>1, <2>2 DEF Rewritten, Removed
  <1>2. CASE job.op # "remove"
    <2> DEFINE y == [uid |-> job.uid, len |-> job.len]
    <2>1. y \in Identity /\ y.uid = job.uid
      <3>1. job.uid \in Uid /\ job.len \in UpdateLens
        BY <1>2 DEF Jobs
      <3> QED BY <3>1 DEF Identity
    <2>2. /\ Len(new) = Len(Contents)
          /\ \A i \in 1..Len(Contents) :
                new[i] = Contents[i] \/ (Contents[i].uid = job.uid /\ new[i] = y)
      BY <1>2 DEF Rewritten, Updated
    <2> HIDE DEF y
    <2>3. \A i \in 1..Len(Contents) : new[i].uid = Contents[i].uid
      BY <2>1, <2>2
    <2>4. Uniq(new)
      BY <2>2, <2>3 DEF Uniq
    <2>5. CASE \E i \in 1..Len(Contents) : Contents[i].uid = job.uid /\ new[i] = y
      <3> PICK i \in 1..Len(Contents) : Contents[i].uid = job.uid /\ new[i] = y
        BY <2>5
      <3> DEFINE g == [k \in DOMAIN Contents |->
                         IF Contents[k].uid = y.uid THEN y ELSE Contents[k]]
      <3>1. ASSUME NEW k \in 1..Len(Contents)
            PROVE  new[k] = IF Contents[k].uid = y.uid THEN y ELSE Contents[k]
        <4>1. CASE Contents[k].uid = y.uid
          <5>1. k = i
            BY <2>1, <4>1 DEF Uniq
          <5> QED BY <4>1, <5>1
        <4>2. CASE Contents[k].uid # y.uid
          BY <2>1, <2>2, <4>2
        <4> QED BY <4>1, <4>2
      <3>2. /\ DOMAIN Contents = 1..Len(Contents) /\ DOMAIN new = 1..Len(new)
            /\ new = [k \in 1..Len(new) |-> new[k]]
        OBVIOUS
      <3>3. new = g
        BY <2>2, <3>1, <3>2
      <3>4. Map!Update
        BY <2>1, <3>3 DEF Map!Update
      <3> QED BY <2>4, <3>4 DEF Change
    <2>6. CASE ~\E i \in 1..Len(Contents) : Contents[i].uid = job.uid /\ new[i] = y
      <3>1. new = Contents
        <4>1. \A i \in 1..Len(new) : new[i] = Contents[i]
          BY <2>2, <2>6
        <4> QED BY <2>2, <4>1, SeqEqual
      <3> QED BY <2>4, <3>1 DEF Change
    <2> QED BY <2>5, <2>6
  <1> QED BY <1>1, <1>2

\* With the removal of the first file the rewrite takes effect.
LEMMA RemoveStep ==
    ASSUME TypeInv, MapInv, ~damaged, wish_fs_remove, ~damaged'
    PROVE  MapInv' /\ Change
  <1>1. /\ pc = "copy" /\ pc' = "gap" /\ db' = << >> /\ tmp' = tmp
        /\ ~Readable(db, from) /\ ~(Len(tmp) > at) /\ Clean(tmp)
    BY DEF wish_fs_remove, Damages
  <1>2. /\ Contents = Scan(db) /\ Contents' = Scan(tmp) /\ Uniq(Contents)
        /\ Clean(db) /\ db \in File /\ tmp \in File /\ job \in Jobs
        /\ at \in 0..Len(tmp)
    BY <1>1 DEF Contents, MapInv, TypeInv, FilesOK
  <1>3. PICK k \in 1..Len(Offsets(db)), ids \in Seq(Identity) :
          /\ from = Offsets(db)[k] /\ Holds(SubSeq(tmp, 1, at), ids)
          /\ Rewritten(job, SubSeq(Scan(db), 1, k - 1), ids)
    BY <1>1 DEF MapInv, Copied
  <1>4. SubSeq(Scan(db), 1, k - 1) = Scan(db)
    BY <1>1, <1>3, LoopEnd
  <1>7. SubSeq(tmp, 1, at) = tmp
    <2>1. tmp \in Seq(Cell) /\ Len(tmp) \in Nat
      BY <1>2, FileTypes
    <2>2. at = Len(tmp)
      BY <1>1, <1>2, <2>1
    <2> QED BY <2>1, <2>2
  <1>8. Scan(tmp) = ids
    BY <1>1, <1>2, <1>3, <1>7, HoldsScan
  <1>9. /\ Contents' = ids /\ Rewritten(job, Contents, ids)
        /\ Contents \in Seq(Identity)
    BY <1>2, <1>3, <1>4, <1>8, ScanIds
  <1>10. Uniq(ids) /\ Change
    BY <1>2, <1>9, RewrittenChange
  <1> QED BY <1>1, <1>9, <1>10 DEF MapInv

\* Renaming the second file changes nothing in the list.
LEMMA RenameStep ==
    ASSUME TypeInv, MapInv, ~damaged, wish_fs_rename
    PROVE  MapInv' /\ Change
  <1>1. pc = "gap" /\ pc' = "idle" /\ db' = tmp /\ damaged' = damaged
    BY DEF wish_fs_rename
  <1>2. Contents' = Contents /\ Uniq(Contents) /\ Clean(tmp)
    BY <1>1 DEF Contents, MapInv
  <1> QED BY <1>1, <1>2 DEF MapInv, Change

\* Nor does a crash before the first file is removed.
LEMMA CrashStep ==
    ASSUME TypeInv, MapInv, ~damaged, Crash, ~damaged'
    PROVE  MapInv' /\ Change
  <1>1. pc # "gap" /\ pc' = "idle" /\ db' = db
    BY DEF Crash
  <1>2. Contents' = Contents /\ Uniq(Contents) /\ Clean(db)
    BY <1>1 DEF Contents, MapInv
  <1> QED BY <1>1, <1>2 DEF MapInv, Change

\* Every step that leaves the database undamaged.
LEMMA MapStep ==
    ASSUME TypeInv, MapInv, Next, ~damaged'
    PROVE  MapInv' /\ Change /\ ~damaged
  <1>0. ~damaged
    BY DEF Next, Save, wish_save_identity_entry, wish_identity_remove,
           wish_api_identity_update, wish_identity_update, Begin, CopyDocument,
           wish_fs_remove, wish_fs_rename, Crash
  <1>1. CASE Save
    <2>1. PICK u \in Uid, n \in SaveLens :
            wish_save_identity_entry([uid |-> u, len |-> n])
      BY <1>1 DEF Save
    <2>2. [uid |-> u, len |-> n] \in Identity
      BY DEF Identity
    <2>3. n <= peek_len
      <3>1. peek_len \in Nat /\ SaveLens \subseteq 1..peek_len
        BY IdentityDbAssumption DEF IdentityDbAssumption
      <3> QED BY <3>1
    <2>4. [uid |-> u, len |-> n].len <= peek_len
      BY <2>3
    <2> QED BY <1>0, <2>1, <2>2, <2>4, SaveStep
  <1>2. CASE wish_identity_remove \/ wish_api_identity_update
    <2>1. PICK j \in Jobs : Begin(j)
      BY <1>2 DEF wish_identity_remove, wish_api_identity_update,
                  wish_identity_update, Jobs
    <2> QED BY <1>0, <2>1, BeginStep
  <1>3. CASE CopyDocument
    BY <1>0, <1>3, CopyStep
  <1>4. CASE wish_fs_remove
    BY <1>0, <1>4, RemoveStep
  <1>5. CASE wish_fs_rename
    BY <1>0, <1>5, RenameStep
  <1>6. CASE Crash
    BY <1>0, <1>6, CrashStep
  <1> QED BY <1>1, <1>2, <1>3, <1>4, <1>5, <1>6 DEF Next

\* MapInv holds in every behaviour.
LEMMA MapInductive == Spec => []MapInv
  <1>1. TypeInv /\ MapInv /\ [Next]_vars => MapInv'
    <2> SUFFICES ASSUME TypeInv, MapInv, [Next]_vars PROVE MapInv'
      OBVIOUS
    <2>1. CASE damaged'
      BY <2>1 DEF MapInv
    <2>2. CASE ~damaged' /\ Next
      BY <2>2, MapStep
    <2>3. CASE UNCHANGED vars
      BY <2>3 DEF vars, MapInv, Contents, Copied
    <2> QED BY <2>1, <2>2, <2>3
  <1> QED BY <1>1, MapInit, Files, PTL DEF Spec

\* A uid has one entry in an undamaged database, whatever rewrites have been
\* completed or cut off (wish_save_identity_entry, wish_identity_remove and
\* wish_identity_update).
THEOREM UniqueSafety == Spec => []UniqueUids
  <1>1. TypeInv /\ MapInv => UniqueUids
    <2> SUFFICES ASSUME TypeInv, MapInv, ~damaged
                 PROVE  \A i, k \in DOMAIN Contents :
                           Contents[i].uid = Contents[k].uid => i = k
      BY DEF UniqueUids
    <2>1. Contents \in Seq(Identity)
      BY ScanIds DEF Contents, TypeInv, FilesOK
    <2>2. DOMAIN Contents = 1..Len(Contents) /\ Uniq(Contents)
      BY <2>1 DEF MapInv
    <2> QED BY <2>2 DEF Uniq
  <1> QED BY <1>1, Files, MapInductive, PTL

\* The files implement the list of identities: every step is one change of
\* the list, or none, until the database is damaged.
THEOREM MapRefinement == Spec => ImplementsMap
  <1>1. Init => Map!Init
    <2> SUFFICES ASSUME Init PROVE Map!Init
      OBVIOUS
    <2>1. pc = "idle" /\ db = << >> /\ damaged = FALSE
      BY DEF Init
    <2>2. Contents = << >>
      BY <2>1, EmptyClean DEF Contents
    <2> QED BY <2>1, <2>2 DEF Map!Init
  <1>2. TypeInv /\ MapInv /\ TypeInv' /\ [Next]_vars
          => [Map!Next]_<<Contents, damaged>>
    <2> SUFFICES ASSUME TypeInv, MapInv, TypeInv', [Next]_vars
                 PROVE  [Map!Next]_<<Contents, damaged>>
      OBVIOUS
    <2>1. CASE damaged'
      BY <2>1 DEF Map!Next
    <2>2. CASE ~damaged' /\ Next
      <3>1. Change /\ ~damaged
        BY <2>2, MapStep
      <3>2. damaged' = damaged
        BY <2>2, <3>1 DEF TypeInv
      <3> QED BY <3>1, <3>2 DEF Change, Map!Next, Map!Operation
    <2>3. CASE UNCHANGED vars
      BY <2>3 DEF vars, Contents
    <2> QED BY <2>1, <2>2, <2>3
  <1> QED BY <1>1, <1>2, Files, MapInductive, PTL DEF Spec, ImplementsMap, Map!Spec

-----------------------------------------------------------------------------
(* What a rewrite keeps, damaged database or not. *)

\* The entries that the job does not concern are the same, in the same order.
Matched(u, old, new, place) ==
    /\ place \in [Others(u, old) -> Others(u, new)]
    /\ \A i \in Others(u, old) :
          /\ new[place[i]] = old[i]
          /\ \A k \in Others(u, old) : i < k => place[i] < place[k]
    /\ \A m \in Others(u, new) : \E k \in Others(u, old) : place[k] = m

SameOthers(u, old, new) == \E place : Matched(u, old, new, place)

\* Others are positions in the list.
LEMMA OthersTypes ==
    ASSUME NEW u, NEW ids \in Seq(Identity)
    PROVE  /\ Others(u, ids) \subseteq 1..Len(ids)
           /\ \A i \in 1..Len(ids) : i \in Others(u, ids) <=> ids[i].uid # u
           /\ Len(ids) \in Nat
  <1>1. DOMAIN ids = 1..Len(ids) /\ Len(ids) \in Nat
    OBVIOUS
  <1> QED BY <1>1 DEF Others

\* One more that the job does not concern.
LEMMA OthersMore ==
    ASSUME NEW u, NEW old \in Seq(Identity), NEW new \in Seq(Identity),
           SameOthers(u, old, new), NEW x \in Identity, x.uid # u
    PROVE  SameOthers(u, Append(old, x), Append(new, x))
  <1> DEFINE o == Append(old, x)
             n == Append(new, x)
  <1>e. o = Append(old, x) /\ n = Append(new, x)
    OBVIOUS
  <1> HIDE DEF o, n
  <1>1. /\ o \in Seq(Identity) /\ Len(o) = Len(old) + 1
        /\ o[Len(old) + 1] = x /\ \A i \in 1..Len(old) : o[i] = old[i]
    BY <1>e, AppendIds
  <1>2. /\ n \in Seq(Identity) /\ Len(n) = Len(new) + 1
        /\ n[Len(new) + 1] = x /\ \A i \in 1..Len(new) : n[i] = new[i]
    BY <1>e, AppendIds
  <1> DEFINE p == Len(old) + 1
             q == Len(new) + 1
  <1>3. /\ Others(u, old) \subseteq 1..Len(old)
        /\ Others(u, new) \subseteq 1..Len(new)
        /\ Len(old) \in Nat /\ Len(new) \in Nat
    BY OthersTypes
  <1>4. Others(u, o) = Others(u, old) \cup {p}
    <2>1. /\ \A i \in 1..Len(old) : i \in Others(u, old) <=> old[i].uid # u
          /\ \A i \in 1..Len(o) : i \in Others(u, o) <=> o[i].uid # u
          /\ Others(u, o) \subseteq 1..Len(o)
      BY <1>1, OthersTypes
    <2>2. \A i \in 1..Len(o) : i \in 1..Len(old) \/ i = p
      BY <1>1, <1>3
    <2>3. 1..Len(old) \subseteq 1..Len(o) /\ p \in 1..Len(o)
      BY <1>1, <1>3
    <2> HIDE DEF p
    <2>4. o[p] = x
      BY <1>1 DEF p
    <2> QED BY <1>1, <1>3, <2>1, <2>2, <2>3, <2>4
  <1>5. Others(u, n) = Others(u, new) \cup {q}
    <2>1. /\ \A i \in 1..Len(new) : i \in Others(u, new) <=> new[i].uid # u
          /\ \A i \in 1..Len(n) : i \in Others(u, n) <=> n[i].uid # u
          /\ Others(u, n) \subseteq 1..Len(n)
      BY <1>2, OthersTypes
    <2>2. \A i \in 1..Len(n) : i \in 1..Len(new) \/ i = q
      BY <1>2, <1>3
    <2>3. 1..Len(new) \subseteq 1..Len(n) /\ q \in 1..Len(n)
      BY <1>2, <1>3
    <2> HIDE DEF q
    <2>4. n[q] = x
      BY <1>2 DEF q
    <2> QED BY <1>2, <1>3, <2>1, <2>2, <2>3, <2>4
  <1>6. PICK place : Matched(u, old, new, place)
    BY DEF SameOthers
  <1>7. /\ \A i \in Others(u, old) : i < p /\ i # p /\ i \in Nat
        /\ \A i \in Others(u, new) : i < q /\ i # q /\ i \in Nat
        /\ o[p] = x /\ n[q] = x /\ p \in Nat /\ q \in Nat
    BY <1>1, <1>2, <1>3
  <1> HIDE DEF p, q
  <1> DEFINE g == [i \in Others(u, o) |-> IF i = p THEN q ELSE place[i]]
  <1>8. \A i \in Others(u, old) : place[i] \in Others(u, new)
    BY <1>6 DEF Matched
  <1>9. g \in [Others(u, o) -> Others(u, n)]
    BY <1>4, <1>5, <1>8
  <1>10. g[p] = q /\ \A i \in Others(u, old) : g[i] = place[i]
    BY <1>4, <1>7
  <1> HIDE DEF g
  <1>11. ASSUME NEW i \in Others(u, o)
         PROVE  /\ n[g[i]] = o[i]
                /\ \A k \in Others(u, o) : i < k => g[i] < g[k]
    <2>1. CASE i = p
      <3>1. n[g[i]] = o[i]
        BY <1>7, <1>10, <2>1
      <3>2. \A k \in Others(u, o) : ~(i < k)
        BY <1>4, <1>7, <2>1
      <3> QED BY <3>1, <3>2
    <2>2. CASE i \in Others(u, old)
      <3>1. n[g[i]] = o[i]
        <4>1. new[place[i]] = old[i]
          BY <1>6, <2>2 DEF Matched
        <4>2. place[i] \in 1..Len(new) /\ i \in 1..Len(old)
          BY <1>3, <1>8, <2>2
        <4> QED BY <1>1, <1>2, <1>10, <2>2, <4>1, <4>2
      <3>2. ASSUME NEW k \in Others(u, o), i < k PROVE g[i] < g[k]
        <4>1. CASE k = p
          BY <1>7, <1>8, <1>10, <2>2, <4>1
        <4>2. CASE k \in Others(u, old)
          BY <1>6, <1>10, <2>2, <3>2, <4>2 DEF Matched
        <4> QED BY <1>4, <4>1, <4>2
      <3> QED BY <3>1, <3>2
    <2> QED BY <1>4, <2>1, <2>2
  <1>m. ASSUME NEW m \in Others(u, n) PROVE \E k \in Others(u, o) : g[k] = m
    <2>1. CASE m = q
      BY <1>4, <1>10, <2>1
    <2>2. CASE m \in Others(u, new)
      <3>1. PICK k \in Others(u, old) : place[k] = m
        BY <1>6, <2>2 DEF Matched
      <3> QED BY <1>4, <1>10, <3>1
    <2> QED BY <1>5, <2>1, <2>2
  <1>12. Matched(u, o, n, g)
    BY <1>9, <1>11, <1>m DEF Matched
  <1>13. SameOthers(u, o, n)
    BY <1>12 DEF SameOthers
  <1> QED BY <1>13 DEF o, n

\* The same entries at the same places.
Alike(u, s, ids) ==
    Others(u, s) = Others(u, ids) /\ \A i \in Others(u, ids) : s[i] = ids[i]

\* One more that the job concerns.
LEMMA OthersSkip ==
    ASSUME NEW u, NEW ids \in Seq(Identity), NEW x \in Identity, x.uid = u,
           NEW s, s = Append(ids, x)
    PROVE  Alike(u, s, ids)
  <1>1. /\ s \in Seq(Identity) /\ Len(s) = Len(ids) + 1
        /\ s[Len(ids) + 1] = x /\ \A i \in 1..Len(ids) : s[i] = ids[i]
    BY AppendIds
  <1>2. /\ Others(u, ids) \subseteq 1..Len(ids)
        /\ Others(u, s) \subseteq 1..Len(s)
        /\ \A i \in 1..Len(ids) : i \in Others(u, ids) <=> ids[i].uid # u
        /\ \A i \in 1..Len(s) : i \in Others(u, s) <=> s[i].uid # u
        /\ Len(ids) \in Nat
    BY <1>1, OthersTypes
  <1>3. \A i \in 1..Len(s) : i \in 1..Len(ids) \/ i = Len(ids) + 1
    BY <1>1, <1>2
  <1>4. 1..Len(ids) \subseteq 1..Len(s)
    BY <1>1, <1>2
  <1>5. Others(u, s) = Others(u, ids)
    BY <1>1, <1>2, <1>3, <1>4
  <1> QED BY <1>1, <1>2, <1>5 DEF Alike

\* A removal leaves the others alone.
LEMMA OthersDropped ==
    ASSUME NEW u, NEW old \in Seq(Identity), NEW new \in Seq(Identity),
           SameOthers(u, old, new), NEW x \in Identity, x.uid = u
    PROVE  SameOthers(u, Append(old, x), new)
  <1> DEFINE o == Append(old, x)
  <1>e. o = Append(old, x)
    OBVIOUS
  <1> HIDE DEF o
  <1>1. Alike(u, o, old)
    BY <1>e, OthersSkip
  <1>2. PICK place : Matched(u, old, new, place)
    BY DEF SameOthers
  <1>3. Matched(u, o, new, place)
    BY <1>1, <1>2 DEF Matched, Alike
  <1>4. SameOthers(u, o, new)
    BY <1>3 DEF SameOthers
  <1> QED BY <1>4 DEF o

\* So does an update.
LEMMA OthersReplaced ==
    ASSUME NEW u, NEW old \in Seq(Identity), NEW new \in Seq(Identity),
           SameOthers(u, old, new), NEW x \in Identity, x.uid = u,
           NEW y \in Identity, y.uid = u
    PROVE  SameOthers(u, Append(old, x), Append(new, y))
  <1> DEFINE o == Append(old, x)
             n == Append(new, y)
  <1>2. SameOthers(u, o, new)
    BY OthersDropped
  <1>e. n = Append(new, y)
    OBVIOUS
  <1> HIDE DEF o, n
  <1>1. Alike(u, n, new)
    BY <1>e, OthersSkip
  <1>3. PICK place : Matched(u, o, new, place)
    BY <1>2 DEF SameOthers
  <1>4. \A i \in Others(u, o) : place[i] \in Others(u, new)
    BY <1>3 DEF Matched
  <1>5. Matched(u, o, n, place)
    BY <1>1, <1>3, <1>4 DEF Matched, Alike
  <1>6. SameOthers(u, o, n)
    BY <1>5 DEF SameOthers
  <1> QED BY <1>6 DEF o, n

\* Documents that the next scan accepts.
Short(ids) == \A i \in 1..Len(ids) : ids[i].len <= peek_len

\* One more short document.
LEMMA ShortAppend ==
    ASSUME NEW ids \in Seq(Identity), Short(ids), NEW x \in Identity,
           x.len <= peek_len
    PROVE  Append(ids, x) \in Seq(Identity) /\ Short(Append(ids, x))
  <1> DEFINE s == Append(ids, x)
  <1>1. /\ s \in Seq(Identity) /\ Len(s) = Len(ids) + 1 /\ Len(ids) \in Nat
        /\ s[Len(ids) + 1] = x /\ \A i \in 1..Len(ids) : s[i] = ids[i]
    BY AppendIds
  <1> HIDE DEF s
  <1>2. \A i \in 1..Len(s) : i \in 1..Len(ids) \/ i = Len(ids) + 1
    BY <1>1
  <1>3. Short(s)
    BY <1>1, <1>2 DEF Short
  <1> QED BY <1>1, <1>3 DEF s

\* Does the job write only what can be read again?
JobShort == job.op = "update" => job.len <= peek_len

\* A turn of the loop, as far as the others are concerned.
LEMMA OthersTurn ==
    ASSUME job \in Jobs, JobShort, NEW w \in File, NEW old \in Seq(Identity),
           NEW new \in Seq(Identity), Holds(w, new), Short(new),
           SameOthers(job.uid, old, new),
           NEW x \in Identity, x.len <= peek_len,
           NEW c \in Replacements(x)
    PROVE  \E more \in Seq(Identity) :
              /\ Holds(w \o c, more) /\ Short(more)
              /\ SameOthers(job.uid, Append(old, x), more)
  <1>1. CASE c = Document(x)
    <2>1. Append(new, x) \in Seq(Identity) /\ Short(Append(new, x))
      BY ShortAppend
    <2>2. Holds(w \o c, Append(new, x))
      BY <1>1, HoldsAppend
    <2>3. SameOthers(job.uid, Append(old, x), Append(new, x))
      BY OthersMore, OthersReplaced
    <2> QED BY <2>1, <2>2, <2>3
  <1>2. CASE c = << >> /\ x.uid = job.uid
    <2>1. w \o c = w
      <3>1. w \in Seq(Cell)
        BY FileTypes
      <3> QED BY <1>2, <3>1
    <2>2. Holds(w \o c, new)
      BY <2>1
    <2>3. SameOthers(job.uid, Append(old, x), new)
      BY <1>2, OthersDropped
    <2> QED BY <2>2, <2>3
  <1>3. CASE /\ job.op # "remove" /\ x.uid = job.uid
             /\ c = Document([uid |-> job.uid, len |-> job.len])
    <2> DEFINE y == [uid |-> job.uid, len |-> job.len]
    <2>1. y \in Identity /\ y.uid = job.uid
      <3>1. job.uid \in Uid /\ job.len \in UpdateLens
        BY <1>3 DEF Jobs
      <3> QED BY <3>1 DEF Identity
    <2>2. y.len <= peek_len
      BY <1>3 DEF JobShort, Jobs
    <2>3. c = Document(y)
      BY <1>3
    <2> HIDE DEF y
    <2>4. Append(new, y) \in Seq(Identity) /\ Short(Append(new, y))
      BY <2>1, <2>2, ShortAppend
    <2>5. Holds(w \o c, Append(new, y))
      BY <2>1, <2>3, HoldsAppend
    <2>6. SameOthers(job.uid, Append(old, x), Append(new, y))
      BY <1>3, <2>1, OthersReplaced
    <2> QED BY <2>4, <2>5, <2>6
  <1> QED BY <1>1, <1>2, <1>3 DEF Replacements

\* How far a rewrite has come, damaged database or not.
KeepInv ==
    pc = "copy" /\ JobShort =>
      \E k \in 1..Len(Offsets(db)), ids \in Seq(Identity) :
         /\ from = Offsets(db)[k]
         /\ Holds(SubSeq(tmp, 1, at), ids) /\ Short(ids)
         /\ SameOthers(job.uid, SubSeq(Scan(db), 1, k - 1), ids)

\* Nothing read and nothing written.
LEMMA KeepBegin ==
    ASSUME TypeInv, NEW j \in Jobs, Begin(j) PROVE KeepInv'
  <1>1. db' = db /\ tmp' = tmp /\ from' = 0 /\ at' = 0 /\ db \in File
    BY DEF Begin, TypeInv, FilesOK
  <1>2. 1 \in 1..Len(Offsets(db)) /\ Offsets(db)[1] = 0
    BY <1>1, OffsetsRun, ScanIds DEF Run, Trail
  <1>3. Holds(SubSeq(tmp, 1, 0), << >>)
    <2>1. SubSeq(tmp, 1, 0) = << >>
      OBVIOUS
    <2> QED BY <2>1, HoldsEmpty
  <1>4. /\ SubSeq(Scan(db), 1, 1 - 1) = << >>
        /\ Short(<< >>) /\ << >> \in Seq(Identity)
    BY DEF Short
  <1>5. \A u : SameOthers(u, << >>, << >>)
    <2> TAKE u
    <2> DEFINE none == [i \in {} |-> i]
    <2>1. Others(u, << >>) = {}
      BY DEF Others
    <2>2. Matched(u, << >>, << >>, none)
      BY <2>1 DEF Matched
    <2> QED BY <2>2 DEF SameOthers
  <1> QED BY <1>1, <1>2, <1>3, <1>4, <1>5 DEF KeepInv

\* One turn of the loop.
LEMMA KeepCopy == ASSUME TypeInv, KeepInv, CopyDocument PROVE KeepInv'
  <1>1. pc = "copy" /\ db' = db /\ job' = job /\ job \in Jobs
    BY DEF CopyDocument, TypeInv
  <1> SUFFICES ASSUME JobShort
               PROVE  \E k \in 1..Len(Offsets(db)), ids \in Seq(Identity) :
                        /\ from' = Offsets(db)[k]
                        /\ Holds(SubSeq(tmp', 1, at'), ids) /\ Short(ids)
                        /\ SameOthers(job.uid, SubSeq(Scan(db), 1, k - 1), ids)
    BY <1>1 DEF KeepInv, JobShort
  <1> DEFINE w == SubSeq(tmp, 1, at)
             x == db[from + 1].id
  <1>2. PICK k \in 1..Len(Offsets(db)), ids \in Seq(Identity) :
          /\ from = Offsets(db)[k] /\ Holds(w, ids) /\ Short(ids)
          /\ SameOthers(job.uid, SubSeq(Scan(db), 1, k - 1), ids)
    BY <1>1 DEF KeepInv
  <1> DEFINE old == SubSeq(Scan(db), 1, k - 1)
  <1>3. /\ k + 1 \in 1..Len(Offsets(db)) /\ from' = Offsets(db)[k + 1]
        /\ x \in Identity /\ x.len <= peek_len /\ old \in Seq(Identity)
        /\ SubSeq(Scan(db), 1, (k + 1) - 1) = Append(old, x)
    BY <1>2, TurnOffsets
  <1>4. PICK c \in Replacements(x) : SubSeq(tmp', 1, at') = w \o c
    BY <1>3, TurnWrites
  <1>5. w \in File
    BY DEF TypeInv, FilesOK
  <1>6. SameOthers(job.uid, old, ids)
    BY <1>2
  <1> HIDE DEF w, x, old
  <1>7. PICK more \in Seq(Identity) :
          /\ Holds(w \o c, more) /\ Short(more)
          /\ SameOthers(job.uid, Append(old, x), more)
    BY <1>1, <1>2, <1>3, <1>4, <1>5, <1>6, OthersTurn
  <1> QED BY <1>3, <1>4, <1>7

\* KeepInv holds in every behaviour.
LEMMA KeepInductive == Spec => []KeepInv
  <1>1. Init => KeepInv
    BY DEF Init, KeepInv
  <1>2. TypeInv /\ KeepInv /\ [Next]_vars => KeepInv'
    <2> SUFFICES ASSUME TypeInv, KeepInv, [Next]_vars PROVE KeepInv'
      OBVIOUS
    <2>1. CASE wish_identity_remove \/ wish_api_identity_update
      <3>1. PICK j \in Jobs : Begin(j)
        BY <2>1 DEF wish_identity_remove, wish_api_identity_update,
                    wish_identity_update, Jobs
      <3> QED BY <3>1, KeepBegin
    <2>2. CASE CopyDocument
      BY <2>2, KeepCopy
    <2>3. CASE Save \/ wish_fs_remove \/ wish_fs_rename \/ Crash
      <3>1. pc' # "copy"
        BY <2>3 DEF Save, wish_save_identity_entry, wish_fs_remove,
                    wish_fs_rename, Crash
      <3> QED BY <3>1 DEF KeepInv
    <2>4. CASE UNCHANGED vars
      BY <2>4 DEF vars, KeepInv, JobShort
    <2> QED BY <2>1, <2>2, <2>3, <2>4 DEF Next
  <1> QED BY <1>1, <1>2, Files, PTL DEF Spec

\* A scan of a file that begins with short documents finds these first.
LEMMA ScanShort ==
    ASSUME NEW f \in File, NEW n \in 0..Len(f), SubSeq(f, 1, n) \in File,
           NEW ids \in Seq(Identity), Holds(SubSeq(f, 1, n), ids), Short(ids)
    PROVE  /\ Len(ids) <= Len(Scan(f))
           /\ \A i \in 1..Len(ids) : Scan(f)[i] = ids[i]
  <1> DEFINE w == SubSeq(f, 1, n)
             s == Offsets(f)
  <1>1. w \in File /\ Len(w) = n /\ \A i \in 1..n : w[i] = f[i]
    <2>1. f \in Seq(Cell) /\ Len(f) \in Nat
      BY FileTypes
    <2> QED BY <2>1
  <1>2. PICK r : Trail(w, 0, r) /\ r[Len(r)] = Len(w) /\ ids = Ids(w, r)
    BY DEF Holds
  <1>3. /\ Scan(f) = Ids(f, s) /\ Len(Scan(f)) = Len(s) - 1 /\ Run(f, 0, s)
        /\ Len(s) \in Nat /\ Len(s) >= 1
    BY ScanIds, OffsetsRun
  <1> HIDE DEF w, s
  <1>4. /\ r \in Seq(0..Len(w)) /\ Len(r) \in Nat /\ Len(r) >= 1
        /\ \A i \in 1..(Len(r) - 1) :
              r[i] \in 0..Len(w) /\ r[i] + 1 \in 1..Len(w)
    BY <1>1, <1>2, TrailTypes
  <1>5. /\ Len(ids) = Len(r) - 1
        /\ \A i \in 1..(Len(r) - 1) : ids[i] = w[r[i] + 1].id
    BY <1>1, <1>2, IdsTypes
  <1>6. Len(f) \in Nat /\ n <= Len(f)
    BY FileTypes
  <1>7. ASSUME NEW i \in 1..(Len(r) - 1)
        PROVE  /\ f[r[i] + 1] = w[r[i] + 1] /\ Readable(f, r[i])
               /\ r[i + 1] = r[i] + f[r[i] + 1].id.len
    <2>1. /\ r[i] < Len(w) /\ w[r[i] + 1].part = 1
          /\ r[i + 1] = r[i] + w[r[i] + 1].id.len
      BY <1>2 DEF Trail
    <2>2. r[i] \in 0..Len(w) /\ r[i] + 1 \in 1..n
      BY <1>1, <1>4
    <2>3. f[r[i] + 1] = w[r[i] + 1]
      BY <1>1, <2>2
    <2>4. w[r[i] + 1].id.len <= peek_len
      <3>1. i \in 1..Len(ids) /\ ids[i] = w[r[i] + 1].id
        BY <1>5
      <3>2. ids[i].len <= peek_len
        BY <3>1 DEF Short
      <3> QED BY <3>1, <3>2
    <2>5. r[i] < Len(f)
      BY <1>1, <1>6, <2>1, <2>2
    <2> QED BY <2>1, <2>3, <2>4, <2>5 DEF Readable
  <1>8. Trail(f, 0, r)
    <2>1. r \in Seq(0..Len(f))
      <3>1. 0..Len(w) \subseteq 0..Len(f)
        BY <1>1, <1>6
      <3>2. \A S, T : S \subseteq T => \A q \in Seq(S) : q \in Seq(T)
        OBVIOUS
      <3> QED BY <1>4, <3>1, <3>2
    <2> QED BY <1>2, <1>4, <1>7, <2>1 DEF Trail, Readable
  <1>9. \A i \in Nat \ {0} : i <= Len(r) /\ i <= Len(s) => r[i] = s[i]
    BY <1>3, <1>8, TrailsAgree DEF Run
  <1>10. Len(r) <= Len(s)
    <2> DEFINE m == Len(s)
    <2> SUFFICES ASSUME m < Len(r) PROVE FALSE
      BY <1>3, <1>4
    <2>1. m \in 1..(Len(r) - 1) /\ r[m] = s[m]
      BY <1>3, <1>4, <1>9
    <2>2. Readable(f, s[m])
      BY <1>7, <2>1
    <2> QED BY <1>3, <2>2 DEF Run
  <1>11. ASSUME NEW i \in 1..Len(ids) PROVE Scan(f)[i] = ids[i]
    <2>0. i \in 1..(Len(r) - 1) /\ i \in 1..(Len(s) - 1)
      BY <1>3, <1>4, <1>5, <1>10
    <2>1. r[i] = s[i]
      <3>1. i \in Nat \ {0} /\ i <= Len(r) /\ i <= Len(s)
        BY <1>3, <1>4, <2>0
      <3> QED BY <1>9, <3>1
    <2>2. Scan(f)[i] = f[s[i] + 1].id
      BY <1>3, <2>0 DEF Ids
    <2>3. f[r[i] + 1] = w[r[i] + 1]
      BY <1>7, <2>0
    <2>4. ids[i] = w[r[i] + 1].id
      BY <1>5, <2>0
    <2> QED BY <2>1, <2>2, <2>3, <2>4
  <1>12. Len(ids) <= Len(Scan(f))
    BY <1>3, <1>4, <1>5, <1>10
  <1> QED BY <1>11, <1>12

\* More at the end of new does no harm.
LEMMA SameThenKeeps ==
    ASSUME NEW u, NEW old \in Seq(Identity), NEW ids \in Seq(Identity),
           SameOthers(u, old, ids), NEW new \in Seq(Identity),
           Len(ids) <= Len(new), \A i \in 1..Len(ids) : new[i] = ids[i]
    PROVE  KeepsOthers(u, old, new)
  <1>1. PICK place : Matched(u, old, ids, place)
    BY DEF SameOthers
  <1>2. /\ Others(u, ids) \subseteq 1..Len(ids)
        /\ Others(u, new) \subseteq 1..Len(new)
        /\ \A i \in 1..Len(ids) : i \in Others(u, ids) <=> ids[i].uid # u
        /\ \A i \in 1..Len(new) : i \in Others(u, new) <=> new[i].uid # u
        /\ Len(ids) \in Nat /\ Len(new) \in Nat
    BY OthersTypes
  <1>3. 1..Len(ids) \subseteq 1..Len(new)
    BY <1>2
  <1>4. Others(u, ids) \subseteq Others(u, new)
    BY <1>2, <1>3
  <1>5. \A i \in Others(u, old) : place[i] \in Others(u, ids)
    BY <1>1 DEF Matched
  <1>6. place \in [Others(u, old) -> Others(u, new)]
    BY <1>1, <1>4, <1>5 DEF Matched
  <1>7. ASSUME NEW i \in Others(u, old)
        PROVE  /\ new[place[i]] = old[i]
               /\ \A k \in Others(u, old) : i < k => place[i] < place[k]
               /\ \A m \in Others(u, new) :
                     m < place[i] => \E k \in Others(u, old) : place[k] = m
    <2>1. ids[place[i]] = old[i] /\ place[i] \in 1..Len(ids)
      BY <1>1, <1>2, <1>5 DEF Matched
    <2>2. ASSUME NEW m \in Others(u, new), m < place[i]
          PROVE  \E k \in Others(u, old) : place[k] = m
      <3>1. m \in 1..Len(ids)
        BY <1>2, <2>1, <2>2
      <3>2. m \in Others(u, ids)
        BY <1>2, <1>3, <3>1
      <3> QED BY <1>1, <3>2 DEF Matched
    <2>3. \A k \in Others(u, old) : i < k => place[i] < place[k]
      BY <1>1 DEF Matched
    <2> QED BY <2>1, <2>2, <2>3
  <1> QED BY <1>6, <1>7 DEF KeepsOthers

\* A rewrite that does not itself write too long a document keeps every other
\* identity that was readable, even in a damaged database
\* (wish_identity_remove, wish_identity_update).
THEOREM RewriteSafety == Spec => RewriteKeepsOthers
  <1>1. TypeInv /\ KeepInv /\ [Next]_vars
          => [wish_fs_remove /\ (job.op = "update" => job.len <= peek_len)
                => KeepsOthers(job.uid, Scan(db), Scan(tmp))]_vars
    <2> SUFFICES ASSUME TypeInv, KeepInv, wish_fs_remove, JobShort
                 PROVE  KeepsOthers(job.uid, Scan(db), Scan(tmp))
      BY DEF JobShort
    <2>1. pc = "copy" /\ ~Readable(db, from)
      BY DEF wish_fs_remove
    <2>2. PICK k \in 1..Len(Offsets(db)), ids \in Seq(Identity) :
            /\ from = Offsets(db)[k]
            /\ Holds(SubSeq(tmp, 1, at), ids) /\ Short(ids)
            /\ SameOthers(job.uid, SubSeq(Scan(db), 1, k - 1), ids)
      BY <2>1 DEF KeepInv
    <2>3. SameOthers(job.uid, Scan(db), ids)
      BY <2>1, <2>2, LoopEnd
    <2>4. /\ db \in File /\ tmp \in File /\ at \in 0..Len(tmp)
          /\ SubSeq(tmp, 1, at) \in File
      BY DEF TypeInv, FilesOK
    <2>5. Scan(db) \in Seq(Identity) /\ Scan(tmp) \in Seq(Identity)
      BY <2>4, ScanIds
    <2>6. /\ Len(ids) <= Len(Scan(tmp))
          /\ \A i \in 1..Len(ids) : Scan(tmp)[i] = ids[i]
      BY <2>2, <2>4, ScanShort
    <2> QED BY <2>3, <2>5, <2>6, SameThenKeeps
  <1> QED BY <1>1, Files, KeepInductive, PTL DEF Spec, RewriteKeepsOthers
=============================================================================
