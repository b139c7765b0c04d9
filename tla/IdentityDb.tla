----------------------------- MODULE IdentityDb -----------------------------
(***************************************************************************)
(* The identity database of wish_identity.c on the files of fs_port.c: BSON *)
(* documents one after the other in WISH_ID_DB_NAME, appended to by saving *)
(* and rewritten by removing and updating.  A rewrite copies the documents *)
(* to a second file, removes the first and renames the second; the process *)
(* may die between any two system calls and be started again.  Nothing     *)
(* else runs during a rewrite: the core has one thread.                    *)
(*                                                                         *)
(* A file is a sequence of cells, each a part of one document; a document  *)
(* of len cells has parts 1 to len.  A scan reads the length from the part *)
(* at its offset, which makes sense only at part 1.  A file that does not  *)
(* exist is the empty one, as wish_fs_open creates it.                     *)
(***************************************************************************)
EXTENDS Integers, Sequences, SequencesExt

CONSTANTS
    Uid,                 \* user ids
    peek_len,            \* the longest document a scan accepts
    SaveLens,            \* lengths of the documents saved
    UpdateLens,          \* lengths of the documents written by updates
    WISH_PORT_MAX_UIDS,
    MaxCells,            \* bound: length of the database when saving
    MaxCrashes           \* bound: crashes in a behaviour

ASSUME IdentityDbAssumption ==
    /\ peek_len \in Nat \ {0} /\ WISH_PORT_MAX_UIDS \in Nat \ {0}
    /\ SaveLens \subseteq 1..peek_len /\ UpdateLens \subseteq Nat \ {0}
    /\ MaxCells \in Nat /\ MaxCrashes \in Nat

Identity == [uid : Uid, len : SaveLens \cup UpdateLens]

VARIABLES
    db,       \* WISH_ID_DB_NAME
    tmp,      \* WISH_ID_DB_NAME ".tmp"
    pc,       \* "idle"; in a rewrite "copy", or "gap" after remove()
    job,      \* the rewrite under way: its kind and identity
    from,     \* prev_offset, where old_fd is read next
    at,       \* the offset of new_fd
    crashes,  \* history: crashes so far
    damaged   \* history: has a rewrite or a crash damaged the contents?

vars == <<db, tmp, pc, job, from, at, crashes, damaged>>

NoJob == [op |-> "none"]
Jobs == [op : {"remove"}, uid : Uid]
        \cup [op : {"update"}, uid : Uid, len : UpdateLens]

-----------------------------------------------------------------------------
(* Documents in files. *)

Document(id) == [i \in 1..id.len |-> [id |-> id, part |-> i]]

\* Does the scan at offset o of f accept what it reads?
Readable(f, o) ==
    /\ o < Len(f)
    /\ f[o + 1].part = 1 /\ f[o + 1].id.len <= peek_len

\* Where a scan from the start of f reads, document by document; at the last
\* of these offsets it stops, at the end of the file or at a document it does
\* not accept.
Offsets(f) ==
    LET rest[o \in 0..Len(f)] ==
          IF Readable(f, o) THEN <<o>> \o rest[o + f[o + 1].id.len] ELSE <<o>>
    IN  rest[0]

\* The identities the scan finds: wish_load_uid_list.
Scan(f) ==
    LET offsets == Offsets(f)
    IN  [i \in 1..(Len(offsets) - 1) |-> f[offsets[i] + 1].id]

\* Did the scan reach the end?
Clean(f) == Last(Offsets(f)) = Len(f)

\* Mutant: an entry is missed when it is the last.
ExistsButLast(f, u) == \E i \in DOMAIN Scan(f) :
                          i < Len(Scan(f)) /\ Scan(f)[i].uid = u

wish_identity_exists(f, u) == \E i \in DOMAIN Scan(f) : Scan(f)[i].uid = u

\* The first entry of u, or nothing.
wish_identity_load(f, u) ==
    LET Of == {i \in DOMAIN Scan(f) : Scan(f)[i].uid = u}
    IN  {Scan(f)[i] : i \in {i \in Of : \A k \in Of : i <= k}}

\* -1 after a document that is not accepted.
wish_get_num_uid_entries(f) ==
    CASE Len(Scan(f)) > WISH_PORT_MAX_UIDS -> WISH_PORT_MAX_UIDS
      [] Len(Scan(f)) <= WISH_PORT_MAX_UIDS /\ Clean(f) -> Len(Scan(f))
      [] OTHER -> -1

\* write() at an offset of an existing file: what lies behind stays.
Overwrite(f, o, cells) ==
    SubSeq(f, 1, o) \o cells \o SubSeq(f, o + Len(cells) + 1, Len(f))

-----------------------------------------------------------------------------
(* Saving. *)

Init ==
    /\ db = << >> /\ tmp = << >> /\ pc = "idle" /\ job = NoJob
    /\ from = 0 /\ at = 0 /\ crashes = 0 /\ damaged = FALSE

\* Mutant: one more entry than there is room for.
SaveOneTooMany(id) ==
    /\ pc = "idle" /\ ~wish_identity_exists(db, id.uid)
    /\ Len(db) < MaxCells
    /\ wish_get_num_uid_entries(db) <= WISH_PORT_MAX_UIDS
    /\ db' = db \o Document(id)
    /\ UNCHANGED <<tmp, pc, job, from, at, crashes, damaged>>

\* identity.create makes a uid of its own; identity.import and the friend
\* requests look for the uid first.  A count of 0 or -1 lets
\* wish_load_uid_list fail or find nothing, which is taken for "not full".
wish_save_identity_entry(id) ==
    /\ pc = "idle" /\ ~wish_identity_exists(db, id.uid)
    /\ Len(db) < MaxCells
    /\ wish_get_num_uid_entries(db) < WISH_PORT_MAX_UIDS
    /\ db' = db \o Document(id)
    /\ UNCHANGED <<tmp, pc, job, from, at, crashes, damaged>>

-----------------------------------------------------------------------------
(* Rewriting: wish_identity_remove and wish_identity_update. *)

\* Both files are opened; the write of zero bytes that is to truncate the
\* new file leaves it as it is.
Begin(j) ==
    /\ pc = "idle"
    /\ pc' = "copy" /\ job' = j /\ from' = 0 /\ at' = 0
    /\ UNCHANGED <<db, tmp, crashes, damaged>>

wish_identity_remove == \E u \in Uid : Begin([op |-> "remove", uid |-> u])

wish_identity_update(u) ==
    \E n \in UpdateLens : Begin([op |-> "update", uid |-> u, len |-> n])

\* identity.update.  identity.permissions, the flags in the meta data and the
\* transports of a handshake are written in the same way: the identity is
\* loaded, changed, longer or shorter than before, and written back.
wish_api_identity_update ==
    \E u \in Uid : wish_identity_load(db, u) # {} /\ wish_identity_update(u)

\* What is written for a document read.  If there is no memory for the new
\* one, an update keeps the old.
Replacements(id) ==
    IF id.uid # job.uid THEN {Document(id)}
    ELSE IF job.op = "remove" THEN {<< >>}
    ELSE {Document(id), Document([uid |-> job.uid, len |-> job.len])}

\* Mutant: the old offset advances by what was written.
CopyAdvancesByWritten ==
    /\ pc = "copy" /\ Readable(db, from)
    /\ \E cells \in Replacements(db[from + 1].id) :
         /\ tmp' = Overwrite(tmp, at, cells)
         /\ at' = at + Len(cells)
         /\ from' = from + Len(cells)
    /\ UNCHANGED <<db, pc, job, crashes, damaged>>

\* Mutant: the old offset advances by what was read ahead.
CopyAdvancesByPeek ==
    /\ pc = "copy" /\ Readable(db, from)
    /\ \E cells \in Replacements(db[from + 1].id) :
         /\ tmp' = Overwrite(tmp, at, cells)
         /\ at' = at + Len(cells)
         /\ from' = from + peek_len
    /\ UNCHANGED <<db, pc, job, crashes, damaged>>

\* One turn of the copying loop.
CopyDocument ==
    /\ pc = "copy" /\ Readable(db, from)
    /\ \E cells \in Replacements(db[from + 1].id) :
         /\ tmp' = Overwrite(tmp, at, cells)
         /\ at' = at + Len(cells)
         /\ from' = from + db[from + 1].id.len
    /\ UNCHANGED <<db, pc, job, crashes, damaged>>

\* The rewrite brings in or cuts off something: the second file still had
\* cells of an interrupted rewrite behind the new ones, or a document is
\* too long for the next scan.
Damages == Len(tmp) > at \/ ~Clean(tmp)

\* The end of the loop: nothing more, or a document that is not accepted.
\* Both files are closed and the first is removed.
wish_fs_remove ==
    /\ pc = "copy" /\ ~Readable(db, from)
    /\ db' = << >> /\ pc' = "gap"
    /\ damaged' = (damaged \/ Damages)
    /\ UNCHANGED <<tmp, job, from, at, crashes>>

wish_fs_rename ==
    /\ pc = "gap"
    /\ db' = tmp /\ tmp' = << >>
    /\ pc' = "idle" /\ job' = NoJob /\ from' = 0 /\ at' = 0
    /\ UNCHANGED <<crashes, damaged>>

\* The process dies and is started again.  Between remove() and rename()
\* there is no database.
Crash ==
    /\ pc # "idle" /\ crashes < MaxCrashes
    /\ crashes' = crashes + 1
    /\ damaged' = (damaged \/ pc = "gap")
    /\ pc' = "idle" /\ job' = NoJob /\ from' = 0 /\ at' = 0
    /\ UNCHANGED <<db, tmp>>

Save == \E u \in Uid, n \in SaveLens :
            wish_save_identity_entry([uid |-> u, len |-> n])

Next == \/ Save \/ wish_identity_remove \/ wish_api_identity_update
        \/ CopyDocument \/ wish_fs_remove \/ wish_fs_rename \/ Crash

Spec == Init /\ [][Next]_vars

-----------------------------------------------------------------------------
(* Properties. *)

\* Both offsets stay inside their files.
IdTypeOK ==
    /\ pc \in {"idle", "copy", "gap"}
    /\ job \in Jobs \cup {NoJob}
    /\ \A f \in {db, tmp} : \A i \in DOMAIN f :
         f[i].id \in Identity /\ f[i].part \in 1..f[i].id.len
    /\ at \in 0..Len(tmp)
    /\ pc = "copy" => from \in 0..Len(db)
    /\ crashes \in 0..MaxCrashes /\ damaged \in BOOLEAN

\* What the database holds; in the gap it is in the second file.
Contents == Scan(IF pc = "gap" THEN tmp ELSE db)

Map == INSTANCE IdentityMap WITH contents <- Contents

\* The files implement the list of identities: a removal or an update takes
\* effect at once and as a whole when the first file is removed, and a crash
\* before it changes nothing.  The promise ends with a crash in the gap, with
\* cells left over from an interrupted rewrite and with a document longer
\* than peek_len.
ImplementsMap == Map!Spec

\* A uid has one entry, whatever interrupted rewrites have come before.
UniqueUids ==
    ~damaged => \A i, k \in DOMAIN Contents :
                    Contents[i].uid = Contents[k].uid => i = k

\* The entries of other uids.
Others(u, ids) == {i \in DOMAIN ids : ids[i].uid # u}

\* Those of new begin with those of old, in their order.
KeepsOthers(u, old, new) ==
    \E place \in [Others(u, old) -> Others(u, new)] :
        \A i \in Others(u, old) :
            /\ new[place[i]] = old[i]
            /\ \A k \in Others(u, old) : i < k => place[i] < place[k]
            /\ \A m \in Others(u, new) :
                  m < place[i] => \E k \in Others(u, old) : place[k] = m

\* Even in a damaged database a rewrite that does not itself write too long
\* a document keeps every other identity that was readable, in its order.
RewriteKeepsOthers ==
    [][wish_fs_remove /\ (job.op = "update" => job.len <= peek_len)
         => KeepsOthers(job.uid, Scan(db), Scan(tmp))]_vars
=============================================================================
