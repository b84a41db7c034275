----------------------------- MODULE FrameCodec -----------------------------
(***************************************************************************)
(* The binary log of one collection, byte by byte (src/storage/engine.cpp)  *)
(* and the Db operations that write and replay it (src/storage/db.cpp).     *)
(*                                                                         *)
(* A frame is a 4-byte little-endian uint32 length followed by the         *)
(* payload (Engine::append).  Engine::load_log reads frames until EOF, a   *)
(* short header or a short payload.  Db::insert appends one frame; a       *)
(* process crash may cut that frame anywhere; the std::ofstream reports    *)
(* file.good() before its destructor flushes, so an I/O error may also     *)
(* leave a prefix of the frame whatever append returned.  Restart is       *)
(* Db::load_all, Compact is Engine::compact (write .aev.tmp, rename).      *)
(*                                                                         *)
(* Db::remove appends one tombstone frame per target and ignores the      *)
(* result of append.                                                       *)
(*                                                                         *)
(* Payloads are printed JSON: every byte is >= 0x20.  Docs is a small set *)
(* of such byte strings of different lengths, one per document, and        *)
(* TombOf[d] the tombstone of d ({"_id":...,"_deleted":true}); a payload    *)
(* that is neither is a frame cJSON cannot parse and load_all skips it.    *)
(***************************************************************************)
EXTENDS Naturals, Sequences, SequencesExt, FiniteSets

CONSTANTS
    Docs,           \* payload byte strings, each the printed JSON of one document
    TombOf,         \* TombOf[d]: the payload of d's tombstone
    LateFlushErrors \* whether a write error may surface only in the destructor's flush

Tombs == { TombOf[d] : d \in Docs }

ASSUME /\ Docs \cup Tombs \subseteq Seq(32..126) /\ Docs \cap Tombs = {}
       /\ LateFlushErrors \in BOOLEAN

VARIABLES
    file,      \* the bytes of <coll>.aev
    mem,       \* documents of memory_store_[coll] while the process runs
    up,        \* the process is running
    acked,     \* documents whose insert returned true
    inserted,  \* documents an insert has been started for (each at most once)
    segs       \* history: one record per frame whose bytes reached the file,
               \* [p, whole]: its payload, FALSE when only a prefix did

vars == <<file, mem, up, acked, inserted, segs>>

Byte == 0..255

(* static_cast<uint32_t>(size) written through reinterpret_cast: the       *)
(* little-endian byte image of n.                                          *)
LE32(n) == << n % 256, (n \div 256) % 256, (n \div 65536) % 256, n \div 16777216 >>

Frame(p) == LE32(Len(p)) \o p

Encode(ps) == FoldLeft(LAMBDA acc, p : acc \o Frame(p), <<>>, ps)

(* Header length read back as a uint32.  A non-zero top byte means a length *)
(* of at least 2^24, longer than any file of the model: TLC's integers stop *)
(* at 2^31, so such a length is represented by 2^24 itself, which compares  *)
(* with the remaining bytes exactly as the real value does.                 *)
HeaderLenBE(h) == IF h[1] > 0 THEN 16777216 ELSE h[4] + 256 * h[3] + 65536 * h[2]

HeaderLen(h) == IF h[4] > 0 THEN 16777216 ELSE h[1] + 256 * h[2] + 65536 * h[3]

(* Engine::load_log: while the stream is not at EOF, read a 4-byte header   *)
(* (fewer than 4 bytes: break), then read that many payload bytes (fewer:   *)
(* break, else push_back).                                                  *)
RECURSIVE LoadLog(_)
LoadLog(f) ==
    IF f = <<>> \/ Len(f) < 4 THEN <<>>
    ELSE LET n    == HeaderLen(SubSeq(f, 1, 4))
             rest == SubSeq(f, 5, Len(f))
         IN  IF Len(rest) < n THEN <<>>
             ELSE <<SubSeq(rest, 1, n)>> \o LoadLog(SubSeq(rest, n + 1, Len(rest)))

(* Db::load_all, Phase 2, one frame into temp_map: a frame cJSON cannot    *)
(* parse is skipped, a tombstone erases its document, a document frame    *)
(* puts the document.                                                      *)
ApplyPayload(m, p) ==
    IF p \in Docs THEN m \cup {p}
    ELSE IF p \in Tombs THEN m \ { d \in Docs : TombOf[d] = p }
    ELSE m

Replayed(ps) == FoldLeft(ApplyPayload, {}, ps)

RecoveredNoParse(f) == Range(LoadLog(f))

Recovered(f) == Replayed(LoadLog(f))

Init ==
    /\ file = <<>>
    /\ mem = {}
    /\ up = TRUE
    /\ acked = {}
    /\ inserted = {}
    /\ segs = <<>>

(* Db::insert with append succeeding: the whole frame is written and        *)
(* file.good() holds.                                                       *)
Insert(d) ==
    /\ up /\ d \notin inserted
    /\ file' = file \o Frame(d)
    /\ segs' = Append(segs, [p |-> d, whole |-> TRUE])
    /\ mem' = mem \cup {d}
    /\ acked' = acked \cup {d}
    /\ inserted' = inserted \cup {d}
    /\ UNCHANGED up

(* Db::insert with an I/O error: the document is already in memory_store_;  *)
(* k < Len(frame) bytes reach the file (k = 0: open failed).  append        *)
(* returns false when the error shows in file.good(), true when it only    *)
(* happens in the flush of the ofstream's destructor.                       *)
InsertPartial(d) ==
    /\ up /\ d \notin inserted
    /\ \E k \in 0..(Len(Frame(d)) - 1), ok \in IF LateFlushErrors THEN BOOLEAN ELSE {FALSE} :
        /\ file' = file \o SubSeq(Frame(d), 1, k)
        /\ segs' = IF k = 0 THEN segs ELSE Append(segs, [p |-> d, whole |-> FALSE])
        /\ acked' = IF ok THEN acked \cup {d} ELSE acked
    /\ mem' = mem \cup {d}
    /\ inserted' = inserted \cup {d}
    /\ UNCHANGED up

(* The process dies inside Db::insert, after k bytes of the frame.          *)
CrashInInsert(d) ==
    /\ up /\ d \notin inserted
    /\ \E k \in 0..(Len(Frame(d)) - 1) :
        /\ file' = file \o SubSeq(Frame(d), 1, k)
        /\ segs' = IF k = 0 THEN segs ELSE Append(segs, [p |-> d, whole |-> FALSE])
    /\ up' = FALSE
    /\ mem' = {}
    /\ inserted' = inserted \cup {d}
    /\ UNCHANGED acked

(* Db::remove of a live document: its tombstone frame is appended, whole  *)
(* or (I/O error) any prefix of it, and the document leaves memory         *)
(* whatever append returned.                                               *)
RemoveDoc(d) ==
    /\ up /\ d \in mem
    /\ \E k \in 0..Len(Frame(TombOf[d])) :
        /\ file' = file \o SubSeq(Frame(TombOf[d]), 1, k)
        /\ segs' = IF k = 0 THEN segs
                   ELSE Append(segs, [p |-> TombOf[d], whole |-> k = Len(Frame(TombOf[d]))])
    /\ mem' = mem \ {d}
    /\ acked' = acked \ {d}
    /\ UNCHANGED <<up, inserted>>

(* The process dies inside Db::remove, after k bytes of the tombstone.     *)
CrashInRemove(d) ==
    /\ up /\ d \in mem
    /\ \E k \in 0..(Len(Frame(TombOf[d])) - 1) :
        /\ file' = file \o SubSeq(Frame(TombOf[d]), 1, k)
        /\ segs' = IF k = 0 THEN segs ELSE Append(segs, [p |-> TombOf[d], whole |-> FALSE])
    /\ up' = FALSE
    /\ mem' = {}
    /\ UNCHANGED <<acked, inserted>>

(* The process dies between requests, or inside a compaction before the     *)
(* rename (the .aev.tmp file is ignored by list_collections).               *)
Crash ==
    /\ up
    /\ up' = FALSE
    /\ mem' = {}
    /\ UNCHANGED <<file, acked, inserted, segs>>

(* Db::load_all for the collection.  Its auto-compaction needs more than   *)
(* 100 live documents and never fires in this model.                        *)
Restart ==
    /\ ~up
    /\ up' = TRUE
    /\ mem' = Recovered(file)
    /\ UNCHANGED <<file, acked, inserted, segs>>

(* Db::trigger_compaction -> compact_collection -> Engine::compact: the     *)
(* memory documents, framed, replace the file by rename.                    *)
Compact ==
    /\ up
    /\ file' = Encode(SetToSeq(mem))
    /\ segs' = [i \in 1..Cardinality(mem) |-> [p |-> SetToSeq(mem)[i], whole |-> TRUE]]
    /\ UNCHANGED <<mem, up, acked, inserted>>

(* Engine::compact failing (file.fail() after close, or rename throwing):   *)
(* the temporary file is removed or left behind, the log is untouched.      *)
CompactFail ==
    /\ up
    /\ UNCHANGED vars

Next ==
    \/ \E d \in Docs : Insert(d) \/ InsertPartial(d) \/ CrashInInsert(d)
    \/ \E d \in Docs : RemoveDoc(d) \/ CrashInRemove(d)
    \/ Crash \/ Restart \/ Compact \/ CompactFail

Spec == Init /\ [][Next]_vars

-----------------------------------------------------------------------------

TypeOK ==
    /\ file \in Seq(Byte)
    /\ mem \subseteq Docs /\ acked \subseteq inserted /\ inserted \subseteq Docs
    /\ up \in BOOLEAN
    /\ segs \in Seq([p : Docs \cup Tombs, whole : BOOLEAN])

(* Index of the first frame of which only a prefix reached the file.        *)
FirstTear == LET torn == { i \in DOMAIN segs : ~segs[i].whole }
             IN  IF torn = {} THEN Len(segs) + 1 ELSE CHOOSE i \in torn : \A j \in torn : i <= j

(* A tear never costs what was written before it, and the reader never     *)
(* turns the bytes around a torn frame into a document or a tombstone: a   *)
(* restart at any moment recovers the replay of every frame before the    *)
(* first torn one, followed by some of the whole frames after it, in log   *)
(* order (the reader may land on a later frame boundary again when the     *)
(* bytes after a torn header happen to fill the length it announced).      *)
RecoverUpToTear ==
    LET pre   == [i \in 1..(FirstTear - 1) |-> segs[i].p]
        after == SelectSeq(SubSeq(segs, FirstTear + 1, Len(segs)), LAMBDA r : r.whole)
    IN  \E s \in AllSubSeqs([i \in DOMAIN after |-> after[i].p]) :
            Recovered(file) = Replayed(pre \o s)

(* The storage contract (spec 6.1, 7): a crash may lose the trailing frame, *)
(* which the reader discards, but every insert that returned true is        *)
(* recovered by a restart at any later moment.                              *)
AckedRecoverable == acked \subseteq Recovered(file)
=============================================================================
