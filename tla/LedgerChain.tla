----------------------------- MODULE LedgerChain -----------------------------
(***************************************************************************)
(* The event ledger: one hash-chained table in a database file, written    *)
(* and read by several processes, and the head of the chain remembered in  *)
(* a file beside it.  Source: crates/oppen-core/src/ledger/mod.rs,         *)
(* ledger/verify.rs, ledger/anchor.rs, ledger/hash.rs.                     *)
(*                                                                         *)
(* The commit of a row and the write of the sidecar are two steps: a crash *)
(* or a failed write may fall between them.  Every operation holds the     *)
(* connection mutex and an OS file lock over both, so at most one process  *)
(* is between them; `guard' is that lock and what its holder still has to  *)
(* do.  A row's hash is the sequence of all contents up to the row: hash   *)
(* preimages are length-prefixed and domain-separated, so two chains have  *)
(* equal hashes exactly when they have equal contents.                     *)
(*                                                                         *)
(* An operator may put an older copy of the database in place while no     *)
(* process runs, and leave the sidecar.                                    *)
(***************************************************************************)
EXTENDS Integers, Sequences, FiniteSets

CONSTANTS
  Procs,         \* processes that open the file
  Agents,        \* agents whose rows the chain holds
  NoOne,         \* nobody holds the lock
  Account,       \* the owner of account-wide rows: no agent
  MaxRows,       \* bound: rows of the chain
  MaxEvents,     \* bound: rows and faults together, when a row is added
  MaxFaults,     \* bound: crashes and failed sidecar writes; a restored copy counts for two
  Limits         \* page sizes an agent asks for

VARIABLES
  db,        \* [rows, head, gaps]: the tables events, chain_head and feed_gaps
  anchor,    \* the sidecar: {} or {[seq, hash]}
  open,      \* processes with an open handle
  guard,     \* [by, phase, note, ack]: the coordination lock and its holder's next step
  reader,    \* [cursor, seen]: one agent's cursor and the rows it was given
  receipts,  \* intents acknowledged to a caller: {[seq, hash, agent]}
  acked,     \* the newest row whose append returned Ok: [seq, hash]
  lost,      \* whether the copy restored last lacks the row acknowledged last before it
  failed,    \* rows in a row whose head was committed and not noted
  faults, restores

vars == <<db, anchor, open, guard, reader, receipts, acked, lost, failed, faults, restores>>

ASSUME LedgerAssumption ==
  /\ NoOne \notin Procs /\ Account \notin Agents
  /\ {MaxRows, MaxEvents, MaxFaults} \cup Limits \subseteq Nat
  /\ Agents # {}

Genesis == <<>>
None == [seq |-> 0, hash |-> Genesis]      \* a row that cites no other
AnchorLagTolerance == 1
Me == CHOOSE a \in Agents : TRUE           \* the agent that pages through the events

OperatorOnly == {"authority"}              \* pairing, registry, policy, approval and evidence rows

-----------------------------------------------------------------------------
(* Rows and the chain *)

Content(row) == [seq |-> row.seq, kind |-> row.kind, agent |-> row.agent,
                 cites |-> row.cites, ts |-> row.ts]

ChainHead == db.head
ChainRow(kind, agent, cites) ==
  LET body == [seq |-> ChainHead.seq + 1, kind |-> kind, agent |-> agent,
               cites |-> cites, ts |-> restores]
  IN  [seq |-> body.seq, kind |-> kind, agent |-> agent, cites |-> cites,
       ts |-> body.ts, prev |-> ChainHead.hash, hash |-> Append(ChainHead.hash, body), live |-> TRUE]

Link(row) == [seq |-> row.seq, hash |-> row.hash]

WithRow(d, row) == [d EXCEPT !.rows = Append(@, row), !.head = Link(row)]

(* walk: every check of one pass over the rows, then the sidecar, then chain_head. *)
PrevHash(rows, n) == IF n = 1 THEN Genesis ELSE rows[n - 1].hash

LinkHolds(rows, n) ==
  /\ rows[n].seq = n
  /\ rows[n].prev = PrevHash(rows, n)
  /\ rows[n].hash = Append(rows[n].prev, Content(rows[n]))

Explained(rows, n) ==
  \E k \in (n + 1)..Len(rows) :
    rows[k].kind = "payload_redacted" /\ rows[k].live /\ rows[k].cites.seq = n

LastLink(rows) == IF rows = <<>> THEN None ELSE Link(rows[Len(rows)])

RewoundBelow_Trusted(a, last) == FALSE     \* chain_head believed about where the chain ends
RewoundBelow(a, last) == a.seq > last.seq

Walk(d, a) ==
  LET last == LastLink(d.rows)
      at   == IF a.seq \notin DOMAIN d.rows THEN Genesis ELSE d.rows[a.seq].hash
  IN  IF \E n \in DOMAIN d.rows : ~LinkHolds(d.rows, n) THEN "link"
      ELSE IF \E n \in DOMAIN d.rows : ~d.rows[n].live /\ ~Explained(d.rows, n)
        THEN "unrecorded_tombstone"
      ELSE IF RewoundBelow(a, last) THEN "head_behind_anchor"
      ELSE IF a.seq <= last.seq /\ at # a.hash THEN "head_behind_anchor"
      ELSE IF last.seq - a.seq > AnchorLagTolerance THEN "chain_ahead_of_anchor"
      ELSE IF last # d.head THEN "head_mismatch"
      ELSE "intact"

Verify == IF anchor = {} THEN "anchor_missing" ELSE Walk(db, CHOOSE a \in anchor : TRUE)

-----------------------------------------------------------------------------
NoHold == [by |-> NoOne, phase |-> "free", note |-> None, ack |-> "none"]

Init ==
  /\ db = [rows |-> <<>>, head |-> None, gaps |-> <<>>]
  /\ anchor = {}
  /\ open = {}
  /\ guard = NoHold
  /\ reader = [cursor |-> 0, seen |-> {}]
  /\ receipts = {} /\ acked = None /\ lost = FALSE
  /\ failed = 0 /\ faults = 0 /\ restores = 0

Locked(p) == p \in open /\ guard.by = NoOne
Room == Len(db.rows) < MaxRows /\ Len(db.rows) + faults < MaxEvents

(* open_anchored: adopts the head into a missing sidecar and verifies nothing. *)
Open(p) ==
  /\ p \notin open /\ guard.by = NoOne
  /\ open' = open \cup {p}
  /\ anchor' = IF anchor = {} THEN {ChainHead} ELSE anchor
  /\ UNCHANGED <<db, guard, reader, receipts, acked, lost, failed, faults, restores>>

(* open_existing: an operator write to existing authority; refuses a missing     *)
(* sidecar and a chain that does not verify, and publishes nothing.              *)
OpenExisting(p) ==
  /\ p \notin open /\ guard.by = NoOne
  /\ anchor # {} /\ Verify = "intact"
  /\ open' = open \cup {p}
  /\ UNCHANGED <<db, anchor, guard, reader, receipts, acked, lost, failed, faults, restores>>

(* One immediate transaction, committed under the lock; the sidecar comes next. *)
Commit(p, d, ack) ==
  /\ db' = d
  /\ guard' = [by |-> p, phase |-> "note", note |-> d.head, ack |-> ack]
  /\ UNCHANGED <<anchor, open, reader, receipts, acked, lost, failed, faults, restores>>

(* append: the kinds without a door of their own. *)
PlainAppend(p, agent) ==
  /\ Locked(p) /\ Room
  /\ Commit(p, WithRow(db, ChainRow("notice", agent, None)), "row")

RecordIntent(p, agent) ==
  /\ Locked(p) /\ Room
  /\ Commit(p, WithRow(db, ChainRow("order_intent", agent, None)), "intent")

ReceiptHolds_SeqOnly(r) == r.seq \in DOMAIN db.rows
ReceiptHolds(r) == r.seq \in DOMAIN db.rows /\ db.rows[r.seq].hash = r.hash

RecordOutcome(p, r) ==
  /\ Locked(p) /\ Room
  /\ ReceiptHolds(r)
  /\ Commit(p, WithRow(db, ChainRow("outcome", r.agent, Link(r))), "row")

Nulled_Alone(d, n) == [d EXCEPT !.rows[n].live = FALSE]
Nulled(d, n) ==
  LET gone == [d EXCEPT !.rows[n].live = FALSE]
  IN  WithRow(gone, ChainRow("payload_redacted", Account, [seq |-> n, hash |-> Genesis]))

(* redact: the null and the chained row that explains it, in one transaction. *)
Redact(p, n) ==
  /\ Locked(p) /\ Room
  /\ db.rows[n].live
  /\ db.rows[n].kind # "payload_redacted"
  /\ Commit(p, Nulled(db, n), "row")

(* open_gap: idempotent; the row and the window are one transaction. *)
OpenGaps == {g \in DOMAIN db.gaps : db.gaps[g].closed = 0}

CanOpenGap_Always == TRUE
CanOpenGap == OpenGaps = {}

OpenGap(p) ==
  /\ Locked(p) /\ Room
  /\ CanOpenGap
  /\ LET row == ChainRow("ws_disconnected", Account, None)
     IN  Commit(p, [WithRow(db, row) EXCEPT
                      !.gaps = Append(@, [opened |-> row.seq, closed |-> 0, done |-> FALSE])], "row")

CloseGap(p, g) ==
  /\ Locked(p) /\ Room
  /\ db.gaps[g].closed = 0
  /\ LET row == ChainRow("ws_reconnected", Account, [seq |-> g, hash |-> Genesis])
     IN  Commit(p, [WithRow(db, row) EXCEPT !.gaps[g].closed = row.seq], "row")

(* mark_gap_reconciled: a closed window only; it chains nothing. *)
MarkGapReconciled(p, g) ==
  /\ Locked(p)
  /\ db.gaps[g].closed # 0 /\ ~db.gaps[g].done
  /\ db' = [db EXCEPT !.gaps[g].done = TRUE]
  /\ UNCHANGED <<anchor, open, guard, reader, receipts, acked, lost, failed, faults, restores>>

(* A policy, registry, pairing or submission journal: replay verifies the whole  *)
(* chain against the sidecar before its row is added.                            *)
JournalAppend(p) ==
  /\ Locked(p) /\ Room
  /\ Verify = "intact"
  /\ Commit(p, WithRow(db, ChainRow("authority", Account, None)), "row")

(* The same journals' verified reads publish the head they verified; the         *)
(* approval journal does so before its row, so that a second failure cannot      *)
(* leave two rows without a witness.                                             *)
PublishHead(p, next) ==
  /\ Locked(p) /\ (next = "approval" => Room)
  /\ Verify = "intact"
  /\ guard' = [by |-> p, phase |-> "note", note |-> ChainHead, ack |-> next]
  /\ UNCHANGED <<db, anchor, open, reader, receipts, acked, lost, failed, faults, restores>>

ApprovalAppend(p) ==
  /\ guard.by = p /\ guard.phase = "append"
  /\ Commit(p, WithRow(db, ChainRow("authority", Account, None)), "row")

-----------------------------------------------------------------------------
(* note_head, under the lock: the sidecar is replaced whole (temporary file,     *)
(* fsync, rename), so a crash leaves the old head or the new one.                *)
Noted_Dropped(a, link) == a
Noted_Beside(a, link) == a \cup {link}
Noted(a, link) == {link}

Holds(p) == guard.by = p /\ guard.phase = "note"

NoteHead(p) ==
  /\ Holds(p)
  /\ anchor' = Noted(anchor, guard.note)
  /\ failed' = 0
  /\ guard' = IF guard.ack = "approval" THEN [guard EXCEPT !.phase = "append"] ELSE NoHold
  /\ acked' = IF guard.ack \in {"row", "intent"} THEN guard.note ELSE acked
  /\ receipts' = IF guard.ack = "intent"
                   THEN receipts \cup {[seq |-> guard.note.seq, hash |-> guard.note.hash,
                                        agent |-> db.rows[guard.note.seq].agent]}
                   ELSE receipts
  /\ UNCHANGED <<db, open, reader, lost, faults, restores>>

(* A head committed and not noted: a failed sidecar write, returned to the       *)
(* caller as an error although the row is committed.                             *)
Unnoted == IF guard.ack \in {"row", "intent"} /\ guard.phase = "note" THEN failed + 1 ELSE failed

NoteFails(p) ==
  /\ Holds(p) /\ faults < MaxFaults
  /\ guard' = NoHold /\ failed' = Unnoted /\ faults' = faults + 1
  /\ UNCHANGED <<db, anchor, open, reader, receipts, acked, lost, restores>>

(* The OS drops the file lock with the process. *)
Crash(p) ==
  /\ p \in open /\ guard.by \in {p, NoOne} /\ faults < MaxFaults
  /\ open' = open \ {p}
  /\ guard' = NoHold
  /\ failed' = IF guard.by = p THEN Unnoted ELSE failed
  /\ faults' = faults + 1
  /\ UNCHANGED <<db, anchor, reader, receipts, acked, lost, restores>>

-----------------------------------------------------------------------------
(* page: the rows one agent may read after its cursor. *)
Visible(row, agent) == row.agent \in {agent, Account} /\ row.kind \notin OperatorOnly

(* A page that is full stops at its last row; a short one has looked at          *)
(* everything up to the head.                                                    *)
NextCursor_Head(page, since, limit) == ChainHead.seq
NextCursor(page, since, limit) ==
  IF Cardinality(page) = limit
    THEN IF page = {} THEN since ELSE CHOOSE n \in page : \A m \in page : m <= n
    ELSE ChainHead.seq

GetEvents(p, limit) ==
  LET after == {n \in DOMAIN db.rows : n > reader.cursor /\ Visible(db.rows[n], Me)}
      page  == {n \in after : Cardinality({m \in after : m <= n}) <= limit}
  IN  /\ Locked(p)
      /\ reader.cursor <= ChainHead.seq            \* else resync_required
      /\ reader' = [cursor |-> NextCursor(page, reader.cursor, limit),
                    seen |-> reader.seen \cup page]
      /\ UNCHANGED <<db, anchor, open, guard, receipts, acked, lost, failed, faults, restores>>

(* The operator puts back a copy of the database taken when it had n rows, and   *)
(* leaves the sidecar.                                                           *)
AsOf(d, n) ==
  LET rows == SubSeq(d.rows, 1, n)
      gaps == {g \in DOMAIN d.gaps : d.gaps[g].opened <= n}
  IN  [rows |-> [k \in 1..n |-> [rows[k] EXCEPT !.live = ~Explained(rows, k)]],
       head |-> LastLink(rows),
       gaps |-> [g \in gaps |-> IF d.gaps[g].closed <= n THEN d.gaps[g]
                                 ELSE [d.gaps[g] EXCEPT !.closed = 0, !.done = FALSE]]]

RestoreCopy(n) ==
  /\ open = {} /\ faults + 2 <= MaxFaults
  /\ db' = AsOf(db, n)
  /\ lost' = (acked.seq > n)
  /\ restores' = restores + 1 /\ faults' = faults + 2
  /\ UNCHANGED <<anchor, open, guard, reader, receipts, acked, failed>>

(* A process ends with nothing in flight. *)
Close(p) ==
  /\ Locked(p)
  /\ open' = open \ {p}
  /\ UNCHANGED <<db, anchor, guard, reader, receipts, acked, lost, failed, faults, restores>>

Next ==
  \/ \E p \in Procs :
       \/ Open(p) \/ OpenExisting(p) \/ Close(p) \/ Crash(p)
       \/ \E agent \in Agents : PlainAppend(p, agent) \/ RecordIntent(p, agent)
       \/ \E r \in receipts : RecordOutcome(p, r)
       \/ \E n \in DOMAIN db.rows : Redact(p, n)
       \/ \E g \in DOMAIN db.gaps : CloseGap(p, g) \/ MarkGapReconciled(p, g)
       \/ OpenGap(p)
       \/ JournalAppend(p)
       \/ \E next \in {"read", "approval"} : PublishHead(p, next)
       \/ ApprovalAppend(p)
       \/ NoteHead(p) \/ NoteFails(p)
       \/ \E limit \in Limits : GetEvents(p, limit)
  \/ \E n \in 0..(Len(db.rows) - 1) : RestoreCopy(n)

Spec == Init /\ [][Next]_vars

-----------------------------------------------------------------------------
(* The tables, the lock and the sidecar keep their shape. *)
TypeOK ==
  /\ Len(db.rows) <= MaxRows
  /\ \A n \in DOMAIN db.rows :
       /\ db.rows[n].seq = n /\ db.rows[n].live \in BOOLEAN
       /\ db.rows[n].agent \in Agents \cup {Account}
  /\ \A g \in DOMAIN db.gaps : db.gaps[g].opened \in DOMAIN db.rows
  /\ Cardinality(anchor) <= 1
  /\ open \subseteq Procs /\ guard.by \in Procs \cup {NoOne}
  /\ (guard.by # NoOne => guard.by \in open /\ guard.phase \in {"note", "append"})
  /\ failed \in 0..MaxFaults /\ faults \in 0..MaxFaults /\ restores \in 0..MaxFaults

(* A chain only this code wrote verifies, whichever processes wrote it, whatever *)
(* was redacted and wherever a crash fell; the one exception is a tail two       *)
(* publication failures in a row left without a witness.                         *)
HonestChainVerifies ==
  (restores = 0 /\ anchor # {} /\ guard.by = NoOne) =>
     \/ Verify = "intact"
     \/ Verify = "chain_ahead_of_anchor" /\ failed >= 2

(* What verify.rs says of the tolerance: a crash leaves exactly one unwitnessed  *)
(* row, "anything beyond that is not a crash".                                   *)
CrashIsNotForgery ==
  (restores = 0 /\ anchor # {} /\ guard.by = NoOne) => Verify # "chain_ahead_of_anchor"

(* A caller that was told its row is in has it under the sidecar: no row         *)
(* acknowledged before or after it, by any process, moves the witness behind it. *)
AckedIsWitnessed ==
  (restores = 0 /\ acked # None) =>
     /\ \A a \in anchor : a.seq >= acked.seq
     /\ db.rows[acked.seq].hash = acked.hash

(* An outcome stands for the intent it cites: that row is in the same chain, is  *)
(* an intent of the same agent, and has the hash the receipt carried, also after *)
(* an older copy of the file came back and its sequence numbers were reissued.   *)
OutcomesCiteIntents ==
  \A n \in DOMAIN db.rows : db.rows[n].kind = "outcome" =>
     LET cited == db.rows[n].cites
     IN  /\ cited.seq \in 1..(n - 1)
         /\ db.rows[cited.seq].kind = "order_intent"
         /\ db.rows[cited.seq].agent = db.rows[n].agent
         /\ db.rows[cited.seq].hash = cited.hash

(* A cursor never jumps over a row its agent may read, whatever the page size,   *)
(* whoever else's rows lie between and whatever is appended between two calls.   *)
CursorSkipsNothing ==
  restores = 0 =>
    \A n \in DOMAIN db.rows :
      (n <= reader.cursor /\ Visible(db.rows[n], Me)) => n \in reader.seen

(* The windows and the chain tell one story: a scope has at most one open window *)
(* and every disconnect row is the start of exactly one window.                  *)
GapsMatchChain ==
  /\ Cardinality(OpenGaps) <= 1
  /\ \A n \in DOMAIN db.rows : db.rows[n].kind = "ws_disconnected" =>
       Cardinality({g \in DOMAIN db.gaps : db.gaps[g].opened = n}) = 1
  /\ \A g \in DOMAIN db.gaps : db.gaps[g].closed # 0 =>
       db.rows[db.gaps[g].closed].kind = "ws_reconnected" /\ db.gaps[g].closed > db.gaps[g].opened

(* A copy that lacks an acknowledged row is reported by every verification until *)
(* some process adds a row without verifying, however the file is opened and     *)
(* whichever journals are read before.                                           *)
RestoreIsReported ==
  (lost /\ guard.by = NoOne /\ \A n \in DOMAIN db.rows : db.rows[n].ts < restores)
     => Verify = "head_behind_anchor"

(* What the verifier and the readers of the chain rely on. *)
ChainSound == TypeOK /\ HonestChainVerifies /\ GapsMatchChain

(* What the sidecar promises: acknowledged rows stay witnessed, and a copy *)
(* that lacks one is reported.                                             *)
WitnessHolds == AckedIsWitnessed /\ RestoreIsReported
=============================================================================
