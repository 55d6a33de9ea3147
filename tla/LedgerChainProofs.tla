-------------------------- MODULE LedgerChainProofs --------------------------
(***************************************************************************)
(* Why the ledger's promises hold for any processes, agents, rows, faults, *)
(* restored copies and page sizes.  Three ideas carry the proofs: the rows *)
(* are always the prefix of a chain somebody appended, whatever was        *)
(* redacted or restored; the sidecar lags behind the chain by the failed   *)
(* notes and the note still pending; and a hash determines the content of  *)
(* its row, so a receipt cannot name another row than its own.             *)
(*                                                                         *)
(* The last part is about the desktop runtime, which opens and closes such *)
(* a file's owners: the stages of its drain are passed in order, admission *)
(* is closed while a feed is replaced, and the network and the account of  *)
(* the feed are those of everything admitted beside it.                    *)
(***************************************************************************)
EXTENDS MCLedger, FiniteSetTheorems, WellFoundedInduction, TLAPS

-----------------------------------------------------------------------------
(* Sequences whose elements need no common type *)

IsSeq(s) == \E S : s \in Seq(S)

(* Appending adds one element at the end and keeps the others.             *)
LEMMA AppendFacts ==
    ASSUME NEW s, IsSeq(s), NEW e
    PROVE  /\ IsSeq(Append(s, e)) /\ Len(Append(s, e)) = Len(s) + 1
           /\ Len(s) \in Nat /\ DOMAIN Append(s, e) = 1..(Len(s) + 1)
           /\ Append(s, e)[Len(s) + 1] = e
           /\ \A i \in 1..Len(s) : Append(s, e)[i] = s[i]
    <1>1. PICK S : s \in Seq(S)
        BY DEF IsSeq
    <1>2. s \in Seq(S \cup {e})
        BY <1>1
    <1>3. Append(s, e) \in Seq(S \cup {e})
        BY <1>2
    <1> QED BY <1>1, <1>2, <1>3 DEF IsSeq

(* The last element and what precedes it can be read off a sequence.       *)
LEMMA AppendInjective ==
    ASSUME NEW s, NEW t, IsSeq(s), IsSeq(t), NEW e, NEW f, Append(s, e) = Append(t, f)
    PROVE  e = f
    BY AppendFacts

(* Replacing one element keeps the others and the length.                  *)
LEMMA ExceptFacts ==
    ASSUME NEW s, IsSeq(s), NEW n \in 1..Len(s), NEW v
    PROVE  LET t == [s EXCEPT ![n] = v]
           IN  /\ IsSeq(t) /\ Len(t) = Len(s) /\ t[n] = v
               /\ \A i \in 1..Len(s) : i # n => t[i] = s[i]
    <1>1. PICK S : s \in Seq(S)
        BY DEF IsSeq
    <1>2. s \in Seq(S \cup {v})
        BY <1>1
    <1>3. [s EXCEPT ![n] = v] \in Seq(S \cup {v})
        BY <1>2
    <1> QED BY <1>1, <1>2, <1>3 DEF IsSeq

(* A sequence has its length for a domain.                                 *)
LEMMA SeqDomain ==
    ASSUME NEW s, IsSeq(s)
    PROVE  DOMAIN s = 1..Len(s) /\ Len(s) \in Nat /\ (s = <<>> <=> Len(s) = 0)
    BY DEF IsSeq

(* The empty sequence is one.                                              *)
LEMMA EmptyIsSeq == IsSeq(<<>>) /\ Len(<<>>) = 0
    <1>1. <<>> \in Seq({})
        OBVIOUS
    <1> QED BY <1>1 DEF IsSeq

(* A function on 1..n is a sequence of length n.                           *)
LEMMA FunIsSeq ==
    ASSUME NEW n \in Nat, NEW f, f = [k \in 1..n |-> f[k]]
    PROVE  IsSeq(f) /\ Len(f) = n
    <1> DEFINE S == {f[k] : k \in 1..n}
    <1>1. f \in [1..n -> S]
        OBVIOUS
    <1>2. f \in Seq(S)
        BY <1>1
    <1>3. Len(f) = n
        BY <1>1, <1>2
    <1> QED BY <1>2, <1>3 DEF IsSeq

(* Every set of numbers has a least one.                                   *)
LEMMA Smallest ==
    ASSUME NEW T \in SUBSET Nat, T # {}
    PROVE  \E x \in T : \A y \in T : x <= y
    <1>1. IsWellFoundedOn(OpToRel(<, Nat), Nat)
        BY NatLessThanWellFounded
    <1>2. PICK x \in T : \A y \in T : ~(<<y, x>> \in OpToRel(<, Nat))
        BY <1>1, WFMin
    <1>3. \A y \in T : ~(y < x)
        BY <1>2 DEF OpToRel
    <1> QED BY <1>3

(* A set of numbers with a bound has a greatest one.                       *)
LEMMA Greatest ==
    ASSUME NEW T \in SUBSET Nat, T # {}, NEW b \in Nat, \A y \in T : y <= b
    PROVE  \E x \in T : \A y \in T : y <= x
    <1> DEFINE U == {u \in Nat : \A y \in T : y <= u}
    <1>1. U \in SUBSET Nat /\ U # {}
        OBVIOUS
    <1>2. PICK u \in U : \A v \in U : u <= v
        BY <1>1, Smallest
    <1>3. u \in T
        <2>1. SUFFICES ASSUME u \notin T PROVE FALSE
            OBVIOUS
        <2>2. \A y \in T : y < u
            BY <2>1, <1>2
        <2>3. u \in Nat /\ \A y \in T : y \in Nat
            OBVIOUS
        <2>4. PICK t : t \in T
            OBVIOUS
        <2>5. u - 1 \in Nat
            BY <2>2, <2>3, <2>4
        <2>6. \A y \in T : y <= u - 1
            BY <2>2, <2>3
        <2>7. u - 1 \in U
            BY <2>5, <2>6
        <2>8. u <= u - 1
            BY <2>7, <1>2
        <2> QED BY <2>3, <2>8
    <1>4. \A y \in T : y <= u
        OBVIOUS
    <1> HIDE DEF U
    <1> QED BY <1>3, <1>4

-----------------------------------------------------------------------------
(* The rows *)

IsRow(r) ==
    r = [seq |-> r.seq, kind |-> r.kind, agent |-> r.agent, cites |-> r.cites,
         ts |-> r.ts, prev |-> r.prev, hash |-> r.hash, live |-> r.live]

SameContent(r, s) ==
    /\ s.seq = r.seq /\ s.kind = r.kind /\ s.agent = r.agent /\ s.cites = r.cites
    /\ s.ts = r.ts /\ s.prev = r.prev /\ s.hash = r.hash

(* The rows are a chain of rows this program wrote.                        *)
Chained(rows) ==
    /\ IsSeq(rows)
    /\ \A n \in 1..Len(rows) :
          /\ IsRow(rows[n])
          /\ rows[n].live \in BOOLEAN
          /\ rows[n].agent \in Agents \cup {Account}
          /\ IsSeq(rows[n].prev)
          /\ LinkHolds(rows, n)

(* A row that says of another that it was redacted is never redacted       *)
(* itself, and each redacted row has one.                                  *)
Redacted(rows) ==
    \A n \in 1..Len(rows) :
        /\ rows[n].kind = "payload_redacted" =>
              /\ rows[n].live
              /\ rows[n].cites.seq \in 1..(n - 1)
              /\ rows[rows[n].cites.seq].kind # "payload_redacted"
        /\ ~rows[n].live => Explained(rows, n)

CitesIntent(rows, n) ==
    LET cited == rows[n].cites
    IN  /\ cited.seq \in 1..(n - 1)
        /\ rows[cited.seq].kind = "order_intent"
        /\ rows[cited.seq].agent = rows[n].agent
        /\ rows[cited.seq].hash = cited.hash

Outcomes(rows) == \A n \in 1..Len(rows) : rows[n].kind = "outcome" => CitesIntent(rows, n)

Gap == [opened : Nat, closed : Nat, done : BOOLEAN]

(* Windows follow each other, and each disconnect row starts one.          *)
Windows(rows, gaps) ==
    /\ gaps \in Seq(Gap)
    /\ \A g \in 1..Len(gaps) :
          /\ gaps[g].opened \in 1..Len(rows)
          /\ gaps[g].closed # 0 =>
                /\ gaps[g].closed \in 1..Len(rows) /\ gaps[g].closed > gaps[g].opened
                /\ rows[gaps[g].closed].kind = "ws_reconnected"
    /\ \A g, h \in 1..Len(gaps) : g < h => gaps[g].closed # 0 /\ gaps[g].closed < gaps[h].opened
    /\ \A n \in 1..Len(rows) :
          rows[n].kind = "ws_disconnected" => \E g \in 1..Len(gaps) : gaps[g].opened = n

-----------------------------------------------------------------------------
(* One more row at the end, the others with the content they had. *)

Grown(rows, new, row) ==
    /\ IsSeq(new) /\ Len(new) = Len(rows) + 1 /\ new[Len(rows) + 1] = row
    /\ \A n \in 1..Len(rows) :
          IsRow(new[n]) /\ SameContent(rows[n], new[n]) /\ new[n].live \in BOOLEAN

(* A row built on the head of a chain.                                     *)
NextRow(rows, row) ==
    /\ IsRow(row) /\ row.live = TRUE
    /\ row.seq = Len(rows) + 1 /\ row.agent \in Agents \cup {Account}
    /\ row.prev = LastLink(rows).hash /\ row.hash = Append(row.prev, Content(row))

(* The hash a chain ends with is a sequence.                               *)
LEMMA HeadHash ==
    ASSUME NEW rows, Chained(rows)
    PROVE  /\ IsSeq(LastLink(rows).hash)
           /\ LastLink(rows).seq = Len(rows) /\ Len(rows) \in Nat
           /\ rows # <<>> => LastLink(rows).hash = rows[Len(rows)].hash
    <1>1. CASE rows = <<>>
        BY <1>1, EmptyIsSeq DEF LastLink, None, Genesis
    <1>2. CASE rows # <<>>
        <2>1. Len(rows) \in 1..Len(rows) /\ Len(rows) \in Nat
            BY <1>2, SeqDomain DEF Chained
        <2>2. rows[Len(rows)].hash = Append(rows[Len(rows)].prev, Content(rows[Len(rows)]))
              /\ IsSeq(rows[Len(rows)].prev) /\ rows[Len(rows)].seq = Len(rows)
            BY <2>1 DEF Chained, LinkHolds
        <2>3. IsSeq(rows[Len(rows)].hash)
            BY <2>2, AppendFacts
        <2> QED BY <1>2, <2>1, <2>2, <2>3 DEF LastLink, Link
    <1> QED BY <1>1, <1>2

(* A chain with the next row is a chain.                                   *)
LEMMA GrownChained ==
    ASSUME NEW rows, Chained(rows), NEW new, NEW row, Grown(rows, new, row), NextRow(rows, row)
    PROVE  Chained(new)
    <1> DEFINE L == Len(rows)
    <1>0. L \in Nat /\ Len(new) = L + 1
        BY SeqDomain DEF Chained, Grown
    <1>1. ASSUME NEW n \in 1..Len(new)
          PROVE  /\ IsRow(new[n]) /\ new[n].live \in BOOLEAN
                 /\ new[n].agent \in Agents \cup {Account}
                 /\ IsSeq(new[n].prev) /\ LinkHolds(new, n)
        <2>1. CASE n = L + 1
            <3>1. new[n] = row
                BY <2>1 DEF Grown
            <3>2. PrevHash(new, n) = LastLink(rows).hash
                <4>1. CASE L = 0
                    BY <4>1, <2>1, SeqDomain DEF PrevHash, LastLink, None, Chained
                <4>2. CASE L # 0
                    <5>1. L \in 1..L /\ n - 1 = L /\ n # 1
                        BY <4>2, <2>1, <1>0
                    <5>2. new[L].hash = rows[L].hash
                        BY <5>1 DEF Grown, SameContent
                    <5>3. LastLink(rows).hash = rows[L].hash
                        BY <4>2, HeadHash, SeqDomain DEF Chained
                    <5> QED BY <5>1, <5>2, <5>3 DEF PrevHash
                <4> QED BY <4>1, <4>2
            <3>3. IsSeq(row.prev)
                BY HeadHash DEF NextRow
            <3> QED BY <2>1, <3>1, <3>2, <3>3 DEF NextRow, LinkHolds
        <2>2. CASE n # L + 1
            <3>1. n \in 1..L
                BY <1>0, <2>2
            <3>2. IsRow(new[n]) /\ SameContent(rows[n], new[n]) /\ new[n].live \in BOOLEAN
                BY <3>1 DEF Grown
            <3>3. PrevHash(new, n) = PrevHash(rows, n)
                <4>1. CASE n = 1
                    BY <4>1 DEF PrevHash
                <4>2. CASE n # 1
                    <5>1. n - 1 \in 1..L
                        BY <4>2, <3>1, <1>0
                    <5>2. new[n - 1].hash = rows[n - 1].hash
                        BY <5>1 DEF Grown, SameContent
                    <5> QED BY <4>2, <5>2 DEF PrevHash
                <4> QED BY <4>1, <4>2
            <3>4. Content(new[n]) = Content(rows[n])
                BY <3>2 DEF SameContent, Content
            <3> QED BY <3>1, <3>2, <3>3, <3>4 DEF Chained, LinkHolds, SameContent
        <2> QED BY <2>1, <2>2
    <1> QED BY <1>1 DEF Chained, Grown

(* A row of another kind leaves the redactions explained.                  *)
LEMMA GrownRedacted ==
    ASSUME NEW rows, Chained(rows), Redacted(rows), NEW new, NEW row, Grown(rows, new, row),
           row.live = TRUE, row.kind # "payload_redacted",
           \A n \in 1..Len(rows) : new[n].live = rows[n].live
    PROVE  Redacted(new)
    <1> DEFINE L == Len(rows)
    <1>0. L \in Nat /\ Len(new) = L + 1 /\ new[L + 1] = row
        BY SeqDomain DEF Chained, Grown
    <1>1. ASSUME NEW n \in 1..L
          PROVE  new[n].kind = rows[n].kind /\ new[n].cites = rows[n].cites /\ new[n].live = rows[n].live
        BY DEF Grown, SameContent
    <1>2. ASSUME NEW n \in 1..L, Explained(rows, n)
          PROVE  Explained(new, n)
        <2>1. PICK k \in (n + 1)..L :
                 rows[k].kind = "payload_redacted" /\ rows[k].live /\ rows[k].cites.seq = n
            BY <1>2 DEF Explained
        <2>2. k \in 1..L /\ k \in (n + 1)..Len(new)
            BY <1>0
        <2> QED BY <1>1, <2>1, <2>2 DEF Explained
    <1>3. ASSUME NEW n \in 1..Len(new)
          PROVE  /\ new[n].kind = "payload_redacted" =>
                       /\ new[n].live
                       /\ new[n].cites.seq \in 1..(n - 1)
                       /\ new[new[n].cites.seq].kind # "payload_redacted"
                 /\ ~new[n].live => Explained(new, n)
        <2>1. CASE n = L + 1
            BY <2>1, <1>0
        <2>2. CASE n # L + 1
            <3>1. n \in 1..L
                BY <2>2, <1>0
            <3>2. ASSUME new[n].kind = "payload_redacted"
                  PROVE  /\ new[n].live /\ new[n].cites.seq \in 1..(n - 1)
                         /\ new[new[n].cites.seq].kind # "payload_redacted"
                <4>1. /\ rows[n].live /\ rows[n].cites.seq \in 1..(n - 1)
                      /\ rows[rows[n].cites.seq].kind # "payload_redacted"
                    BY <3>1, <3>2, <1>1 DEF Redacted
                <4>2. rows[n].cites.seq \in 1..L
                    BY <4>1, <3>1, <1>0
                <4> QED BY <4>1, <4>2, <3>1, <1>1
            <3>3. ~new[n].live => Explained(new, n)
                BY <3>1, <1>1, <1>2 DEF Redacted
            <3> QED BY <3>2, <3>3
        <2> QED BY <2>1, <2>2
    <1> QED BY <1>3 DEF Redacted

(* The row of a redaction explains it.                                     *)
LEMMA RedactionExplained ==
    ASSUME NEW rows, Chained(rows), Redacted(rows), NEW new, NEW row, Grown(rows, new, row),
           NEW m \in 1..Len(rows), rows[m].kind # "payload_redacted",
           row.live = TRUE, row.kind = "payload_redacted", row.cites.seq = m,
           \A n \in 1..Len(rows) : n # m => new[n].live = rows[n].live
    PROVE  Redacted(new)
    <1> DEFINE L == Len(rows)
    <1>0. L \in Nat /\ Len(new) = L + 1 /\ new[L + 1] = row
        BY SeqDomain DEF Chained, Grown
    <1>1. ASSUME NEW n \in 1..L
          PROVE  new[n].kind = rows[n].kind /\ new[n].cites = rows[n].cites
                 /\ (n # m => new[n].live = rows[n].live)
        BY DEF Grown, SameContent
    <1>2. ASSUME NEW n \in 1..L, Explained(rows, n)
          PROVE  Explained(new, n)
        <2>1. PICK k \in (n + 1)..L :
                 rows[k].kind = "payload_redacted" /\ rows[k].live /\ rows[k].cites.seq = n
            BY <1>2 DEF Explained
        <2>2. k \in 1..L /\ k \in (n + 1)..Len(new) /\ k # m
            BY <1>0, <2>1
        <2> QED BY <1>1, <2>1, <2>2 DEF Explained
    <1>3. Explained(new, m)
        <2>1. L + 1 \in (m + 1)..Len(new)
            BY <1>0
        <2> QED BY <2>1, <1>0 DEF Explained
    <1>4. ASSUME NEW n \in 1..Len(new)
          PROVE  /\ new[n].kind = "payload_redacted" =>
                       /\ new[n].live
                       /\ new[n].cites.seq \in 1..(n - 1)
                       /\ new[new[n].cites.seq].kind # "payload_redacted"
                 /\ ~new[n].live => Explained(new, n)
        <2>1. CASE n = L + 1
            BY <2>1, <1>0, <1>1
        <2>2. CASE n # L + 1
            <3>1. n \in 1..L
                BY <2>2, <1>0
            <3>2. ASSUME new[n].kind = "payload_redacted"
                  PROVE  /\ new[n].live /\ new[n].cites.seq \in 1..(n - 1)
                         /\ new[new[n].cites.seq].kind # "payload_redacted"
                <4>1. /\ rows[n].live /\ rows[n].cites.seq \in 1..(n - 1)
                      /\ rows[rows[n].cites.seq].kind # "payload_redacted"
                    BY <3>1, <3>2, <1>1 DEF Redacted
                <4>2. rows[n].cites.seq \in 1..L /\ n # m
                    BY <4>1, <3>1, <3>2, <1>0, <1>1
                <4> QED BY <4>1, <4>2, <3>1, <1>1
            <3>3. ~new[n].live => Explained(new, n)
                BY <3>1, <1>1, <1>2, <1>3 DEF Redacted
            <3> QED BY <3>2, <3>3
        <2> QED BY <2>1, <2>2
    <1> QED BY <1>4 DEF Redacted

(* Outcomes keep citing their intents, and a new one does.                 *)
LEMMA GrownOutcomes ==
    ASSUME NEW rows, Chained(rows), Outcomes(rows), NEW new, NEW row, Grown(rows, new, row),
           row.kind = "outcome" =>
              /\ row.cites.seq \in 1..Len(rows)
              /\ rows[row.cites.seq].kind = "order_intent"
              /\ rows[row.cites.seq].agent = row.agent
              /\ rows[row.cites.seq].hash = row.cites.hash
    PROVE  Outcomes(new)
    <1> DEFINE L == Len(rows)
    <1>0. L \in Nat /\ Len(new) = L + 1 /\ new[L + 1] = row
        BY SeqDomain DEF Chained, Grown
    <1>1. ASSUME NEW n \in 1..L
          PROVE  /\ new[n].kind = rows[n].kind /\ new[n].cites = rows[n].cites
                 /\ new[n].agent = rows[n].agent /\ new[n].hash = rows[n].hash
        BY DEF Grown, SameContent
    <1>2. ASSUME NEW n \in 1..Len(new), new[n].kind = "outcome"
          PROVE  CitesIntent(new, n)
        <2>1. CASE n = L + 1
            BY <2>1, <1>0, <1>1, <1>2 DEF CitesIntent
        <2>2. CASE n # L + 1
            <3>1. n \in 1..L
                BY <2>2, <1>0
            <3>2. CitesIntent(rows, n)
                BY <3>1, <1>1, <1>2 DEF Outcomes
            <3>3. rows[n].cites.seq \in 1..L
                BY <3>1, <3>2, <1>0 DEF CitesIntent
            <3> QED BY <3>1, <3>2, <3>3, <1>1 DEF CitesIntent
        <2> QED BY <2>1, <2>2
    <1> QED BY <1>2 DEF Outcomes

(* A row that no window depends on.                                        *)
LEMMA GrownWindows ==
    ASSUME NEW rows, Chained(rows), NEW gaps, Windows(rows, gaps), NEW new, NEW row,
           Grown(rows, new, row), row.kind # "ws_disconnected"
    PROVE  Windows(new, gaps)
    <1> DEFINE L == Len(rows)
    <1>0. L \in Nat /\ Len(new) = L + 1 /\ new[L + 1] = row
        BY SeqDomain DEF Chained, Grown
    <1>1. \A n \in 1..L : new[n].kind = rows[n].kind
        BY DEF Grown, SameContent
    <1>2. \A n \in 1..Len(new) :
             new[n].kind = "ws_disconnected" => \E g \in 1..Len(gaps) : gaps[g].opened = n
        BY <1>0, <1>1 DEF Windows
    <1>3. ASSUME NEW g \in 1..Len(gaps)
          PROVE  /\ gaps[g].opened \in 1..Len(new)
                 /\ gaps[g].closed # 0 =>
                       /\ gaps[g].closed \in 1..Len(new) /\ gaps[g].closed > gaps[g].opened
                       /\ new[gaps[g].closed].kind = "ws_reconnected"
        <2>1. /\ gaps[g].opened \in 1..L
              /\ gaps[g].closed # 0 =>
                    /\ gaps[g].closed \in 1..L /\ gaps[g].closed > gaps[g].opened
                    /\ rows[gaps[g].closed].kind = "ws_reconnected"
            BY DEF Windows
        <2>2. \A n \in 1..L : n \in 1..Len(new)
            BY <1>0
        <2> QED BY <1>1, <2>1, <2>2
    <1> QED BY <1>2, <1>3 DEF Windows

(* A disconnect with its window, while none is open.                       *)
LEMMA OpenedWindow ==
    ASSUME NEW rows, Chained(rows), NEW gaps, Windows(rows, gaps), NEW new, NEW row,
           Grown(rows, new, row),
           \A g \in 1..Len(gaps) : gaps[g].closed # 0
    PROVE  Windows(new, Append(gaps, [opened |-> Len(rows) + 1, closed |-> 0, done |-> FALSE]))
    <1> DEFINE L == Len(rows)
               gap == [opened |-> L + 1, closed |-> 0, done |-> FALSE]
               more == Append(gaps, gap)
    <1>0. L \in Nat /\ Len(new) = L + 1 /\ new[L + 1] = row
        BY SeqDomain DEF Chained, Grown
    <1>1. \A n \in 1..L : new[n].kind = rows[n].kind
        BY DEF Grown, SameContent
    <1>2. gaps \in Seq(Gap) /\ Len(gaps) \in Nat /\ gap \in Gap
        BY <1>0 DEF Windows, Gap
    <1>3. /\ more \in Seq(Gap) /\ Len(more) = Len(gaps) + 1 /\ more[Len(gaps) + 1] = gap
          /\ \A g \in 1..Len(gaps) : more[g] = gaps[g]
        BY <1>2
    <1> HIDE DEF more
    <1>4. ASSUME NEW g \in 1..Len(more)
          PROVE  /\ more[g].opened \in 1..Len(new)
                 /\ more[g].closed # 0 =>
                       /\ more[g].closed \in 1..Len(new) /\ more[g].closed > more[g].opened
                       /\ new[more[g].closed].kind = "ws_reconnected"
        <2>1. CASE g = Len(gaps) + 1
            BY <2>1, <1>0, <1>3
        <2>2. CASE g # Len(gaps) + 1
            <3>1. g \in 1..Len(gaps)
                BY <2>2, <1>2, <1>3
            <3>2. /\ gaps[g].opened \in 1..L
                  /\ gaps[g].closed # 0 =>
                        /\ gaps[g].closed \in 1..L /\ gaps[g].closed > gaps[g].opened
                        /\ rows[gaps[g].closed].kind = "ws_reconnected"
                BY <3>1 DEF Windows
            <3>3. \A n \in 1..L : n \in 1..Len(new)
                BY <1>0
            <3> QED BY <3>1, <3>2, <3>3, <1>1, <1>3
        <2> QED BY <2>1, <2>2
    <1>5. ASSUME NEW g \in 1..Len(more), NEW h \in 1..Len(more), g < h
          PROVE  more[g].closed # 0 /\ more[g].closed < more[h].opened
        <2>1. g \in 1..Len(gaps)
            BY <1>2, <1>3, <1>5
        <2>2. gaps[g].closed # 0 /\ gaps[g].closed \in 1..L
            BY <2>1 DEF Windows
        <2>3. CASE h = Len(gaps) + 1
            BY <2>1, <2>2, <2>3, <1>0, <1>3
        <2>4. CASE h # Len(gaps) + 1
            <3>1. h \in 1..Len(gaps)
                BY <2>4, <1>2, <1>3
            <3> QED BY <2>1, <3>1, <1>3, <1>5 DEF Windows
        <2> QED BY <2>3, <2>4
    <1>6. ASSUME NEW n \in 1..Len(new), new[n].kind = "ws_disconnected"
          PROVE  \E g \in 1..Len(more) : more[g].opened = n
        <2>1. CASE n = L + 1
            <3>1. Len(gaps) + 1 \in 1..Len(more) /\ more[Len(gaps) + 1].opened = n
                BY <2>1, <1>2, <1>3
            <3> QED BY <3>1
        <2>2. CASE n # L + 1
            <3>1. n \in 1..L
                BY <2>2, <1>0
            <3>2. PICK g \in 1..Len(gaps) : gaps[g].opened = n
                BY <3>1, <1>1, <1>6 DEF Windows
            <3>3. g \in 1..Len(more) /\ more[g].opened = n
                BY <3>2, <1>2, <1>3
            <3> QED BY <3>3
        <2> QED BY <2>1, <2>2
    <1>7. Windows(new, more)
        BY <1>3, <1>4, <1>5, <1>6 DEF Windows
    <1> QED BY <1>7 DEF more

(* The last window is closed by a reconnect row.                           *)
LEMMA ClosedWindow ==
    ASSUME NEW rows, Chained(rows), NEW gaps, Windows(rows, gaps), NEW new, NEW row,
           Grown(rows, new, row), row.kind = "ws_reconnected",
           NEW w \in 1..Len(gaps), gaps[w].closed = 0
    PROVE  Windows(new, [gaps EXCEPT ![w].closed = Len(rows) + 1])
    <1> DEFINE L == Len(rows)
               less == [gaps EXCEPT ![w].closed = L + 1]
    <1>0. L \in Nat /\ Len(new) = L + 1 /\ new[L + 1] = row
        BY SeqDomain DEF Chained, Grown
    <1>1. \A n \in 1..L : new[n].kind = rows[n].kind
        BY DEF Grown, SameContent
    <1>2. gaps \in Seq(Gap) /\ Len(gaps) \in Nat
        BY DEF Windows
    <1>3. /\ less \in Seq(Gap) /\ Len(less) = Len(gaps)
          /\ \A g \in 1..Len(gaps) : less[g].opened = gaps[g].opened
          /\ \A g \in 1..Len(gaps) : g # w => less[g] = gaps[g]
          /\ less[w].closed = L + 1
        <2> DEFINE v == [gaps[w] EXCEPT !.closed = L + 1]
        <2>1. gaps[w] \in Gap
            BY <1>2
        <2>2. v \in Gap /\ v.opened = gaps[w].opened /\ v.closed = L + 1
            BY <1>0, <2>1 DEF Gap
        <2>3. less = [gaps EXCEPT ![w] = v]
            OBVIOUS
        <2> HIDE DEF v, less
        <2> QED BY <1>2, <2>2, <2>3
    <1> HIDE DEF less
    <1>4. ASSUME NEW g \in 1..Len(gaps)
          PROVE  /\ less[g].opened \in 1..Len(new)
                 /\ less[g].closed # 0 =>
                       /\ less[g].closed \in 1..Len(new) /\ less[g].closed > less[g].opened
                       /\ new[less[g].closed].kind = "ws_reconnected"
        <2>1. CASE g = w
            BY <2>1, <1>0, <1>3 DEF Windows
        <2>2. CASE g # w
            BY <2>2, <1>0, <1>1, <1>3, SMTT(30) DEF Windows
        <2> QED BY <2>1, <2>2
    <1>5. ASSUME NEW g \in 1..Len(gaps), NEW h \in 1..Len(gaps), g < h
          PROVE  less[g].closed # 0 /\ less[g].closed < less[h].opened
        BY <1>3, <1>5 DEF Windows
    <1>6. ASSUME NEW n \in 1..Len(new), new[n].kind = "ws_disconnected"
          PROVE  \E g \in 1..Len(less) : less[g].opened = n
        <2>1. n \in 1..L
            BY <1>0, <1>6
        <2>2. PICK g \in 1..Len(gaps) : gaps[g].opened = n
            BY <2>1, <1>1, <1>6 DEF Windows
        <2> QED BY <2>2, <1>3
    <1>7. Windows(new, less)
        BY <1>3, <1>4, <1>5, <1>6 DEF Windows
    <1> QED BY <1>7 DEF less

-----------------------------------------------------------------------------
(* The first rows of a chain, with the content they had. *)

Cut(rows, new) ==
    /\ IsSeq(new) /\ Len(new) <= Len(rows)
    /\ \A n \in 1..Len(new) :
          IsRow(new[n]) /\ SameContent(rows[n], new[n]) /\ new[n].live \in BOOLEAN

(* The first rows of a chain are a chain.                                  *)
LEMMA CutChained ==
    ASSUME NEW rows, Chained(rows), NEW new, Cut(rows, new)
    PROVE  Chained(new)
    <1>0. Len(rows) \in Nat /\ Len(new) \in Nat
        BY SeqDomain DEF Chained, Cut
    <1>1. ASSUME NEW n \in 1..Len(new)
          PROVE  /\ IsRow(new[n]) /\ new[n].live \in BOOLEAN
                 /\ new[n].agent \in Agents \cup {Account}
                 /\ IsSeq(new[n].prev) /\ LinkHolds(new, n)
        <2>1. n \in 1..Len(rows)
            BY <1>0 DEF Cut
        <2>2. IsRow(new[n]) /\ SameContent(rows[n], new[n]) /\ new[n].live \in BOOLEAN
            BY DEF Cut
        <2>3. PrevHash(new, n) = PrevHash(rows, n)
            <3>1. CASE n = 1
                BY <3>1 DEF PrevHash
            <3>2. CASE n # 1
                <4>1. n - 1 \in 1..Len(new)
                    BY <3>2, <1>0
                <4>2. new[n - 1].hash = rows[n - 1].hash
                    BY <4>1 DEF Cut, SameContent
                <4> QED BY <3>2, <4>2 DEF PrevHash
            <3> QED BY <3>1, <3>2
        <2>4. Content(new[n]) = Content(rows[n])
            BY <2>2 DEF SameContent, Content
        <2> QED BY <2>1, <2>2, <2>3, <2>4 DEF Chained, LinkHolds, SameContent
    <1> QED BY <1>1 DEF Chained, Cut

(* Outcomes cite earlier rows, which are kept with them.                   *)
LEMMA CutOutcomes ==
    ASSUME NEW rows, Chained(rows), Outcomes(rows), NEW new, Cut(rows, new)
    PROVE  Outcomes(new)
    <1>0. Len(rows) \in Nat /\ Len(new) \in Nat /\ Len(new) <= Len(rows)
        BY SeqDomain DEF Chained, Cut
    <1>1. ASSUME NEW n \in 1..Len(new)
          PROVE  /\ new[n].kind = rows[n].kind /\ new[n].cites = rows[n].cites
                 /\ new[n].agent = rows[n].agent /\ new[n].hash = rows[n].hash
        BY DEF Cut, SameContent
    <1>2. ASSUME NEW n \in 1..Len(new), new[n].kind = "outcome"
          PROVE  CitesIntent(new, n)
        <2>1. n \in 1..Len(rows)
            BY <1>0
        <2>2. CitesIntent(rows, n)
            BY <2>1, <1>1, <1>2 DEF Outcomes
        <2>3. rows[n].cites.seq \in 1..Len(new)
            BY <2>2, <1>0 DEF CitesIntent
        <2> QED BY <2>2, <2>3, <1>1 DEF CitesIntent
    <1> QED BY <1>2 DEF Outcomes

(* The copy of the first n rows, in which a row is redacted exactly when   *)
(* the copy holds the row that says so.                                    *)
Copied(rows, n) ==
    [k \in 1..n |-> [SubSeq(rows, 1, n)[k] EXCEPT !.live = ~Explained(SubSeq(rows, 1, n), k)]]

(* The copy holds the first rows with the content they had.                *)
LEMMA CopyIsCut ==
    ASSUME NEW rows, Chained(rows), NEW n \in 0..Len(rows)
    PROVE  /\ Cut(rows, Copied(rows, n)) /\ Len(Copied(rows, n)) = n
           /\ \A k \in 1..n : Copied(rows, n)[k].live = ~Explained(SubSeq(rows, 1, n), k)
           /\ IsSeq(SubSeq(rows, 1, n)) /\ Len(SubSeq(rows, 1, n)) = n
           /\ \A k \in 1..n : SubSeq(rows, 1, n)[k] = rows[k]
    <1> DEFINE old == SubSeq(rows, 1, n)
               new == Copied(rows, n)
    <1>0. Len(rows) \in Nat /\ n \in Nat /\ n <= Len(rows)
        BY SeqDomain DEF Chained
    <1>1. IsSeq(old) /\ Len(old) = n /\ \A k \in 1..n : old[k] = rows[k]
        <2>1. PICK S : rows \in Seq(S)
            BY DEF Chained, IsSeq
        <2>2. old \in Seq(S)
            BY <2>1, <1>0
        <2>3. Len(old) = n
            BY <2>1, <1>0
        <2>4. ASSUME NEW k \in 1..n PROVE old[k] = rows[k]
            BY <2>1, <1>0
        <2> HIDE DEF old
        <2>5. IsSeq(old)
            BY <2>2 DEF IsSeq
        <2> QED BY <2>3, <2>4, <2>5
    <1>2. new = [k \in 1..n |-> [old[k] EXCEPT !.live = ~Explained(old, k)]]
        BY DEF Copied
    <1>3. IsSeq(new) /\ Len(new) = n
        BY <1>0, <1>2, FunIsSeq
    <1>4. ASSUME NEW k \in 1..n
          PROVE  /\ IsRow(new[k]) /\ SameContent(rows[k], new[k])
                 /\ new[k].live = ~Explained(old, k) /\ new[k].live \in BOOLEAN
        <2> DEFINE e == Explained(old, k)
        <2>1. k \in 1..Len(rows)
            BY <1>0
        <2>2. IsRow(rows[k])
            BY <2>1 DEF Chained
        <2>3. new[k] = [rows[k] EXCEPT !.live = ~e]
            BY <1>1, <1>2
        <2>4. e \in BOOLEAN
            BY DEF Explained
        <2> HIDE DEF e, new
        <2>5. new[k] = [seq |-> rows[k].seq, kind |-> rows[k].kind, agent |-> rows[k].agent,
                        cites |-> rows[k].cites, ts |-> rows[k].ts, prev |-> rows[k].prev,
                        hash |-> rows[k].hash, live |-> ~e]
            BY <2>2, <2>3 DEF IsRow
        <2>6. IsRow(new[k]) /\ SameContent(rows[k], new[k]) /\ new[k].live = ~e
            BY <2>5 DEF IsRow, SameContent
        <2> QED BY <2>4, <2>6 DEF e
    <1> HIDE DEF new, old
    <1>5. Cut(rows, new)
        BY <1>0, <1>3, <1>4 DEF Cut
    <1> QED BY <1>1, <1>3, <1>4, <1>5 DEF old, new

(* In the copy, too, every redaction is explained and no explanation is    *)
(* redacted.                                                               *)
LEMMA CopyRedacted ==
    ASSUME NEW rows, Chained(rows), Redacted(rows), NEW n \in 0..Len(rows)
    PROVE  Redacted(Copied(rows, n))
    <1> DEFINE old == SubSeq(rows, 1, n)
               new == Copied(rows, n)
    <1>0. Len(rows) \in Nat /\ n \in Nat /\ n <= Len(rows)
        BY SeqDomain DEF Chained
    <1>1. /\ Len(old) = n /\ Len(new) = n
          /\ \A k \in 1..n : old[k] = rows[k] /\ new[k].live = ~Explained(old, k)
        BY CopyIsCut
    <1>2. \A k \in 1..n : new[k].kind = rows[k].kind /\ new[k].cites = rows[k].cites
        BY CopyIsCut DEF Cut, SameContent
    <1> HIDE DEF old, new
    <1>3. ASSUME NEW k \in 1..n, rows[k].kind = "payload_redacted"
          PROVE  /\ new[k].live
                 /\ rows[k].cites.seq \in 1..(k - 1)
                 /\ rows[rows[k].cites.seq].kind # "payload_redacted"
        <2>1. k \in 1..Len(rows)
            BY <1>0
        <2>2. ~Explained(old, k)
            <3>1. SUFFICES ASSUME NEW j \in (k + 1)..n, old[j].kind = "payload_redacted",
                                  old[j].cites.seq = k
                           PROVE  FALSE
                BY <1>1 DEF Explained
            <3>2. j \in 1..n /\ j \in 1..Len(rows)
                BY <1>0
            <3> QED BY <3>1, <3>2, <1>1, <1>3 DEF Redacted
        <2> QED BY <2>1, <2>2, <1>1, <1>3 DEF Redacted
    <1>4. ASSUME NEW k \in 1..n, ~new[k].live
          PROVE  Explained(new, k)
        <2>1. PICK j \in (k + 1)..n : old[j].kind = "payload_redacted" /\ old[j].cites.seq = k
            BY <1>1, <1>4 DEF Explained
        <2>2. j \in 1..n
            BY <1>0
        <2>3. rows[j].kind = "payload_redacted" /\ rows[j].cites.seq = k
            BY <2>1, <2>2, <1>1
        <2>4. new[j].kind = "payload_redacted" /\ new[j].cites.seq = k /\ new[j].live
            BY <2>2, <2>3, <1>2, <1>3
        <2> QED BY <2>4, <1>1 DEF Explained
    <1>5. ASSUME NEW k \in 1..n, new[k].kind = "payload_redacted"
          PROVE  /\ new[k].live /\ new[k].cites.seq \in 1..(k - 1)
                 /\ new[new[k].cites.seq].kind # "payload_redacted"
        <2>1. /\ new[k].live /\ rows[k].cites.seq \in 1..(k - 1)
              /\ rows[rows[k].cites.seq].kind # "payload_redacted"
            BY <1>2, <1>3, <1>5
        <2>2. rows[k].cites.seq \in 1..n
            BY <2>1, <1>0
        <2> QED BY <2>1, <2>2, <1>2
    <1> QED BY <1>1, <1>4, <1>5 DEF Redacted, new

(* A downward closed set of positions is an initial segment.               *)
LEMMA InitialSegment ==
    ASSUME NEW L \in Nat, NEW S \in SUBSET (1..L),
           \A h \in S : \A g \in 1..L : g < h => g \in S
    PROVE  \E m \in 0..L : S = 1..m
    <1> DEFINE T == {k \in 0..L : (k + 1) \notin S}
    <1>1. L \in T /\ T \in SUBSET Nat
        OBVIOUS
    <1>2. PICK m \in T : \A k \in T : m <= k
        BY <1>1, Smallest
    <1>3. m \in 0..L /\ (m + 1) \notin S
        OBVIOUS
    <1>4. ASSUME NEW k \in S PROVE k \in 1..m
        <2>1. k \in 1..L
            OBVIOUS
        <2>2. SUFFICES ASSUME k > m PROVE FALSE
            BY <2>1, <1>3
        <2>3. m + 1 \in 1..L /\ (m + 1 < k \/ m + 1 = k)
            BY <2>1, <2>2, <1>3
        <2> QED BY <2>3, <1>3
    <1>5. ASSUME NEW k \in 1..m PROVE k \in S
        <2>1. SUFFICES ASSUME k \notin S PROVE FALSE
            OBVIOUS
        <2>2. k - 1 \in 0..L /\ (k - 1) + 1 = k
            BY <1>3
        <2>3. k - 1 \in T
            BY <2>1, <2>2
        <2>4. m <= k - 1
            BY <2>3, <1>2
        <2> QED BY <2>4, <1>3
    <1> HIDE DEF T
    <1> QED BY <1>3, <1>4, <1>5

(* The windows of the copy: those that had opened, closed if they had.     *)
CopiedGap(gap, n) == IF gap.closed <= n THEN gap ELSE [gap EXCEPT !.closed = 0, !.done = FALSE]

CopiedGaps(gaps, n) ==
    [g \in {g \in DOMAIN gaps : gaps[g].opened <= n} |-> CopiedGap(gaps[g], n)]

(* The windows of the copy and its rows tell one story.                    *)
LEMMA CutWindows ==
    ASSUME NEW rows, Chained(rows), NEW gaps, Windows(rows, gaps), NEW new, Cut(rows, new)
    PROVE  Windows(new, CopiedGaps(gaps, Len(new)))
    <1> DEFINE n == Len(new)
               L == Len(gaps)
               S == {g \in DOMAIN gaps : gaps[g].opened <= n}
               less == CopiedGaps(gaps, n)
    <1>0. n \in Nat /\ Len(rows) \in Nat /\ n <= Len(rows)
        BY SeqDomain DEF Chained, Cut
    <1>1. gaps \in Seq(Gap) /\ L \in Nat /\ DOMAIN gaps = 1..L
        BY DEF Windows
    <1>2. \A g \in 1..L : gaps[g] \in Gap /\ gaps[g].opened \in Nat /\ gaps[g].closed \in Nat
        <2>1. \A g \in 1..L : gaps[g] \in Gap
            BY <1>1
        <2> QED BY <2>1 DEF Gap
    <1>3. ASSUME NEW g \in 1..L, NEW h \in 1..L, g < h
          PROVE  /\ gaps[g].closed # 0 /\ gaps[g].closed < gaps[h].opened
                 /\ gaps[g].opened < gaps[h].opened
        <2>1. gaps[g].closed # 0 /\ gaps[g].closed < gaps[h].opened
            BY <1>3 DEF Windows
        <2>2. gaps[g].closed > gaps[g].opened
            BY <2>1 DEF Windows
        <2> QED BY <2>1, <2>2, <1>2
    <1>4. PICK m \in 0..L : S = 1..m
        <2>1. S \in SUBSET (1..L)
            BY <1>1
        <2>2. \A h \in S : \A g \in 1..L : g < h => g \in S
            BY <1>0, <1>1, <1>2, <1>3
        <2> HIDE DEF S
        <2> QED BY <1>1, <2>1, <2>2, InitialSegment
    <1>5. less = [g \in 1..m |-> CopiedGap(gaps[g], n)]
        BY <1>4 DEF CopiedGaps
    <1>6. \A g \in 1..m : g \in 1..L /\ gaps[g].opened <= n
        <2>1. \A g \in S : g \in DOMAIN gaps /\ gaps[g].opened <= n
            OBVIOUS
        <2> HIDE DEF S
        <2> QED BY <1>1, <1>4, <2>1
    <1>7. \A g \in 1..L : gaps[g].opened <= n => g \in 1..m
        <2>1. \A g \in DOMAIN gaps : gaps[g].opened <= n => g \in S
            OBVIOUS
        <2> HIDE DEF S
        <2> QED BY <1>1, <1>4, <2>1
    <1> HIDE DEF S
    <1>8. ASSUME NEW g \in 1..m
          PROVE  /\ less[g] \in Gap /\ less[g].opened = gaps[g].opened
                 /\ gaps[g].closed <= n => less[g] = gaps[g]
                 /\ gaps[g].closed > n => less[g].closed = 0
        <2>1. less[g] = CopiedGap(gaps[g], n)
            BY <1>5
        <2>2. gaps[g] \in Gap /\ gaps[g].closed \in Nat
            BY <1>2, <1>6
        <2>3. CASE gaps[g].closed <= n
            BY <2>1, <2>2, <2>3, <1>0 DEF CopiedGap
        <2>4. CASE ~(gaps[g].closed <= n)
            <3>1. less[g] = [gaps[g] EXCEPT !.closed = 0, !.done = FALSE]
                BY <2>1, <2>4 DEF CopiedGap
            <3> HIDE DEF less
            <3>2. gaps[g] = [opened |-> gaps[g].opened, closed |-> gaps[g].closed, done |-> gaps[g].done]
                  /\ gaps[g].opened \in Nat
                BY <2>2 DEF Gap
            <3>3. less[g] = [opened |-> gaps[g].opened, closed |-> 0, done |-> FALSE]
                BY <3>1, <3>2
            <3>4. less[g] \in Gap /\ less[g].opened = gaps[g].opened /\ less[g].closed = 0
                BY <3>2, <3>3 DEF Gap
            <3> QED BY <2>2, <2>4, <3>4, <1>0
        <2> QED BY <2>3, <2>4
    <1>9. m \in Nat /\ less \in Seq(Gap) /\ Len(less) = m
        <2>1. less \in [1..m -> Gap]
            BY <1>5, <1>8
        <2>2. m \in Nat
            BY <1>1, <1>4
        <2> HIDE DEF less
        <2>3. less \in Seq(Gap)
            BY <2>1, <2>2
        <2> QED BY <2>1, <2>2, <2>3
    <1> HIDE DEF less
    <1>10. ASSUME NEW g \in 1..m
           PROVE  /\ less[g].opened \in 1..n
                  /\ less[g].closed # 0 =>
                        /\ less[g].closed \in 1..n /\ less[g].closed > less[g].opened
                        /\ new[less[g].closed].kind = "ws_reconnected"
        <2>1. g \in 1..L /\ gaps[g].opened <= n /\ gaps[g].opened \in Nat /\ gaps[g].closed \in Nat
            BY <1>2, <1>6
        <2>2. /\ gaps[g].opened \in 1..Len(rows)
              /\ gaps[g].closed # 0 =>
                    /\ gaps[g].closed \in 1..Len(rows) /\ gaps[g].closed > gaps[g].opened
                    /\ rows[gaps[g].closed].kind = "ws_reconnected"
            BY <2>1 DEF Windows
        <2>3. less[g].opened \in 1..n
            BY <2>1, <2>2, <1>0, <1>8
        <2>4. ASSUME less[g].closed # 0
              PROVE  /\ less[g].closed \in 1..n /\ less[g].closed > less[g].opened
                     /\ new[less[g].closed].kind = "ws_reconnected"
            <3>1. gaps[g].closed <= n /\ less[g] = gaps[g]
                BY <2>1, <2>4, <1>0, <1>8
            <3>2. gaps[g].closed \in 1..n
                BY <3>1, <2>2, <2>4, <1>0
            <3>3. new[gaps[g].closed].kind = rows[gaps[g].closed].kind
                BY <3>2 DEF Cut, SameContent
            <3> QED BY <3>1, <3>2, <3>3, <2>2, <2>4
        <2> QED BY <2>3, <2>4
    <1>11. ASSUME NEW g \in 1..m, NEW h \in 1..m, g < h
           PROVE  less[g].closed # 0 /\ less[g].closed < less[h].opened
        <2>1. g \in 1..L /\ h \in 1..L /\ gaps[h].opened <= n
            BY <1>6
        <2>2. gaps[g].closed # 0 /\ gaps[g].closed < gaps[h].opened
            BY <2>1, <1>3, <1>11
        <2>3. gaps[g].closed <= n
            BY <2>1, <2>2, <1>0, <1>2
        <2> QED BY <2>2, <2>3, <1>8
    <1>12. ASSUME NEW k \in 1..n, new[k].kind = "ws_disconnected"
           PROVE  \E g \in 1..m : less[g].opened = k
        <2>1. k \in 1..Len(rows) /\ rows[k].kind = "ws_disconnected"
            BY <1>0, <1>12 DEF Cut, SameContent
        <2>2. PICK g \in 1..L : gaps[g].opened = k
            BY <2>1 DEF Windows
        <2>3. g \in 1..m
            BY <2>2, <1>0, <1>7
        <2> QED BY <2>2, <2>3, <1>8
    <1> QED BY <1>9, <1>10, <1>11, <1>12 DEF Windows, less

-----------------------------------------------------------------------------
(* Pages *)

(* The first rows after a cursor, as many as asked for.                    *)
Page(after, limit) == {n \in after : Cardinality({m \in after : m <= n}) <= limit}

(* A page has no holes, and one that is not full is everything there is.   *)
LEMMA PageSkipsNothing ==
    ASSUME NEW L \in Nat, NEW after \in SUBSET (1..L), NEW limit \in Nat
    PROVE  /\ Page(after, limit) \subseteq after
           /\ \A n \in Page(after, limit) : \A k \in after : k <= n => k \in Page(after, limit)
           /\ Page(after, limit) # {} =>
                 \E n \in Page(after, limit) : \A k \in Page(after, limit) : k <= n
           /\ Cardinality(Page(after, limit)) # limit => Page(after, limit) = after
    <1> DEFINE upto(n) == {m \in after : m <= n}
               page == Page(after, limit)
    <1>0. IsFiniteSet(after)
        <2>1. IsFiniteSet(1..L)
            BY FS_Interval
        <2> QED BY <2>1, FS_Subset
    <1>1. /\ \A n, m : m \in upto(n) <=> m \in after /\ m <= n
          /\ \A n : n \in page <=> n \in after /\ Cardinality(upto(n)) <= limit
          /\ \A m \in after : m \in Nat /\ m <= L
        BY DEF Page
    <1> HIDE DEF page, upto
    <1>2. \A n : IsFiniteSet(upto(n)) /\ Cardinality(upto(n)) \in Nat
        <2>1. ASSUME NEW n PROVE IsFiniteSet(upto(n))
            <3>1. upto(n) \in SUBSET after
                BY <1>1
            <3> QED BY <3>1, <1>0, FS_Subset
        <2> QED BY <2>1, FS_CardinalityType
    <1>3. page \in SUBSET after /\ IsFiniteSet(page) /\ Cardinality(page) \in Nat
        <2>1. page \in SUBSET after
            BY <1>1
        <2> QED BY <2>1, <1>0, FS_Subset, FS_CardinalityType
    <1>4. ASSUME NEW n \in page, NEW k \in after, k <= n
          PROVE  k \in page
        <2>0. n \in after
            BY <1>1
        <2>1. ASSUME NEW y \in upto(k) PROVE y \in upto(n)
            <3>1. y \in after /\ y <= k
                BY <1>1
            <3>2. y \in Nat /\ k \in Nat /\ n \in Nat
                BY <3>1, <2>0, <1>1
            <3>3. y <= n
                BY <3>1, <3>2, <1>4
            <3> QED BY <3>1, <3>3, <1>1
        <2>2. upto(k) \in SUBSET upto(n)
            BY <2>1
        <2>3. Cardinality(upto(k)) <= Cardinality(upto(n))
            BY <2>2, <1>2, FS_Subset
        <2> QED BY <2>3, <1>1, <1>2
    <1>5. ASSUME page # {}
          PROVE  \E n \in page : \A k \in page : k <= n
        <2>1. page \in SUBSET Nat /\ \A y \in page : y <= L
            BY <1>1
        <2> QED BY <2>1, <1>5, Greatest
    <1>6. Cardinality(page) <= limit
        <2>1. CASE page = {}
            <3>1. Cardinality(page) = 0
                BY <2>1, FS_EmptySet
            <3> QED BY <3>1
        <2>2. CASE page # {}
            <3>1. PICK n \in page : \A k \in page : k <= n
                BY <2>2, <1>5
            <3>2. page \in SUBSET upto(n)
                BY <3>1, <1>1
            <3>3. Cardinality(page) <= Cardinality(upto(n))
                BY <3>2, <1>2, FS_Subset
            <3> QED BY <3>3, <1>1, <1>2, <1>3
        <2> QED BY <2>1, <2>2
    <1>7. ASSUME page # after
          PROVE  Cardinality(page) >= limit
        <2> DEFINE T == after \ page
        <2>1. T \in SUBSET Nat /\ T # {}
            BY <1>1, <1>7
        <2>2. PICK x \in T : \A y \in T : x <= y
            BY <2>1, Smallest
        <2>3. x \in after /\ x \in Nat /\ x \notin page
            BY <2>1
        <2>4. upto(x) \ {x} \in SUBSET page
            <3>1. ASSUME NEW y \in upto(x), y # x PROVE y \in page
                <4>1. y \in after /\ y <= x
                    BY <1>1
                <4>2. y \in Nat
                    BY <4>1, <1>1
                <4>3. ~(x <= y)
                    BY <4>1, <4>2, <3>1, <2>3
                <4> QED BY <4>1, <4>3, <2>2
            <3> QED BY <3>1
        <2>5. x \in upto(x) /\ IsFiniteSet(upto(x))
            BY <2>3, <1>1, <1>2
        <2>6. Cardinality(upto(x) \ {x}) = Cardinality(upto(x)) - 1
            BY <2>5, FS_RemoveElement
        <2>7. Cardinality(upto(x) \ {x}) <= Cardinality(page)
            BY <2>4, <1>3, FS_Subset
        <2>8. ~(Cardinality(upto(x)) <= limit) /\ Cardinality(upto(x)) \in Nat
            BY <2>3, <1>1, <1>2
        <2> QED BY <2>6, <2>7, <2>8, <1>3
    <1>8. Cardinality(page) # limit => page = after
        BY <1>3, <1>6, <1>7
    <1>9. /\ page \subseteq after
          /\ \A n \in page : \A k \in after : k <= n => k \in page
          /\ page # {} => \E n \in page : \A k \in page : k <= n
          /\ Cardinality(page) # limit => page = after
        BY <1>3, <1>4, <1>5, <1>8
    <1> QED BY <1>9 DEF page

-----------------------------------------------------------------------------
(* The inductive invariant *)

(* The tables are what this program wrote, one transaction after another.  *)
Tables ==
    /\ db = [rows |-> db.rows, head |-> db.head, gaps |-> db.gaps]
    /\ Chained(db.rows) /\ db.head = LastLink(db.rows)
    /\ Redacted(db.rows) /\ Outcomes(db.rows) /\ Windows(db.rows, db.gaps)

(* The holder of the lock is an open process with the head it committed,   *)
(* or verified, in its hand; an approval has room for its row.             *)
Held ==
    /\ open \subseteq Procs
    /\ guard = [by |-> guard.by, phase |-> guard.phase, note |-> guard.note, ack |-> guard.ack]
    /\ guard.by = NoOne => guard.phase = "free"
    /\ guard.by # NoOne =>
          /\ guard.by \in open
          /\ guard.phase \in {"note", "append"} /\ guard.ack \in {"row", "intent", "read", "approval"}
    /\ guard.phase = "append" => guard.ack = "approval"
    /\ guard.by # NoOne /\ guard.ack = "approval" => Len(db.rows) < MaxRows
    /\ guard.phase = "note" =>
          /\ guard.note = db.head
          /\ guard.ack \in {"row", "intent"} => Len(db.rows) # 0
          /\ guard.ack = "intent" => db.rows[Len(db.rows)].kind = "order_intent"
          /\ guard.ack \in {"read", "approval"} => db.head.seq >= acked.seq

Counted ==
    /\ failed \in Nat /\ faults \in Nat /\ restores \in Nat
    /\ failed <= faults /\ restores <= faults /\ faults <= MaxFaults
    /\ Len(db.rows) <= MaxRows

HashAt(rows, n) == IF n = 0 THEN Genesis ELSE rows[n].hash

(* The rows committed and not yet noted by the process that will note them. *)
Pending == IF guard.phase = "note" /\ guard.ack \in {"row", "intent"} THEN 1 ELSE 0

(* The sidecar never falls behind an acknowledged row, and names a row of  *)
(* the chain that is at most the unnoted ones behind its end, as long as   *)
(* no older copy came back.                                                *)
Witnessed ==
    /\ anchor = {} => open = {} /\ Len(db.rows) = 0 /\ acked = None
    /\ \A a, b \in anchor : a = b
    /\ acked.seq \in Nat
    /\ \A a \in anchor : a.seq \in Nat /\ a.seq >= acked.seq
    /\ restores = 0 =>
          /\ \A a \in anchor :
                /\ a.seq <= Len(db.rows) /\ a.hash = HashAt(db.rows, a.seq)
                /\ Len(db.rows) - a.seq <= failed + Pending
          /\ acked # None =>
                acked.seq \in 1..Len(db.rows) /\ db.rows[acked.seq].hash = acked.hash

(* A receipt carries the hash of an intent of its agent.                   *)
IntentHash(h, agent) ==
    \E s, body : IsSeq(s) /\ h = Append(s, body) /\ body.kind = "order_intent" /\ body.agent = agent

Receipted == \A r \in receipts : IntentHash(r.hash, r.agent)

Read ==
    restores = 0 =>
        /\ reader.cursor \in 0..Len(db.rows)
        /\ \A n \in 1..Len(db.rows) :
              (n <= reader.cursor /\ Visible(db.rows[n], Me)) => n \in reader.seen

(* Since the last restored copy nobody appended.                           *)
Untouched == \A n \in 1..Len(db.rows) : db.rows[n].ts < restores

(* The sidecar is ahead of a copy that lacks an acknowledged row until     *)
(* somebody appends to it, and nobody who verified it takes the lock.      *)
Reported ==
    lost /\ Untouched =>
        /\ anchor # {} /\ \A a \in anchor : a.seq > Len(db.rows)
        /\ guard.by = NoOne

LedgerInv ==
    /\ Tables /\ Held /\ Counted /\ Witnessed /\ Receipted /\ Read /\ Reported

(* A new database without a sidecar satisfies the invariant.               *)
LEMMA InitInv == Init => LedgerInv
    <1> SUFFICES ASSUME Init PROVE LedgerInv
        OBVIOUS
    <1> USE LedgerAssumption DEF LedgerAssumption
    <1>1. db = [rows |-> <<>>, head |-> None, gaps |-> <<>>]
        BY DEF Init
    <1>2. db.rows = <<>> /\ db.head = None /\ db.gaps = <<>> /\ IsSeq(db.rows) /\ Len(db.rows) = 0
        BY <1>1, EmptyIsSeq
    <1>3. Tables
        <2>1. Chained(db.rows) /\ Redacted(db.rows) /\ Outcomes(db.rows)
            BY <1>2 DEF Chained, Redacted, Outcomes
        <2>2. db.gaps \in Seq(Gap) /\ Len(db.gaps) = 0
            BY <1>2, EmptyIsSeq
        <2>3. Windows(db.rows, db.gaps)
            BY <1>2, <2>2 DEF Windows
        <2> QED BY <1>1, <1>2, <2>1, <2>3 DEF Tables, LastLink
    <1>4. Held
        BY DEF Init, NoHold, Held
    <1>5. Counted
        BY <1>2 DEF Init, Counted
    <1>6. Witnessed
        BY <1>2 DEF Init, Witnessed, None
    <1>7. Receipted /\ Read /\ Reported
        BY <1>2 DEF Init, Receipted, Read, Reported
    <1> QED BY <1>3, <1>4, <1>5, <1>6, <1>7 DEF LedgerInv

-----------------------------------------------------------------------------
(* One more row *)

(* Any committed row that continues the chain keeps the invariant: what is *)
(* left to show of an append is what its own row and table add.            *)
LEMMA CommitStep ==
    ASSUME LedgerInv, NEW p \in open, NEW d, NEW ack \in {"row", "intent"}, NEW row,
           Commit(p, d, ack),
           guard.by = NoOne \/ guard.phase = "append",
           Len(db.rows) < MaxRows,
           d = [rows |-> d.rows, head |-> d.head, gaps |-> d.gaps], d.head = Link(row),
           Grown(db.rows, d.rows, row), NextRow(db.rows, row), row.ts = restores,
           ack = "intent" => row.kind = "order_intent",
           Redacted(d.rows), Outcomes(d.rows), Windows(d.rows, d.gaps)
    PROVE  LedgerInv'
    <1> USE LedgerAssumption DEF LedgerAssumption
    <1> DEFINE L == Len(db.rows)
    <1>0. /\ db' = d /\ guard' = [by |-> p, phase |-> "note", note |-> d.head, ack |-> ack]
          /\ anchor' = anchor /\ open' = open /\ reader' = reader /\ receipts' = receipts
          /\ acked' = acked /\ lost' = lost /\ failed' = failed /\ faults' = faults
          /\ restores' = restores
        BY DEF Commit
    <1>1. /\ L \in Nat /\ Len(d.rows) = L + 1 /\ d.rows[L + 1] = row /\ IsSeq(d.rows)
          /\ \A n \in 1..L : SameContent(db.rows[n], d.rows[n])
        BY SeqDomain DEF LedgerInv, Tables, Chained, Grown
    <1>2. /\ guard'.by = p /\ guard'.phase = "note" /\ guard'.note = d.head /\ guard'.ack = ack
          /\ p \in Procs /\ p # NoOne
        BY <1>0 DEF LedgerInv, Held
    <1>3. Tables'
        <2>1. Chained(d.rows)
            BY GrownChained DEF LedgerInv, Tables
        <2>2. d.rows # <<>>
            BY <1>1, SeqDomain
        <2>3. LastLink(d.rows) = Link(row)
            BY <1>1, <2>2 DEF LastLink
        <2> QED BY <1>0, <2>1, <2>3 DEF Tables
    <1>4. Held'
        <2>1. open' \subseteq Procs /\ guard'.by \in open'
            BY <1>0, <1>2 DEF LedgerInv, Held
        <2>2. db'.rows = d.rows /\ db'.head = d.head
            BY <1>0
        <2>3. ack = "intent" => d.rows[Len(d.rows)].kind = "order_intent"
            BY <1>1
        <2> QED BY <1>0, <1>1, <1>2, <2>1, <2>2, <2>3 DEF Held
    <1>5. Counted'
        <2>1. MaxRows \in Nat /\ db'.rows = d.rows
            BY <1>0
        <2>2. L + 1 <= MaxRows
            BY <1>1, <2>1
        <2> QED BY <1>0, <1>1, <2>1, <2>2 DEF LedgerInv, Counted
    <1>6. Witnessed'
        <2>1. anchor # {}
            BY DEF LedgerInv, Witnessed
        <2>2. Pending = 0 /\ Pending' = 1
            BY <1>2 DEF LedgerInv, Held, Pending
        <2>3. ASSUME restores = 0, NEW a \in anchor
              PROVE  /\ a.seq <= L + 1 /\ a.hash = HashAt(d.rows, a.seq)
                     /\ (L + 1) - a.seq <= failed + 1
            <3>1. /\ a.seq \in Nat /\ a.seq <= L /\ a.hash = HashAt(db.rows, a.seq)
                  /\ L - a.seq <= failed + Pending /\ failed \in Nat
                BY <2>3 DEF LedgerInv, Witnessed, Counted
            <3>2. CASE a.seq = 0
                BY <3>1, <3>2, <1>1, <2>2 DEF HashAt
            <3>3. CASE a.seq # 0
                <4>1. a.seq \in 1..L
                    BY <3>1, <3>3, <1>1
                <4>2. d.rows[a.seq].hash = db.rows[a.seq].hash
                    BY <4>1, <1>1 DEF SameContent
                <4> QED BY <3>1, <3>3, <4>2, <1>1, <2>2 DEF HashAt
            <3> QED BY <3>2, <3>3
        <2>4. ASSUME restores = 0, acked # None
              PROVE  acked.seq \in 1..(L + 1) /\ d.rows[acked.seq].hash = acked.hash
            <3>1. acked.seq \in 1..L /\ db.rows[acked.seq].hash = acked.hash
                BY <2>4 DEF LedgerInv, Witnessed
            <3>2. d.rows[acked.seq].hash = db.rows[acked.seq].hash
                BY <3>1, <1>1 DEF SameContent
            <3> QED BY <3>1, <3>2, <1>1
        <2>5. /\ \A a, b \in anchor : a = b
              /\ acked.seq \in Nat
              /\ \A a \in anchor : a.seq \in Nat /\ a.seq >= acked.seq
            BY DEF LedgerInv, Witnessed
        <2>6. db'.rows = d.rows
            BY <1>0
        <2> HIDE DEF L
        <2> QED BY <1>0, <1>1, <2>1, <2>2, <2>3, <2>4, <2>5, <2>6 DEF Witnessed
    <1>7. Receipted'
        BY <1>0 DEF LedgerInv, Receipted
    <1>8. Read'
        <2>1. ASSUME restores = 0
              PROVE  /\ reader.cursor \in 0..(L + 1)
                     /\ \A n \in 1..(L + 1) :
                           (n <= reader.cursor /\ Visible(d.rows[n], Me)) => n \in reader.seen
            <3>1. reader.cursor \in 0..L
                BY <2>1 DEF LedgerInv, Read
            <3>2. ASSUME NEW n \in 1..(L + 1), n <= reader.cursor, Visible(d.rows[n], Me)
                  PROVE  n \in reader.seen
                <4>1. n \in 1..L
                    BY <3>1, <3>2, <1>1
                <4>2. Visible(db.rows[n], Me)
                    BY <4>1, <3>2, <1>1 DEF Visible, SameContent
                <4> QED BY <4>1, <4>2, <2>1, <3>2 DEF LedgerInv, Read
            <3> QED BY <3>1, <3>2, <1>1
        <2> QED BY <1>0, <1>1, <2>1 DEF Read
    <1>9. Reported'
        <2>1. restores \in Nat
            BY DEF LedgerInv, Counted
        <2>2. L + 1 \in 1..Len(d.rows) /\ ~(d.rows[L + 1].ts < restores)
            BY <2>1, <1>1
        <2> QED BY <1>0, <2>2 DEF Reported, Untouched
    <1> QED BY <1>3, <1>4, <1>5, <1>6, <1>7, <1>8, <1>9 DEF LedgerInv

(* The row an action adds is the next of the chain.                        *)
Fits(row, kind, agent, cites) ==
    /\ NextRow(db.rows, row) /\ row.ts = restores /\ row.seq = Len(db.rows) + 1
    /\ row.kind = kind /\ row.agent = agent /\ row.cites = cites /\ row.live = TRUE

(* What append builds is the next row of the chain.                        *)
LEMMA ChainRowFacts ==
    ASSUME LedgerInv, NEW kind, NEW agent \in Agents \cup {Account}, NEW cites
    PROVE  Fits(ChainRow(kind, agent, cites), kind, agent, cites)
    <1> DEFINE row == ChainRow(kind, agent, cites)
    <1>1. ChainHead.seq = Len(db.rows) /\ ChainHead.hash = LastLink(db.rows).hash
        BY HeadHash DEF LedgerInv, Tables, ChainHead
    <1>2. row = [seq |-> ChainHead.seq + 1, kind |-> kind, agent |-> agent, cites |-> cites,
                 ts |-> restores, prev |-> ChainHead.hash,
                 hash |-> Append(ChainHead.hash, [seq |-> ChainHead.seq + 1, kind |-> kind,
                                                  agent |-> agent, cites |-> cites, ts |-> restores]),
                 live |-> TRUE]
        BY DEF ChainRow
    <1> HIDE DEF row
    <1>3. /\ row.seq = ChainHead.seq + 1 /\ row.kind = kind /\ row.agent = agent /\ row.cites = cites
          /\ row.ts = restores /\ row.prev = ChainHead.hash /\ row.live = TRUE
          /\ row.hash = Append(row.prev, Content(row))
        BY <1>2 DEF Content
    <1>4. IsRow(row)
        BY <1>2 DEF IsRow
    <1>5. NextRow(db.rows, row)
        BY <1>1, <1>3, <1>4 DEF NextRow
    <1> QED BY <1>1, <1>3, <1>5 DEF row, Fits

(* Adding it keeps the other rows.                                         *)
LEMMA WithRowFacts ==
    ASSUME Tables, NEW row
    PROVE  LET d == WithRow(db, row)
           IN  /\ d = [rows |-> Append(db.rows, row), head |-> Link(row), gaps |-> db.gaps]
               /\ d.rows = Append(db.rows, row) /\ d.head = Link(row) /\ d.gaps = db.gaps
               /\ Grown(db.rows, Append(db.rows, row), row)
               /\ \A n \in 1..Len(db.rows) : Append(db.rows, row)[n].live = db.rows[n].live
    <1> DEFINE d == WithRow(db, row)
               new == Append(db.rows, row)
    <1>1. db = [rows |-> db.rows, head |-> db.head, gaps |-> db.gaps]
        BY DEF Tables
    <1>2. d = [db EXCEPT !.rows = new, !.head = Link(row)]
        BY DEF WithRow
    <1> HIDE DEF d, new
    <1>3. d = [rows |-> new, head |-> Link(row), gaps |-> db.gaps]
        BY <1>1, <1>2
    <1>4. d.rows = new /\ d.head = Link(row) /\ d.gaps = db.gaps
        BY <1>3
    <1>5. /\ IsSeq(new) /\ Len(new) = Len(db.rows) + 1 /\ new[Len(db.rows) + 1] = row
          /\ \A n \in 1..Len(db.rows) : new[n] = db.rows[n]
        BY AppendFacts DEF Tables, Chained, new
    <1>6. Grown(db.rows, new, row)
        BY <1>5 DEF Tables, Chained, Grown, SameContent
    <1> QED BY <1>3, <1>4, <1>5, <1>6 DEF d, new

(* A row of a kind the other tables do not follow.                         *)
LEMMA RowStep ==
    ASSUME LedgerInv, NEW p \in open, NEW ack \in {"row", "intent"}, NEW kind,
           NEW agent \in Agents \cup {Account}, NEW cites,
           Commit(p, WithRow(db, ChainRow(kind, agent, cites)), ack),
           guard.by = NoOne \/ guard.phase = "append", Len(db.rows) < MaxRows,
           kind \notin {"payload_redacted", "ws_disconnected"},
           ack = "intent" => kind = "order_intent",
           kind = "outcome" =>
              /\ cites.seq \in 1..Len(db.rows)
              /\ db.rows[cites.seq].kind = "order_intent" /\ db.rows[cites.seq].agent = agent
              /\ db.rows[cites.seq].hash = cites.hash
    PROVE  LedgerInv'
    <1> DEFINE row == ChainRow(kind, agent, cites)
               new == Append(db.rows, row)
               d == WithRow(db, row)
    <1>1. /\ NextRow(db.rows, row) /\ row.ts = restores /\ row.kind = kind /\ row.agent = agent
          /\ row.cites = cites /\ row.live = TRUE
        <2>1. Fits(row, kind, agent, cites)
            BY ChainRowFacts
        <2> QED BY <2>1 DEF Fits
    <1>2. /\ d = [rows |-> new, head |-> Link(row), gaps |-> db.gaps]
          /\ d.rows = new /\ d.head = Link(row) /\ d.gaps = db.gaps
          /\ Grown(db.rows, new, row)
          /\ \A n \in 1..Len(db.rows) : new[n].live = db.rows[n].live
        BY WithRowFacts DEF LedgerInv
    <1>3. Commit(p, d, ack)
        OBVIOUS
    <1> HIDE DEF row, new, d
    <1>4. Chained(db.rows) /\ Redacted(db.rows) /\ Outcomes(db.rows) /\ Windows(db.rows, db.gaps)
        BY DEF LedgerInv, Tables
    <1>5. Redacted(new)
        BY <1>1, <1>2, <1>4, GrownRedacted
    <1>6. Outcomes(new)
        BY <1>1, <1>2, <1>4, GrownOutcomes
    <1>7. Windows(new, db.gaps)
        BY <1>1, <1>2, <1>4, GrownWindows
    <1> QED BY <1>1, <1>2, <1>3, <1>5, <1>6, <1>7, CommitStep

-----------------------------------------------------------------------------
(* The actions that add a row *)

LEMMA LockedFacts ==
    ASSUME LedgerInv, NEW p, Locked(p), Room
    PROVE  p \in open /\ guard.by = NoOne /\ Len(db.rows) < MaxRows
    BY DEF Locked, Room

(* append.                                                                 *)
LEMMA PlainAppendStep ==
    ASSUME LedgerInv, NEW p \in Procs, NEW agent \in Agents, PlainAppend(p, agent)
    PROVE  LedgerInv'
    BY LockedFacts, RowStep DEF PlainAppend

(* record_intent: the receipt comes with the note.                         *)
LEMMA RecordIntentStep ==
    ASSUME LedgerInv, NEW p \in Procs, NEW agent \in Agents, RecordIntent(p, agent)
    PROVE  LedgerInv'
    BY LockedFacts, RowStep DEF RecordIntent

(* The append of a journal that verified the chain before.                 *)
LEMMA JournalAppendStep ==
    ASSUME LedgerInv, NEW p \in Procs, JournalAppend(p)
    PROVE  LedgerInv'
    BY LockedFacts, RowStep DEF JournalAppend

(* The approval journal adds its row to the head it published.             *)
LEMMA ApprovalAppendStep ==
    ASSUME LedgerInv, NEW p \in Procs, ApprovalAppend(p)
    PROVE  LedgerInv'
    <1>1. guard.by = p /\ guard.phase = "append" /\ p # NoOne
        BY LedgerAssumption DEF ApprovalAppend, LedgerAssumption
    <1>2. p \in open /\ guard.ack = "approval" /\ Len(db.rows) < MaxRows
        BY <1>1 DEF LedgerInv, Held
    <1> QED BY <1>1, <1>2, RowStep DEF ApprovalAppend

(* The hash of the receipt is that of an intent of the agent, so the row   *)
(* that has it is one.                                                     *)
LEMMA ReceiptNamesIntent ==
    ASSUME LedgerInv, NEW r \in receipts, ReceiptHolds(r)
    PROVE  /\ r.seq \in 1..Len(db.rows) /\ db.rows[r.seq].hash = r.hash
           /\ db.rows[r.seq].kind = "order_intent" /\ db.rows[r.seq].agent = r.agent
           /\ r.agent \in Agents \cup {Account}
    <1> DEFINE row == db.rows[r.seq]
    <1>1. r.seq \in 1..Len(db.rows) /\ row.hash = r.hash
        BY SeqDomain DEF ReceiptHolds, LedgerInv, Tables, Chained
    <1>2. /\ IsSeq(row.prev) /\ row.hash = Append(row.prev, Content(row))
          /\ row.agent \in Agents \cup {Account}
        BY <1>1 DEF LedgerInv, Tables, Chained, LinkHolds
    <1>3. PICK s, body : /\ IsSeq(s) /\ r.hash = Append(s, body)
                         /\ body.kind = "order_intent" /\ body.agent = r.agent
        BY DEF LedgerInv, Receipted, IntentHash
    <1>4. Content(row) = body
        BY <1>1, <1>2, <1>3, AppendInjective
    <1>5. Content(row).kind = row.kind /\ Content(row).agent = row.agent
        BY DEF Content
    <1> QED BY <1>1, <1>2, <1>3, <1>4, <1>5

(* record_outcome: its receipt names an intent of this chain.              *)
LEMMA RecordOutcomeStep ==
    ASSUME LedgerInv, NEW p \in Procs, NEW r \in receipts, RecordOutcome(p, r)
    PROVE  LedgerInv'
    <1>1. /\ p \in open /\ guard.by = NoOne /\ Len(db.rows) < MaxRows
          /\ Commit(p, WithRow(db, ChainRow("outcome", r.agent, Link(r))), "row")
        BY LockedFacts DEF RecordOutcome
    <1>2. /\ r.seq \in 1..Len(db.rows) /\ db.rows[r.seq].hash = r.hash
          /\ db.rows[r.seq].kind = "order_intent" /\ db.rows[r.seq].agent = r.agent
          /\ r.agent \in Agents \cup {Account}
        BY ReceiptNamesIntent DEF RecordOutcome
    <1>3. Link(r).seq = r.seq /\ Link(r).hash = r.hash
        BY DEF Link
    <1> QED BY <1>1, <1>2, <1>3, RowStep

(* The nulled payload changes no content, and its row explains it.         *)
LEMMA RedactStep ==
    ASSUME LedgerInv, NEW p \in Procs, NEW m \in DOMAIN db.rows, Redact(p, m)
    PROVE  LedgerInv'
    <1> DEFINE cites == [seq |-> m, hash |-> Genesis]
               row == ChainRow("payload_redacted", Account, cites)
               gone == [db.rows EXCEPT ![m].live = FALSE]
               new == Append(gone, row)
               d == Nulled(db, m)
    <1>0. /\ p \in open /\ guard.by = NoOne /\ Len(db.rows) < MaxRows
          /\ db.rows[m].kind # "payload_redacted" /\ Commit(p, d, "row")
        BY LockedFacts DEF Redact
    <1>1. /\ NextRow(db.rows, row) /\ row.ts = restores /\ row.kind = "payload_redacted"
          /\ row.cites = cites /\ row.live = TRUE
        <2>1. Fits(row, "payload_redacted", Account, cites)
            BY ChainRowFacts
        <2> QED BY <2>1 DEF Fits
    <1>2. cites.seq = m
        OBVIOUS
    <1>3. /\ Chained(db.rows) /\ Redacted(db.rows) /\ Outcomes(db.rows) /\ Windows(db.rows, db.gaps)
          /\ IsSeq(db.rows) /\ m \in 1..Len(db.rows) /\ Len(db.rows) \in Nat
          /\ db = [rows |-> db.rows, head |-> db.head, gaps |-> db.gaps]
        BY SeqDomain DEF LedgerInv, Tables, Chained
    <1>4. d = [rows |-> new, head |-> Link(row), gaps |-> db.gaps]
        <2>1. d = [[db EXCEPT !.rows[m].live = FALSE] EXCEPT !.rows = Append(@, row), !.head = Link(row)]
            BY DEF Nulled, WithRow
        <2> HIDE DEF row
        <2>2. [db EXCEPT !.rows[m].live = FALSE] = [db EXCEPT !.rows = gone]
            OBVIOUS
        <2> HIDE DEF gone, d
        <2>3. [db EXCEPT !.rows = gone] = [rows |-> gone, head |-> db.head, gaps |-> db.gaps]
            BY <1>3
        <2> QED BY <2>1, <2>2, <2>3
    <1> HIDE DEF row, cites, d
    <1>5. d.rows = new /\ d.head = Link(row) /\ d.gaps = db.gaps
        BY <1>4
    <1>6. /\ IsSeq(gone) /\ Len(gone) = Len(db.rows)
          /\ IsRow(gone[m]) /\ SameContent(db.rows[m], gone[m]) /\ gone[m].live = FALSE
          /\ \A n \in 1..Len(db.rows) : n # m => gone[n] = db.rows[n]
        <2> DEFINE r == db.rows[m]
                   v == [r EXCEPT !.live = FALSE]
        <2>1. gone = [db.rows EXCEPT ![m] = v]
            OBVIOUS
        <2>2. IsRow(r)
            BY <1>3 DEF Chained
        <2>3. v = [r EXCEPT !.live = FALSE]
            OBVIOUS
        <2> HIDE DEF v, r, gone
        <2>4. v = [seq |-> r.seq, kind |-> r.kind, agent |-> r.agent, cites |-> r.cites,
                   ts |-> r.ts, prev |-> r.prev, hash |-> r.hash, live |-> FALSE]
            BY <2>2, <2>3 DEF IsRow
        <2>6. IsRow(v) /\ SameContent(r, v) /\ v.live = FALSE
            BY <2>4 DEF IsRow, SameContent
        <2>5. /\ IsSeq(gone) /\ Len(gone) = Len(db.rows) /\ gone[m] = v
              /\ \A n \in 1..Len(db.rows) : n # m => gone[n] = db.rows[n]
            BY <2>1, <1>3, ExceptFacts
        <2> QED BY <2>5, <2>6 DEF r
    <1> HIDE DEF gone
    <1>7. /\ IsSeq(new) /\ Len(new) = Len(db.rows) + 1 /\ new[Len(db.rows) + 1] = row
          /\ \A n \in 1..Len(db.rows) : new[n] = gone[n]
        BY <1>6, AppendFacts
    <1> HIDE DEF new
    <1>8. ASSUME NEW n \in 1..Len(db.rows)
          PROVE  /\ IsRow(new[n]) /\ SameContent(db.rows[n], new[n]) /\ new[n].live \in BOOLEAN
                 /\ n # m => new[n].live = db.rows[n].live
        <2>1. CASE n = m
            BY <2>1, <1>6, <1>7
        <2>2. CASE n # m
            <3>1. new[n] = db.rows[n]
                BY <2>2, <1>6, <1>7
            <3>2. IsRow(db.rows[n]) /\ db.rows[n].live \in BOOLEAN
                BY <1>3 DEF Chained
            <3> QED BY <2>2, <3>1, <3>2 DEF SameContent
        <2> QED BY <2>1, <2>2
    <1>9. Grown(db.rows, new, row)
        BY <1>7, <1>8 DEF Grown
    <1>10. Redacted(new)
        BY <1>0, <1>1, <1>2, <1>3, <1>8, <1>9, RedactionExplained
    <1>11. Outcomes(new)
        BY <1>1, <1>3, <1>9, GrownOutcomes
    <1>12. Windows(new, db.gaps)
        BY <1>1, <1>3, <1>9, GrownWindows
    <1> QED BY <1>0, <1>1, <1>4, <1>5, <1>9, <1>10, <1>11, <1>12, CommitStep

(* open_gap: the row and its window.                                       *)
LEMMA OpenGapStep ==
    ASSUME LedgerInv, NEW p \in Procs, OpenGap(p)
    PROVE  LedgerInv'
    <1> DEFINE row == ChainRow("ws_disconnected", Account, None)
               gap == [opened |-> row.seq, closed |-> 0, done |-> FALSE]
               w == WithRow(db, row)
               more == Append(db.gaps, gap)
               new == Append(db.rows, row)
               d == [w EXCEPT !.gaps = Append(@, gap)]
    <1>0. /\ p \in open /\ guard.by = NoOne /\ Len(db.rows) < MaxRows
          /\ OpenGaps = {} /\ Commit(p, d, "row")
        BY LockedFacts DEF OpenGap, CanOpenGap
    <1>1. /\ NextRow(db.rows, row) /\ row.ts = restores /\ row.kind = "ws_disconnected"
          /\ row.seq = Len(db.rows) + 1 /\ row.live = TRUE
        <2>1. Fits(row, "ws_disconnected", Account, None)
            BY ChainRowFacts
        <2> QED BY <2>1 DEF Fits
    <1>2. /\ w = [rows |-> new, head |-> Link(row), gaps |-> db.gaps]
          /\ Grown(db.rows, new, row)
          /\ \A n \in 1..Len(db.rows) : new[n].live = db.rows[n].live
        BY WithRowFacts DEF LedgerInv
    <1> HIDE DEF row, new, w
    <1>3. d = [rows |-> new, head |-> Link(row), gaps |-> more]
        <2>1. w = [rows |-> new, head |-> Link(row), gaps |-> db.gaps]
            BY <1>2
        <2> HIDE DEF gap
        <2> QED BY <2>1
    <1> HIDE DEF d
    <1>4. d.rows = new /\ d.head = Link(row) /\ d.gaps = more
        BY <1>3
    <1>5. Chained(db.rows) /\ Redacted(db.rows) /\ Outcomes(db.rows) /\ Windows(db.rows, db.gaps)
        BY DEF LedgerInv, Tables
    <1>6. Redacted(new) /\ Outcomes(new)
        BY <1>1, <1>2, <1>5, GrownRedacted, GrownOutcomes
    <1>7. \A g \in 1..Len(db.gaps) : db.gaps[g].closed # 0
        BY <1>0, <1>5 DEF OpenGaps, Windows
    <1>8. Windows(new, more)
        BY <1>1, <1>2, <1>5, <1>7, OpenedWindow
    <1> QED BY <1>0, <1>1, <1>2, <1>3, <1>4, <1>6, <1>8, CommitStep

(* close_gap: the row and the end of its window.                           *)
LEMMA CloseGapStep ==
    ASSUME LedgerInv, NEW p \in Procs, NEW g \in DOMAIN db.gaps, CloseGap(p, g)
    PROVE  LedgerInv'
    <1> DEFINE cites == [seq |-> g, hash |-> Genesis]
               row == ChainRow("ws_reconnected", Account, cites)
               w == WithRow(db, row)
               less == [db.gaps EXCEPT ![g].closed = row.seq]
               new == Append(db.rows, row)
               d == [w EXCEPT !.gaps[g].closed = row.seq]
    <1>0. /\ p \in open /\ guard.by = NoOne /\ Len(db.rows) < MaxRows
          /\ db.gaps[g].closed = 0 /\ Commit(p, d, "row")
        BY LockedFacts DEF CloseGap
    <1>1. /\ NextRow(db.rows, row) /\ row.ts = restores /\ row.kind = "ws_reconnected"
          /\ row.seq = Len(db.rows) + 1 /\ row.live = TRUE
        <2>1. Fits(row, "ws_reconnected", Account, cites)
            BY ChainRowFacts
        <2> QED BY <2>1 DEF Fits
    <1>2. /\ w = [rows |-> new, head |-> Link(row), gaps |-> db.gaps]
          /\ Grown(db.rows, new, row)
          /\ \A n \in 1..Len(db.rows) : new[n].live = db.rows[n].live
        BY WithRowFacts DEF LedgerInv
    <1> HIDE DEF row, new, w
    <1>3. d = [rows |-> new, head |-> Link(row), gaps |-> less]
        <2>1. w = [rows |-> new, head |-> Link(row), gaps |-> db.gaps]
            BY <1>2
        <2> QED BY <2>1
    <1> HIDE DEF d
    <1>4. d.rows = new /\ d.head = Link(row) /\ d.gaps = less
        BY <1>3
    <1>5. Chained(db.rows) /\ Redacted(db.rows) /\ Outcomes(db.rows) /\ Windows(db.rows, db.gaps)
        BY DEF LedgerInv, Tables
    <1>6. Redacted(new) /\ Outcomes(new)
        BY <1>1, <1>2, <1>5, GrownRedacted, GrownOutcomes
    <1>7. g \in 1..Len(db.gaps)
        BY <1>5 DEF Windows
    <1>8. Windows(new, less)
        BY <1>0, <1>1, <1>2, <1>5, <1>7, ClosedWindow
    <1> QED BY <1>0, <1>1, <1>2, <1>3, <1>4, <1>6, <1>8, CommitStep

-----------------------------------------------------------------------------
(* What the verification of the chain says *)

(* The walk looks at the one head the sidecar holds; links and redactions  *)
(* are always in order.                                                    *)
LEMMA VerifyWalks ==
    ASSUME LedgerInv, anchor # {}
    PROVE  \E a \in anchor :
             /\ anchor = {a} /\ Verify = Walk(db, a)
             /\ LastLink(db.rows).seq = Len(db.rows) /\ LastLink(db.rows) = db.head
             /\ a.seq > Len(db.rows) => Verify = "head_behind_anchor"
             /\ a.seq <= Len(db.rows) =>
                   Verify = IF HashAt(db.rows, a.seq) # a.hash THEN "head_behind_anchor"
                            ELSE IF Len(db.rows) - a.seq > AnchorLagTolerance
                                   THEN "chain_ahead_of_anchor" ELSE "intact"
    <1> DEFINE a == CHOOSE a \in anchor : TRUE
               L == Len(db.rows)
               last == LastLink(db.rows)
               at == IF a.seq \notin DOMAIN db.rows THEN Genesis ELSE db.rows[a.seq].hash
    <1>1. a \in anchor
        OBVIOUS
    <1>2. anchor = {a} /\ a.seq \in Nat
        BY <1>1 DEF LedgerInv, Witnessed
    <1>3. Verify = Walk(db, a)
        BY DEF Verify
    <1>4. last.seq = L /\ last = db.head /\ L \in Nat /\ DOMAIN db.rows = 1..L
        BY HeadHash, SeqDomain DEF LedgerInv, Tables, Chained
    <1> HIDE DEF a
    <1>5. ~\E n \in DOMAIN db.rows : ~LinkHolds(db.rows, n)
        BY <1>4 DEF LedgerInv, Tables, Chained
    <1>6. ~\E n \in DOMAIN db.rows : ~db.rows[n].live /\ ~Explained(db.rows, n)
        BY <1>4 DEF LedgerInv, Tables, Redacted
    <1>7. a.seq > L => Walk(db, a) = "head_behind_anchor"
        BY <1>4, <1>5, <1>6 DEF Walk, RewoundBelow
    <1>8. ASSUME a.seq <= L
          PROVE  Walk(db, a) = IF HashAt(db.rows, a.seq) # a.hash THEN "head_behind_anchor"
                               ELSE IF L - a.seq > AnchorLagTolerance
                                      THEN "chain_ahead_of_anchor" ELSE "intact"
        <2>1. at = HashAt(db.rows, a.seq)
            BY <1>2, <1>4, <1>8 DEF HashAt
        <2>2. ~RewoundBelow(a, last)
            BY <1>2, <1>4, <1>8 DEF RewoundBelow
        <2>3. Walk(db, a) = IF at # a.hash THEN "head_behind_anchor"
                            ELSE IF last.seq - a.seq > AnchorLagTolerance
                                   THEN "chain_ahead_of_anchor"
                            ELSE IF last # db.head THEN "head_mismatch" ELSE "intact"
            BY <1>4, <1>5, <1>6, <1>8, <2>2 DEF Walk
        <2> QED BY <2>1, <2>3, <1>4
    <1> QED BY <1>1, <1>2, <1>3, <1>4, <1>7, <1>8

(* A chain that verifies is not behind its sidecar.                        *)
LEMMA IntactIsAhead ==
    ASSUME LedgerInv, Verify = "intact"
    PROVE  /\ anchor # {}
           /\ \A a \in anchor : a.seq <= Len(db.rows)
           /\ db.head.seq = Len(db.rows) /\ db.head.seq >= acked.seq
    <1>1. anchor # {}
        BY DEF Verify
    <1>2. PICK a \in anchor :
             /\ anchor = {a}
             /\ LastLink(db.rows).seq = Len(db.rows) /\ LastLink(db.rows) = db.head
             /\ a.seq > Len(db.rows) => Verify = "head_behind_anchor"
        BY <1>1, VerifyWalks
    <1>3. Len(db.rows) \in Nat /\ a.seq \in Nat /\ a.seq >= acked.seq /\ acked.seq \in Nat
        BY SeqDomain DEF LedgerInv, Tables, Chained, Witnessed
    <1>4. a.seq <= Len(db.rows)
        BY <1>2, <1>3
    <1> QED BY <1>1, <1>2, <1>3, <1>4

-----------------------------------------------------------------------------
(* The actions that add none *)

LEMMA OpenStep ==
    ASSUME LedgerInv, NEW p \in Procs, Open(p)
    PROVE  LedgerInv'
    <1>0. /\ guard.by = NoOne /\ open' = open \cup {p}
          /\ anchor' = IF anchor = {} THEN {ChainHead} ELSE anchor
          /\ db' = db /\ guard' = guard /\ reader' = reader /\ receipts' = receipts /\ acked' = acked
          /\ lost' = lost /\ failed' = failed /\ faults' = faults /\ restores' = restores
        BY DEF Open
    <1>1. Tables' /\ Counted' /\ Receipted' /\ Read'
        BY <1>0 DEF LedgerInv, Tables, Counted, Receipted, Read
    <1>2. Held'
        BY <1>0 DEF LedgerInv, Held
    <1>3. CASE anchor # {}
        <2>1. anchor' = anchor
            BY <1>0, <1>3
        <2>2. Witnessed'
            BY <1>0, <1>3, <2>1 DEF LedgerInv, Witnessed, Pending
        <2>3. Reported'
            BY <1>0, <2>1 DEF LedgerInv, Reported, Untouched
        <2> QED BY <1>1, <1>2, <2>2, <2>3 DEF LedgerInv
    <1>4. CASE anchor = {}
        <2>1. Len(db.rows) = 0 /\ acked = None /\ db.rows = <<>>
            BY <1>4, SeqDomain DEF LedgerInv, Witnessed, Tables, Chained
        <2>2. anchor' = {None}
            BY <1>0, <1>4, <2>1 DEF LedgerInv, Tables, ChainHead, LastLink
        <2>3. failed \in Nat /\ Pending = 0
            BY <1>0 DEF LedgerInv, Counted, Held, Pending
        <2>4. Pending' = 0
            BY <1>0, <2>3 DEF Pending
        <2>5. None.seq = 0 /\ None.hash = Genesis
            BY DEF None
        <2>6. Witnessed'
            <3>1. \A a \in anchor' : a.seq = 0 /\ a.hash = HashAt(db.rows, a.seq)
                BY <2>2, <2>5 DEF HashAt
            <3>2. anchor' # {} /\ \A a, b \in anchor' : a = b
                BY <2>2
            <3>3. acked'.seq = 0 /\ acked' = None /\ db'.rows = db.rows /\ Len(db'.rows) = 0
                BY <1>0, <2>1, <2>5
            <3>4. 0 - 0 <= failed' + Pending'
                BY <1>0, <2>3, <2>4
            <3> QED BY <3>1, <3>2, <3>3, <3>4 DEF Witnessed
        <2>7. Reported'
            BY <1>0, <1>4 DEF LedgerInv, Reported, Untouched
        <2> QED BY <1>1, <1>2, <2>6, <2>7 DEF LedgerInv
    <1> QED BY <1>3, <1>4

(* open_existing.                                                          *)
LEMMA OpenExistingStep ==
    ASSUME LedgerInv, NEW p \in Procs, OpenExisting(p)
    PROVE  LedgerInv'
    <1>0. /\ guard.by = NoOne /\ open' = open \cup {p} /\ anchor # {} /\ anchor' = anchor
          /\ db' = db /\ guard' = guard /\ reader' = reader /\ receipts' = receipts /\ acked' = acked
          /\ lost' = lost /\ failed' = failed /\ faults' = faults /\ restores' = restores
        BY DEF OpenExisting
    <1>1. Tables' /\ Counted' /\ Receipted' /\ Read'
        BY <1>0 DEF LedgerInv, Tables, Counted, Receipted, Read
    <1>2. Held'
        BY <1>0 DEF LedgerInv, Held
    <1>3. Witnessed'
        BY <1>0 DEF LedgerInv, Witnessed, Pending
    <1>4. Reported'
        BY <1>0 DEF LedgerInv, Reported, Untouched
    <1> QED BY <1>1, <1>2, <1>3, <1>4 DEF LedgerInv

(* A process ends.                                                         *)
LEMMA CloseStep ==
    ASSUME LedgerInv, NEW p \in Procs, Close(p)
    PROVE  LedgerInv'
    <1>0. /\ guard.by = NoOne /\ open' = open \ {p} /\ anchor' = anchor
          /\ db' = db /\ guard' = guard /\ reader' = reader /\ receipts' = receipts /\ acked' = acked
          /\ lost' = lost /\ failed' = failed /\ faults' = faults /\ restores' = restores
        BY DEF Close, Locked
    <1>1. Tables' /\ Counted' /\ Receipted' /\ Read'
        BY <1>0 DEF LedgerInv, Tables, Counted, Receipted, Read
    <1>2. Held'
        BY <1>0 DEF LedgerInv, Held
    <1>3. Witnessed'
        BY <1>0 DEF LedgerInv, Witnessed, Pending
    <1>4. Reported'
        BY <1>0 DEF LedgerInv, Reported, Untouched
    <1> QED BY <1>1, <1>2, <1>3, <1>4 DEF LedgerInv

(* A head in the hand of the holder goes, and counts as unnoted.           *)
LEMMA UnnotedStep ==
    ASSUME LedgerInv, guard' = NoHold, failed' = failed + Pending, faults' = faults + 1,
           faults < MaxFaults, open' \subseteq open,
           db' = db, anchor' = anchor, reader' = reader, receipts' = receipts, acked' = acked,
           lost' = lost, restores' = restores
    PROVE  LedgerInv'
    <1> USE LedgerAssumption DEF LedgerAssumption
    <1>1. Tables' /\ Receipted' /\ Read'
        BY DEF LedgerInv, Tables, Receipted, Read
    <1>2. Held'
        BY DEF LedgerInv, Held, NoHold
    <1>3. Pending \in {0, 1} /\ Pending' = 0
        BY DEF Pending, NoHold
    <1>4. Counted'
        <2>1. /\ failed \in Nat /\ faults \in Nat /\ restores \in Nat /\ MaxFaults \in Nat
              /\ failed <= faults /\ restores <= faults /\ Len(db.rows) <= MaxRows
            BY DEF LedgerInv, Counted
        <2>2. /\ failed' \in Nat /\ faults' \in Nat /\ restores' \in Nat
              /\ failed' <= faults' /\ restores' <= faults' /\ faults' <= MaxFaults
            BY <2>1, <1>3
        <2> QED BY <2>1, <2>2 DEF Counted
    <1>5. Witnessed'
        <2>1. failed \in Nat /\ Len(db.rows) \in Nat
            BY SeqDomain DEF LedgerInv, Counted, Tables, Chained
        <2>2. failed' + Pending' = failed + Pending
            BY <2>1, <1>3
        <2> QED BY <2>2 DEF LedgerInv, Witnessed
    <1>6. Reported'
        BY DEF LedgerInv, Reported, Untouched, NoHold
    <1> QED BY <1>1, <1>2, <1>4, <1>5, <1>6 DEF LedgerInv

(* The write of the sidecar fails.                                         *)
LEMMA NoteFailsStep ==
    ASSUME LedgerInv, NEW p \in Procs, NoteFails(p)
    PROVE  LedgerInv'
    <1>1. Unnoted = failed + Pending
        BY DEF LedgerInv, Counted, Unnoted, Pending
    <1> QED BY <1>1, UnnotedStep DEF NoteFails

(* A process dies, between two operations or inside one.                   *)
LEMMA CrashStep ==
    ASSUME LedgerInv, NEW p \in Procs, Crash(p)
    PROVE  LedgerInv'
    <1>1. Unnoted = failed + Pending /\ failed \in Nat
        BY DEF LedgerInv, Counted, Unnoted, Pending
    <1>2. guard.by # p => Pending = 0
        BY DEF Crash, LedgerInv, Held, Pending
    <1>3. failed' = failed + Pending
        BY <1>1, <1>2 DEF Crash
    <1> QED BY <1>3, UnnotedStep DEF Crash

(* note_head: the sidecar catches up, the caller has its answer.           *)
LEMMA NoteHeadStep ==
    ASSUME LedgerInv, NEW p \in Procs, NoteHead(p)
    PROVE  LedgerInv'
    <1> USE LedgerAssumption DEF LedgerAssumption
    <1> DEFINE L == Len(db.rows)
    <1>0. /\ guard.by = p /\ guard.phase = "note" /\ p # NoOne
          /\ anchor' = {guard.note} /\ failed' = 0
          /\ guard' = (IF guard.ack = "approval" THEN [guard EXCEPT !.phase = "append"] ELSE NoHold)
          /\ acked' = (IF guard.ack \in {"row", "intent"} THEN guard.note ELSE acked)
          /\ db' = db /\ open' = open /\ reader' = reader /\ lost' = lost
          /\ faults' = faults /\ restores' = restores
        BY DEF NoteHead, Holds, Noted
    <1>1. /\ guard.note = db.head /\ guard.by \in open
          /\ guard.ack \in {"row", "intent", "read", "approval"}
          /\ guard.ack \in {"row", "intent"} => L # 0
          /\ guard.ack = "intent" => db.rows[L].kind = "order_intent"
          /\ guard.ack \in {"read", "approval"} => db.head.seq >= acked.seq
        BY <1>0 DEF LedgerInv, Held
    <1>2. /\ db.head.seq = L /\ L \in Nat /\ db.head.hash = HashAt(db.rows, L)
          /\ L # 0 => L \in 1..L /\ db.head.hash = db.rows[L].hash
        <2>1. /\ db.head = LastLink(db.rows) /\ LastLink(db.rows).seq = L /\ L \in Nat
              /\ db.rows # <<>> => LastLink(db.rows).hash = db.rows[L].hash
              /\ db.rows = <<>> <=> L = 0
            BY HeadHash, SeqDomain DEF LedgerInv, Tables, Chained
        <2>2. L = 0 => LastLink(db.rows).hash = Genesis
            BY <2>1 DEF LastLink, None
        <2> QED BY <2>1, <2>2 DEF HashAt
    <1>3. Tables' /\ Read'
        BY <1>0 DEF LedgerInv, Tables, Read
    <1>4. /\ guard' = [by |-> guard'.by, phase |-> guard'.phase, note |-> guard'.note, ack |-> guard'.ack]
          /\ guard'.phase \in {"append", "free"}
          /\ guard'.phase = "append" => guard'.by = guard.by /\ guard'.ack = "approval" /\ guard.ack = "approval"
          /\ guard'.phase = "free" => guard'.by = NoOne
        <2>1. CASE guard.ack = "approval"
            <3>1. guard = [by |-> guard.by, phase |-> guard.phase, note |-> guard.note, ack |-> guard.ack]
                BY DEF LedgerInv, Held
            <3>2. guard' = [guard EXCEPT !.phase = "append"]
                BY <1>0, <2>1
            <3>3. guard' = [by |-> guard.by, phase |-> "append", note |-> guard.note, ack |-> guard.ack]
                BY <3>1, <3>2
            <3> QED BY <3>3, <2>1
        <2>2. CASE guard.ack # "approval"
            BY <1>0, <2>2 DEF NoHold
        <2> QED BY <2>1, <2>2
    <1>5. Held'
        <2>1. guard.ack = "approval" => L < MaxRows
            BY <1>0 DEF LedgerInv, Held
        <2>2. open \subseteq Procs
            BY DEF LedgerInv, Held
        <2> QED BY <1>0, <1>1, <1>4, <2>1, <2>2 DEF Held
    <1>6. Counted'
        BY <1>0 DEF LedgerInv, Counted
    <1>7. Witnessed'
        <2>1. Pending' = 0
            BY <1>4 DEF Pending
        <2>2. acked'.seq \in Nat /\ acked'.seq <= L
            BY <1>0, <1>1, <1>2 DEF LedgerInv, Witnessed
        <2>3. ASSUME restores = 0, acked' # None
              PROVE  acked'.seq \in 1..L /\ db.rows[acked'.seq].hash = acked'.hash
            <3>1. CASE guard.ack \in {"row", "intent"}
                BY <3>1, <1>0, <1>1, <1>2
            <3>2. CASE guard.ack \notin {"row", "intent"}
                BY <3>2, <1>0, <2>3 DEF LedgerInv, Witnessed
            <3> QED BY <3>1, <3>2
        <2>4. \A a \in anchor' : a.seq = L /\ a.hash = HashAt(db.rows, L)
            BY <1>0, <1>1, <1>2
        <2>5. anchor' # {} /\ \A a, b \in anchor' : a = b
            BY <1>0
        <2>6. L - L <= failed' + Pending'
            BY <1>0, <1>2, <2>1
        <2>7. db'.rows = db.rows /\ restores' = restores
            BY <1>0
        <2> HIDE DEF L
        <2>8. \A a \in anchor' : a.seq \in Nat /\ a.seq >= acked'.seq
            BY <1>2, <2>2, <2>4
        <2>9. \A a \in anchor' : /\ a.seq <= L /\ a.hash = HashAt(db.rows, a.seq)
                                 /\ L - a.seq <= failed' + Pending'
            BY <1>2, <2>4, <2>6
        <2> QED BY <2>2, <2>3, <2>5, <2>7, <2>8, <2>9 DEF Witnessed, L
    <1>8. Receipted'
        <2>1. CASE guard.ack = "intent"
            <3> DEFINE r == [seq |-> guard.note.seq, hash |-> guard.note.hash,
                             agent |-> db.rows[guard.note.seq].agent]
                       row == db.rows[L]
            <3>1. receipts' = receipts \cup {r}
                BY <2>1 DEF NoteHead
            <3>2. /\ L \in 1..L /\ row.kind = "order_intent" /\ r.hash = row.hash /\ r.agent = row.agent
                BY <2>1, <1>1, <1>2
            <3>3. IsSeq(row.prev) /\ row.hash = Append(row.prev, Content(row))
                BY <3>2 DEF LedgerInv, Tables, Chained, LinkHolds
            <3>4. Content(row).kind = row.kind /\ Content(row).agent = row.agent
                BY DEF Content
            <3> HIDE DEF r, row
            <3>5. IntentHash(r.hash, r.agent)
                BY <3>2, <3>3, <3>4 DEF IntentHash
            <3> QED BY <3>1, <3>5 DEF LedgerInv, Receipted
        <2>2. CASE guard.ack # "intent"
            BY <2>2 DEF NoteHead, LedgerInv, Receipted
        <2> QED BY <2>1, <2>2
    <1>9. Reported'
        BY <1>0 DEF LedgerInv, Reported, Untouched
    <1> QED BY <1>3, <1>5, <1>6, <1>7, <1>8, <1>9 DEF LedgerInv

(* A verified read takes the head it verified to the sidecar.              *)
LEMMA PublishHeadStep ==
    ASSUME LedgerInv, NEW p \in Procs, NEW next \in {"read", "approval"}, PublishHead(p, next)
    PROVE  LedgerInv'
    <1> USE LedgerAssumption DEF LedgerAssumption
    <1>0. /\ p \in open /\ guard.by = NoOne /\ Verify = "intact" /\ p # NoOne
          /\ guard' = [by |-> p, phase |-> "note", note |-> db.head, ack |-> next]
          /\ db' = db /\ anchor' = anchor /\ open' = open /\ reader' = reader /\ receipts' = receipts
          /\ acked' = acked /\ lost' = lost /\ failed' = failed /\ faults' = faults
          /\ restores' = restores
        BY DEF PublishHead, Locked, ChainHead
    <1>1. next = "approval" => Len(db.rows) < MaxRows
        BY DEF PublishHead, Room
    <1>2. /\ anchor # {} /\ \A a \in anchor : a.seq <= Len(db.rows)
          /\ db.head.seq >= acked.seq
        BY <1>0, IntactIsAhead
    <1>3. Tables' /\ Counted' /\ Receipted' /\ Read'
        BY <1>0 DEF LedgerInv, Tables, Counted, Receipted, Read
    <1>4. Held'
        <2>1. open \subseteq Procs
            BY DEF LedgerInv, Held
        <2> QED BY <1>0, <1>1, <1>2, <2>1 DEF Held
    <1>5. Pending = 0 /\ Pending' = 0
        BY <1>0 DEF LedgerInv, Held, Pending
    <1>6. Witnessed'
        BY <1>0, <1>5 DEF LedgerInv, Witnessed
    <1>7. ~(lost /\ Untouched)
        <2>1. Len(db.rows) \in Nat /\ \A a \in anchor : a.seq \in Nat
            BY SeqDomain DEF LedgerInv, Tables, Chained, Witnessed
        <2> QED BY <2>1, <1>2 DEF LedgerInv, Reported
    <1>8. Reported'
        BY <1>0, <1>7 DEF Reported, Untouched
    <1> QED BY <1>3, <1>4, <1>6, <1>8 DEF LedgerInv

(* get_events: the page and the cursor after it.                           *)
LEMMA GetEventsStep ==
    ASSUME LedgerInv, NEW p \in Procs, NEW limit \in Limits, GetEvents(p, limit)
    PROVE  LedgerInv'
    <1> USE LedgerAssumption DEF LedgerAssumption
    <1> DEFINE L == Len(db.rows)
               after == {n \in DOMAIN db.rows : n > reader.cursor /\ Visible(db.rows[n], Me)}
               page == Page(after, limit)
               next == NextCursor(page, reader.cursor, limit)
    <1>0. /\ reader' = [cursor |-> next, seen |-> reader.seen \cup page]
          /\ db' = db /\ anchor' = anchor /\ open' = open /\ guard' = guard /\ receipts' = receipts
          /\ acked' = acked /\ lost' = lost /\ failed' = failed /\ faults' = faults
          /\ restores' = restores
        BY DEF GetEvents, Page
    <1>1. Tables' /\ Held' /\ Counted' /\ Witnessed' /\ Receipted' /\ Reported'
        BY <1>0 DEF LedgerInv, Tables, Held, Counted, Witnessed, Pending, Receipted, Reported, Untouched
    <1>2. L \in Nat /\ DOMAIN db.rows = 1..L /\ ChainHead.seq = L
        BY HeadHash, SeqDomain DEF LedgerInv, Tables, Chained, ChainHead
    <1>3. /\ page \subseteq after
          /\ \A n \in page : \A k \in after : k <= n => k \in page
          /\ page # {} => \E n \in page : \A k \in page : k <= n
          /\ Cardinality(page) # limit => page = after
        <2>1. after \in SUBSET (1..L) /\ limit \in Nat
            BY <1>2
        <2> HIDE DEF after
        <2> QED BY <2>1, <1>2, PageSkipsNothing
    <1>4. /\ \A n : n \in after <=> n \in 1..L /\ n > reader.cursor /\ Visible(db.rows[n], Me)
        BY <1>2
    <1> HIDE DEF after, page
    <1>5. ASSUME restores = 0
          PROVE  /\ next \in 0..L
                 /\ \A n \in 1..L : (n <= next /\ Visible(db.rows[n], Me)) => n \in reader.seen \cup page
        <2>1. /\ reader.cursor \in 0..L
              /\ \A n \in 1..L : (n <= reader.cursor /\ Visible(db.rows[n], Me)) => n \in reader.seen
            BY <1>5 DEF LedgerInv, Read
        <2>2. ASSUME NEW n \in 1..L, Visible(db.rows[n], Me)
              PROVE  n \in reader.seen \/ n \in after
            BY <2>1, <2>2, <1>2, <1>4
        <2>3. CASE Cardinality(page) # limit
            <3>1. next = L /\ page = after
                BY <2>3, <1>2, <1>3 DEF NextCursor
            <3> HIDE DEF next
            <3> QED BY <3>1, <2>2, <1>2
        <2>4. CASE Cardinality(page) = limit /\ page = {}
            <3>1. next = reader.cursor
                BY <2>4 DEF NextCursor
            <3> HIDE DEF next
            <3> QED BY <3>1, <2>1
        <2>5. CASE Cardinality(page) = limit /\ page # {}
            <3>1. next = CHOOSE n \in page : \A m \in page : m <= n
                BY <2>5 DEF NextCursor
            <3>2. next \in page /\ \A m \in page : m <= next
                BY <3>1, <2>5, <1>3
            <3> HIDE DEF next
            <3>3. next \in 1..L
                BY <3>2, <1>3, <1>4
            <3>4. ASSUME NEW n \in 1..L, n <= next, Visible(db.rows[n], Me)
                  PROVE  n \in reader.seen \cup page
                BY <3>2, <3>4, <2>2, <1>3
            <3> QED BY <3>3, <3>4, <1>2
        <2> QED BY <2>3, <2>4, <2>5
    <1>6. Read'
        <2>1. reader'.cursor = next /\ reader'.seen = reader.seen \cup page
            BY <1>0
        <2> HIDE DEF next
        <2> QED BY <1>0, <1>5, <2>1 DEF Read
    <1> QED BY <1>1, <1>6 DEF LedgerInv

(* A window marked as reconciled keeps its place.                          *)
LEMMA MarkGapReconciledStep ==
    ASSUME LedgerInv, NEW p \in Procs, NEW g \in DOMAIN db.gaps, MarkGapReconciled(p, g)
    PROVE  LedgerInv'
    <1> DEFINE gap == db.gaps[g]
               v == [gap EXCEPT !.done = TRUE]
               more == [db.gaps EXCEPT ![g] = v]
    <1>0. /\ db' = [db EXCEPT !.gaps[g].done = TRUE]
          /\ anchor' = anchor /\ open' = open /\ guard' = guard /\ reader' = reader
          /\ receipts' = receipts /\ acked' = acked /\ lost' = lost /\ failed' = failed
          /\ faults' = faults /\ restores' = restores
        BY DEF MarkGapReconciled
    <1>1. /\ db = [rows |-> db.rows, head |-> db.head, gaps |-> db.gaps]
          /\ Chained(db.rows) /\ db.head = LastLink(db.rows)
          /\ Redacted(db.rows) /\ Outcomes(db.rows) /\ Windows(db.rows, db.gaps)
        BY DEF LedgerInv, Tables
    <1>2. db.gaps \in Seq(Gap) /\ Len(db.gaps) \in Nat /\ DOMAIN db.gaps = 1..Len(db.gaps)
        BY <1>1 DEF Windows
    <1>3. [db EXCEPT !.gaps[g].done = TRUE] = [db EXCEPT !.gaps = more]
        OBVIOUS
    <1>4. gap \in Gap
        BY <1>2
    <1>5. v = [gap EXCEPT !.done = TRUE] /\ more = [db.gaps EXCEPT ![g] = v]
        OBVIOUS
    <1> HIDE DEF gap, v, more
    <1>6. db' = [rows |-> db.rows, head |-> db.head, gaps |-> more]
        BY <1>0, <1>1, <1>3
    <1>7. db'.rows = db.rows /\ db'.head = db.head /\ db'.gaps = more
        BY <1>6
    <1>8. v \in Gap /\ v.opened = gap.opened /\ v.closed = gap.closed
        BY <1>4, <1>5 DEF Gap
    <1>9. more \in Seq(Gap) /\ Len(more) = Len(db.gaps)
        BY <1>2, <1>5, <1>8
    <1>10. \A h \in 1..Len(db.gaps) :
              more[h].opened = db.gaps[h].opened /\ more[h].closed = db.gaps[h].closed
        BY <1>2, <1>5, <1>8 DEF gap
    <1>11. Windows(db.rows, more)
        BY <1>1, <1>9, <1>10, SMTT(60) DEF Windows
    <1>12. Tables'
        BY <1>1, <1>6, <1>7, <1>11 DEF Tables
    <1>13. Held' /\ Counted' /\ Receipted' /\ Read' /\ Reported'
        BY <1>0, <1>7 DEF LedgerInv, Held, Counted, Receipted, Read, Reported, Untouched
    <1>14. Witnessed'
        BY <1>0, <1>7 DEF LedgerInv, Witnessed, Pending
    <1> QED BY <1>12, <1>13, <1>14 DEF LedgerInv

-----------------------------------------------------------------------------
(* An older copy *)

(* A copy in place of the file: a chain again, shorter, with the sidecar   *)
(* ahead of it when it lacks an acknowledged row.                          *)
LEMMA RestoreCopyStep ==
    ASSUME LedgerInv, NEW n \in 0..(Len(db.rows) - 1), RestoreCopy(n)
    PROVE  LedgerInv'
    <1> USE LedgerAssumption DEF LedgerAssumption
    <1> DEFINE old == SubSeq(db.rows, 1, n)
               new == Copied(db.rows, n)
               less == CopiedGaps(db.gaps, n)
    <1>0. /\ db' = AsOf(db, n) /\ lost' = (acked.seq > n) /\ open = {} /\ faults + 2 <= MaxFaults
          /\ restores' = restores + 1 /\ faults' = faults + 2
          /\ anchor' = anchor /\ open' = open /\ guard' = guard /\ reader' = reader
          /\ receipts' = receipts /\ acked' = acked /\ failed' = failed
        BY DEF RestoreCopy
    <1>1. /\ Chained(db.rows) /\ Redacted(db.rows) /\ Outcomes(db.rows) /\ Windows(db.rows, db.gaps)
        BY DEF LedgerInv, Tables
    <1>2. Len(db.rows) \in Nat /\ n \in Nat /\ n < Len(db.rows) /\ n \in 0..Len(db.rows)
        BY <1>1, SeqDomain DEF Chained
    <1>3. AsOf(db, n) = [rows |-> new, head |-> LastLink(old), gaps |-> less]
        BY DEF AsOf, Copied, CopiedGaps, CopiedGap
    <1>4. /\ Cut(db.rows, new) /\ Len(new) = n
          /\ IsSeq(old) /\ Len(old) = n /\ \A k \in 1..n : old[k] = db.rows[k]
        BY <1>1, <1>2, CopyIsCut
    <1>5. Redacted(new)
        BY <1>1, <1>2, CopyRedacted
    <1> HIDE DEF old, new
    <1>6. Chained(new) /\ Outcomes(new)
        BY <1>1, <1>4, CutChained, CutOutcomes
    <1>7. Windows(new, less)
        BY <1>1, <1>4, CutWindows
    <1> HIDE DEF less
    <1>8. LastLink(old) = LastLink(new)
        <2>1. CASE n = 0
            <3>1. old = <<>> /\ new = <<>>
                BY <2>1, <1>4, SeqDomain DEF Cut
            <3> QED BY <3>1
        <2>2. CASE n # 0
            <3>1. n \in 1..n /\ old # <<>> /\ new # <<>>
                BY <2>2, <1>2, <1>4, SeqDomain DEF Cut
            <3>2. old[n] = db.rows[n] /\ SameContent(db.rows[n], new[n])
                BY <3>1, <1>4 DEF Cut
            <3> QED BY <3>1, <3>2, <1>4 DEF LastLink, Link, SameContent
        <2> QED BY <2>1, <2>2
    <1>9. db' = [rows |-> new, head |-> LastLink(new), gaps |-> less]
        BY <1>0, <1>3, <1>8
    <1>10. db'.rows = new /\ db'.head = LastLink(new) /\ db'.gaps = less
        BY <1>9
    <1>11. Tables'
        BY <1>5, <1>6, <1>7, <1>9, <1>10 DEF Tables
    <1>12. guard.by = NoOne /\ guard.phase = "free"
        BY <1>0 DEF LedgerInv, Held
    <1>13. Held'
        BY <1>0, <1>12 DEF LedgerInv, Held
    <1>14. Counted'
        <2>1. /\ failed \in Nat /\ faults \in Nat /\ restores \in Nat /\ MaxFaults \in Nat
              /\ failed <= faults /\ restores <= faults /\ Len(db.rows) <= MaxRows
              /\ MaxRows \in Nat
            BY DEF LedgerInv, Counted
        <2>2. /\ failed' \in Nat /\ faults' \in Nat /\ restores' \in Nat
              /\ failed' <= faults' /\ restores' <= faults' /\ faults' <= MaxFaults
            BY <2>1, <1>0
        <2>3. Len(db'.rows) <= MaxRows
            BY <2>1, <1>2, <1>4, <1>10
        <2> QED BY <2>2, <2>3 DEF Counted
    <1>15. restores' # 0
        BY <1>0 DEF LedgerInv, Counted
    <1>16. anchor # {}
        BY <1>2 DEF LedgerInv, Witnessed
    <1>17. Witnessed'
        BY <1>0, <1>15, <1>16 DEF LedgerInv, Witnessed
    <1>18. Receipted' /\ Read'
        BY <1>0, <1>15 DEF LedgerInv, Receipted, Read
    <1>19. Reported'
        <2>1. ASSUME acked.seq > n, NEW a \in anchor
              PROVE  a.seq > n
            <3>1. a.seq \in Nat /\ acked.seq \in Nat /\ a.seq >= acked.seq
                BY DEF LedgerInv, Witnessed
            <3> QED BY <3>1, <2>1, <1>2
        <2> QED BY <2>1, <1>0, <1>4, <1>10, <1>12, <1>16 DEF Reported
    <1> QED BY <1>11, <1>13, <1>14, <1>17, <1>18, <1>19 DEF LedgerInv

-----------------------------------------------------------------------------
(* Every step, and what follows *)

(* No operation, crash, failed write or restored copy breaks the           *)
(* invariant.                                                              *)
LEMMA NextInv == LedgerInv /\ [Next]_vars => LedgerInv'
    <1> SUFFICES ASSUME LedgerInv, [Next]_vars PROVE LedgerInv'
        OBVIOUS
    <1>1. ASSUME NEW p \in Procs, Open(p) PROVE LedgerInv'
        BY <1>1, OpenStep
    <1>2. ASSUME NEW p \in Procs, OpenExisting(p) PROVE LedgerInv'
        BY <1>2, OpenExistingStep
    <1>3. ASSUME NEW p \in Procs, Close(p) PROVE LedgerInv'
        BY <1>3, CloseStep
    <1>4. ASSUME NEW p \in Procs, Crash(p) PROVE LedgerInv'
        BY <1>4, CrashStep
    <1>5. ASSUME NEW p \in Procs, NEW agent \in Agents, PlainAppend(p, agent) PROVE LedgerInv'
        BY <1>5, PlainAppendStep
    <1>6. ASSUME NEW p \in Procs, NEW agent \in Agents, RecordIntent(p, agent) PROVE LedgerInv'
        BY <1>6, RecordIntentStep
    <1>7. ASSUME NEW p \in Procs, NEW r \in receipts, RecordOutcome(p, r) PROVE LedgerInv'
        BY <1>7, RecordOutcomeStep
    <1>8. ASSUME NEW p \in Procs, NEW n \in DOMAIN db.rows, Redact(p, n) PROVE LedgerInv'
        BY <1>8, RedactStep
    <1>9. ASSUME NEW p \in Procs, NEW g \in DOMAIN db.gaps, CloseGap(p, g) PROVE LedgerInv'
        BY <1>9, CloseGapStep
    <1>10. ASSUME NEW p \in Procs, NEW g \in DOMAIN db.gaps, MarkGapReconciled(p, g)
           PROVE  LedgerInv'
        BY <1>10, MarkGapReconciledStep
    <1>11. ASSUME NEW p \in Procs, OpenGap(p) PROVE LedgerInv'
        BY <1>11, OpenGapStep
    <1>12. ASSUME NEW p \in Procs, JournalAppend(p) PROVE LedgerInv'
        BY <1>12, JournalAppendStep
    <1>13. ASSUME NEW p \in Procs, NEW next \in {"read", "approval"}, PublishHead(p, next)
           PROVE  LedgerInv'
        BY <1>13, PublishHeadStep
    <1>14. ASSUME NEW p \in Procs, ApprovalAppend(p) PROVE LedgerInv'
        BY <1>14, ApprovalAppendStep
    <1>15. ASSUME NEW p \in Procs, NoteHead(p) PROVE LedgerInv'
        BY <1>15, NoteHeadStep
    <1>16. ASSUME NEW p \in Procs, NoteFails(p) PROVE LedgerInv'
        BY <1>16, NoteFailsStep
    <1>17. ASSUME NEW p \in Procs, NEW limit \in Limits, GetEvents(p, limit) PROVE LedgerInv'
        BY <1>17, GetEventsStep
    <1>18. ASSUME NEW n \in 0..(Len(db.rows) - 1), RestoreCopy(n) PROVE LedgerInv'
        BY <1>18, RestoreCopyStep
    <1>19. CASE UNCHANGED vars
        BY <1>19 DEF vars, LedgerInv, Tables, Held, Counted, Witnessed, Pending, Receipted, Read,
                     Reported, Untouched
    <1> QED BY <1>1, <1>2, <1>3, <1>4, <1>5, <1>6, <1>7, <1>8, <1>9, <1>10, <1>11, <1>12, <1>13,
               <1>14, <1>15, <1>16, <1>17, <1>18, <1>19 DEF Next

(* The tables, the lock and the sidecar keep their shape.                  *)
LEMMA InvType == LedgerInv => TypeOK
    <1> SUFFICES ASSUME LedgerInv PROVE TypeOK
        OBVIOUS
    <1> USE LedgerAssumption DEF LedgerAssumption
    <1>1. DOMAIN db.rows = 1..Len(db.rows) /\ DOMAIN db.gaps = 1..Len(db.gaps)
        BY SeqDomain DEF LedgerInv, Tables, Chained, Windows
    <1>2. ASSUME NEW n \in DOMAIN db.rows
          PROVE  /\ db.rows[n].seq = n /\ db.rows[n].live \in BOOLEAN
                 /\ db.rows[n].agent \in Agents \cup {Account}
        BY <1>1 DEF LedgerInv, Tables, Chained, LinkHolds
    <1>3. ASSUME NEW g \in DOMAIN db.gaps PROVE db.gaps[g].opened \in DOMAIN db.rows
        BY <1>1 DEF LedgerInv, Tables, Windows
    <1>4. Cardinality(anchor) <= 1
        <2>1. CASE anchor = {}
            BY <2>1, FS_EmptySet
        <2>2. CASE anchor # {}
            <3>1. PICK a \in anchor : anchor = {a}
                BY <2>2 DEF LedgerInv, Witnessed
            <3>2. Cardinality({a}) = 1
                BY FS_Singleton
            <3> QED BY <3>1, <3>2
        <2> QED BY <2>1, <2>2
    <1>5. /\ open \subseteq Procs /\ guard.by \in Procs \cup {NoOne}
          /\ guard.by # NoOne => guard.by \in open /\ guard.phase \in {"note", "append"}
        BY DEF LedgerInv, Held
    <1>6. /\ Len(db.rows) <= MaxRows
          /\ failed \in 0..MaxFaults /\ faults \in 0..MaxFaults /\ restores \in 0..MaxFaults
        BY DEF LedgerInv, Counted
    <1> QED BY <1>2, <1>3, <1>4, <1>5, <1>6 DEF TypeOK

(* The verification of a chain nobody replaced fails only by a tail of two *)
(* unwitnessed rows.                                                       *)
LEMMA InvVerifies == LedgerInv => HonestChainVerifies
    <1> SUFFICES ASSUME LedgerInv, restores = 0, anchor # {}, guard.by = NoOne
                 PROVE  Verify = "intact" \/ (Verify = "chain_ahead_of_anchor" /\ failed >= 2)
        BY DEF HonestChainVerifies
    <1>1. PICK a \in anchor :
             a.seq <= Len(db.rows) =>
                   Verify = IF HashAt(db.rows, a.seq) # a.hash THEN "head_behind_anchor"
                            ELSE IF Len(db.rows) - a.seq > AnchorLagTolerance
                                   THEN "chain_ahead_of_anchor" ELSE "intact"
        BY VerifyWalks
    <1>2. Pending = 0
        BY DEF LedgerInv, Held, Pending
    <1>3. /\ a.seq <= Len(db.rows) /\ a.hash = HashAt(db.rows, a.seq) /\ a.seq \in Nat
          /\ Len(db.rows) - a.seq <= failed + Pending
        BY DEF LedgerInv, Witnessed
    <1>4. Len(db.rows) \in Nat /\ failed \in Nat
        BY SeqDomain DEF LedgerInv, Tables, Chained, Counted
    <1>5. CASE Len(db.rows) - a.seq > 1
        BY <1>1, <1>2, <1>3, <1>4, <1>5 DEF AnchorLagTolerance
    <1>6. CASE ~(Len(db.rows) - a.seq > 1)
        BY <1>1, <1>3, <1>6 DEF AnchorLagTolerance
    <1> QED BY <1>5, <1>6

(* One open window at most, and one window for each disconnect.            *)
LEMMA InvWindows == LedgerInv => GapsMatchChain
    <1> SUFFICES ASSUME LedgerInv PROVE GapsMatchChain
        OBVIOUS
    <1> DEFINE L == Len(db.gaps)
    <1>1. Windows(db.rows, db.gaps) /\ DOMAIN db.rows = 1..Len(db.rows)
        BY SeqDomain DEF LedgerInv, Tables, Chained
    <1>2. db.gaps \in Seq(Gap) /\ L \in Nat /\ DOMAIN db.gaps = 1..L
        BY <1>1 DEF Windows
    <1>3. \A g \in 1..L : db.gaps[g].opened \in Nat /\ db.gaps[g].closed \in Nat
        <2>1. \A g \in 1..L : db.gaps[g] \in Gap
            BY <1>2
        <2> QED BY <2>1 DEF Gap
    <1>4. ASSUME NEW g \in 1..L, NEW h \in 1..L, g < h
          PROVE  db.gaps[g].closed # 0 /\ db.gaps[g].opened < db.gaps[h].opened
        <2>1. db.gaps[g].closed # 0 /\ db.gaps[g].closed < db.gaps[h].opened
            BY <1>1, <1>4 DEF Windows
        <2>2. db.gaps[g].closed > db.gaps[g].opened
            BY <1>1, <2>1 DEF Windows
        <2> QED BY <2>1, <2>2, <1>3
    <1>5. ASSUME NEW g \in 1..L, NEW h \in 1..L, g # h
          PROVE  /\ db.gaps[g].closed # 0 \/ db.gaps[h].closed # 0
                 /\ db.gaps[g].opened # db.gaps[h].opened
        <2>1. CASE g < h
            BY <2>1, <1>3, <1>4
        <2>2. CASE h < g
            BY <2>2, <1>3, <1>4
        <2>3. g < h \/ h < g
            BY <1>2, <1>5
        <2> QED BY <2>1, <2>2, <2>3
    <1>6. Cardinality(OpenGaps) <= 1
        <2>1. \A g, h \in OpenGaps : g = h
            BY <1>2, <1>5 DEF OpenGaps
        <2>2. CASE OpenGaps = {}
            BY <2>2, FS_EmptySet
        <2>3. CASE OpenGaps # {}
            <3>1. PICK g : OpenGaps = {g}
                BY <2>1, <2>3
            <3>2. Cardinality({g}) = 1
                BY FS_Singleton
            <3> QED BY <3>1, <3>2
        <2> QED BY <2>2, <2>3
    <1>7. ASSUME NEW n \in DOMAIN db.rows, db.rows[n].kind = "ws_disconnected"
          PROVE  Cardinality({g \in DOMAIN db.gaps : db.gaps[g].opened = n}) = 1
        <2>1. PICK g \in 1..L : db.gaps[g].opened = n
            BY <1>1, <1>7 DEF Windows
        <2>2. {h \in DOMAIN db.gaps : db.gaps[h].opened = n} = {g}
            BY <2>1, <1>2, <1>5
        <2> QED BY <2>2, FS_Singleton
    <1>8. ASSUME NEW g \in DOMAIN db.gaps, db.gaps[g].closed # 0
          PROVE  /\ db.rows[db.gaps[g].closed].kind = "ws_reconnected"
                 /\ db.gaps[g].closed > db.gaps[g].opened
        BY <1>1, <1>2, <1>8 DEF Windows
    <1> QED BY <1>6, <1>7, <1>8 DEF GapsMatchChain

(* Acknowledged rows are under the sidecar.                                *)
LEMMA InvAcked == LedgerInv => AckedIsWitnessed
    BY DEF LedgerInv, Witnessed, AckedIsWitnessed

(* A copy that lacks an acknowledged row is behind the sidecar.            *)
LEMMA InvRestore == LedgerInv => RestoreIsReported
    <1> SUFFICES ASSUME LedgerInv, lost, guard.by = NoOne,
                        \A n \in DOMAIN db.rows : db.rows[n].ts < restores
                 PROVE  Verify = "head_behind_anchor"
        BY DEF RestoreIsReported
    <1>1. DOMAIN db.rows = 1..Len(db.rows)
        BY SeqDomain DEF LedgerInv, Tables, Chained
    <1>2. anchor # {} /\ \A a \in anchor : a.seq > Len(db.rows)
        BY <1>1 DEF LedgerInv, Reported, Untouched
    <1>3. PICK a \in anchor : a.seq > Len(db.rows) => Verify = "head_behind_anchor"
        BY <1>2, VerifyWalks
    <1> QED BY <1>2, <1>3

(* Outcomes cite the intents their receipts were for.                      *)
LEMMA InvOutcomes == LedgerInv => OutcomesCiteIntents
    <1> SUFFICES ASSUME LedgerInv PROVE OutcomesCiteIntents
        OBVIOUS
    <1>1. DOMAIN db.rows = 1..Len(db.rows) /\ Outcomes(db.rows)
        BY SeqDomain DEF LedgerInv, Tables, Chained
    <1> QED BY <1>1 DEF Outcomes, CitesIntent, OutcomesCiteIntents

(* The cursor of an agent is behind no row it may read and was not given.  *)
LEMMA InvCursor == LedgerInv => CursorSkipsNothing
    <1> SUFFICES ASSUME LedgerInv PROVE CursorSkipsNothing
        OBVIOUS
    <1>1. DOMAIN db.rows = 1..Len(db.rows)
        BY SeqDomain DEF LedgerInv, Tables, Chained
    <1> QED BY <1>1 DEF LedgerInv, Read, CursorSkipsNothing

-----------------------------------------------------------------------------
(* The invariant holds in every state of the ledger: Init establishes it   *)
(* and append, redact, open_gap, note_head, the crashes and the restored   *)
(* copies keep it.                                                         *)
THEOREM Inductive == Spec => []LedgerInv
    BY InitInv, NextInv, PTL DEF Spec

(* What verify.rs relies on, for every number of processes, rows, faults   *)
(* and restored copies: the chain this code wrote verifies unless two      *)
(* sidecar writes in a row failed, and the windows of feed_gaps tell the   *)
(* story the chain tells.                                                  *)
THEOREM ChainIsSound == Spec => []ChainSound
    <1>1. LedgerInv => ChainSound
        BY InvType, InvVerifies, InvWindows DEF ChainSound
    <1> QED BY <1>1, Inductive, PTL

(* What anchor.rs promises: a row whose append returned Ok is under the    *)
(* sidecar from then on, and a restored copy that lacks one is reported by *)
(* every verification until somebody appends without verifying.            *)
THEOREM WitnessIsSound == Spec => []WitnessHolds
    <1>1. LedgerInv => WitnessHolds
        BY InvAcked, InvRestore DEF WitnessHolds
    <1> QED BY <1>1, Inductive, PTL

(* record_outcome adds its row under the intent the caller's receipt was   *)
(* given for, also when the sequence numbers were issued anew after a      *)
(* restored copy: the hash decides, and a hash determines its content.     *)
THEOREM OutcomesNameIntents == Spec => []OutcomesCiteIntents
    BY InvOutcomes, Inductive, PTL

(* get_events never moves an agent's cursor past a row the agent may read  *)
(* and was not given, for any page size.                                   *)
THEOREM CursorIsComplete == Spec => []CursorSkipsNothing
    BY InvCursor, Inductive, PTL

-----------------------------------------------------------------------------
(* The desktop runtime: what its control, worker, feed and reads keep true  *)

Named == Contexts \cup {D!None}

Networks == {D!None, "testnet"} \cup Contexts

Watch == [serial : Nat, context : Named, coin : {0, 1, 2}]

McpState ==
  [context : Named, phase : {"idle", "starting", "listening", "stopping", "stopped", "failed"},
   worker : BOOLEAN, owned : BOOLEAN]

SetupState ==
  [phase : {"idle", "reviewing", "ready", "persisting", "uncertain", "recovery", "saved", "failed", "stopped"},
   job : {D!None, "review", "persist"}, review : BOOLEAN, retry : BOOLEAN, committed : BOOLEAN]

ControlState ==
  [phase : {"running", "replacing", "stopping", "stopped", "stopped_with_error"},
   terminal : BOOLEAN, detail : BOOLEAN, network : Networks, generation : Nat, serial : Nat, binding : Nat,
   chart : Nat, account : Nat, selection : Watch, desired : Watch, reading : BOOLEAN,
   mode : {D!None, "update", "exit"},
   mcp : McpState, setup : SetupState,
   consent : {D!None, "waiting", "live", "closed", "uncertain"}, closing : BOOLEAN,
   drain : {D!None, "consent", "setup", "mcp", "worker", "feed", "reads", "done"}]

WorkerState ==
  [at : {"idle", "loop", "begin", "drain", "local", "lease", "bind", "start", "retire", "finish"},
   watch : Watch, stops : BOOLEAN, failed : BOOLEAN,
   result : {D!None, "superseded", "failed", "no_chart", "installed"}]

FeedState == [context : Named, generation : Nat, failed : BOOLEAN]

DesktopTyped ==
  /\ ctl \in ControlState
  /\ worker \in WorkerState
  /\ feed \in FeedState
  /\ reads \in [local : Named, lease : Named]
  /\ program \in [update : {D!None, "waiting", "installed", "dropped"}, exit : {D!None, "waiting", "exited"}]
  /\ captured \in Nat /\ reopened \in BOOLEAN

Has(f) == f # D!NoFeed

(* A drain's stages are passed in order, and what a stage joined is gone.   *)
DrainHolds ==
  /\ ctl.terminal <=> ctl.drain # D!None
  /\ ctl.drain = "done" <=> D!Ended(ctl)
  /\ ctl.terminal => ctl.phase \notin {"running", "replacing"}
  /\ ctl.drain \in {"setup", "mcp", "worker", "feed", "reads", "done"} => ctl.consent \notin {"waiting", "live"}
  /\ ctl.drain \in {"mcp", "worker", "feed", "reads", "done"} => ctl.setup.job = D!None
  /\ ctl.drain \in {"worker", "feed", "reads", "done"} => ~ctl.mcp.worker /\ ~ctl.mcp.owned
  /\ ctl.drain \in {"feed", "reads", "done"} => worker.at = "idle"
  /\ ctl.drain \in {"reads", "done"} => feed = D!NoFeed
  /\ ctl.drain = "done" => reads.local = D!None /\ reads.lease = D!None
  /\ program.update = "installed" \/ program.exit = "exited" => D!Ended(ctl)

(* A setup's job and its phase agree, and only a retry has an open outcome. *)
SetupHolds ==
  /\ D!SetupOutcomeKept
  /\ ctl.setup.job = "review" => ctl.setup.phase = "reviewing"
  /\ ctl.setup.job = "persist" => ctl.setup.phase = "persisting" /\ (ctl.setup.retry \/ ~ctl.setup.committed)

(* A pending watch is the newest, and newer than the one being installed.   *)
WatchesOrdered ==
  /\ worker.watch.serial <= ctl.serial
  /\ ctl.desired # D!NoWatch => ctl.desired.serial = ctl.serial /\ worker.watch.serial < ctl.serial
  /\ worker.at \in {"idle", "loop"} => worker.watch = D!NoWatch
  /\ worker.at \notin {"idle", "loop"} => worker.watch.context \in Contexts
  /\ ctl.desired # D!NoWatch => ctl.desired.context \in Contexts
  /\ ctl.consent = "waiting" => worker.at = "idle" /\ ctl.desired = D!NoWatch /\ ctl.binding = 0

(* The slot's feed is the selection's and the last one started.             *)
FeedHolds ==
  /\ Has(feed) =>
       /\ feed.context \in Contexts /\ feed.context = ctl.selection.context
       /\ feed.generation > 0 /\ feed.generation = ctl.account
       /\ ctl.binding \in {0, feed.generation}
  /\ worker.at \in {"local", "lease", "bind", "start"} => feed = D!NoFeed
  /\ worker.at = "start" => ctl.generation > 0
  /\ worker.at = "retire" \/ (worker.at = "finish" /\ worker.result \in {"installed", "no_chart"}) =>
       Has(feed) /\ feed.context = worker.watch.context

(* While admission is open nothing is being replaced. *)
OpenIsSettled ==
  ctl.phase = "running" =>
    /\ ctl.desired = D!NoWatch /\ worker.at \in {"idle", "loop"}
    /\ ctl.binding # 0 => Has(feed)

(* The runtime's network is that of its feed and of every read it admitted. *)
OneNetwork ==
  /\ Has(feed) => ctl.network = D!Network(feed.context)
  /\ reads.local # D!None => ctl.network = D!Network(reads.local)
  /\ reads.lease # D!None => ctl.network = D!Network(reads.lease)
  /\ worker.at \in {"local", "lease"} => worker.stops
  /\ worker.at = "lease" => reads.local = D!None
  /\ worker.at = "bind" /\ worker.stops => reads.local = D!None /\ reads.lease = D!None
  /\ worker.at \in {"drain", "bind"} /\ ~worker.stops =>
       ctl.network \in {D!None, D!Network(worker.watch.context)}
  /\ worker.at = "start" => ctl.network = D!Network(worker.watch.context)

(* Once there is an MCP owner, every watch is of its account. *)
OneAccount ==
  ctl.mcp.context # D!None =>
    {ctl.desired.context, worker.watch.context, ctl.selection.context} \subseteq {D!None, ctl.mcp.context}

DesktopInv ==
  /\ DesktopTyped /\ DrainHolds /\ SetupHolds /\ WatchesOrdered /\ FeedHolds
  /\ ~reopened => OpenIsSettled /\ OneNetwork /\ OneAccount

(* What a stop leaves of a control record: admission is closed, the drain   *)
(* has begun, and every owner is still there to be joined.                  *)
StopOf(c, s) ==
  /\ s \in ControlState
  /\ s.terminal /\ s.phase \notin {"running", "replacing"} /\ (D!Ended(s) <=> D!Ended(c))
  /\ s.drain = IF c.drain = D!None THEN "consent" ELSE c.drain
  /\ s.network = c.network /\ s.generation = c.generation /\ s.serial = c.serial
  /\ s.account = c.account /\ s.selection = c.selection /\ s.consent = c.consent
  /\ s.binding \in {0, c.binding} /\ s.desired \in {D!NoWatch, c.desired}
  /\ s.mcp.context = c.mcp.context /\ s.mcp.worker = c.mcp.worker /\ s.mcp.owned = c.mcp.owned
  /\ s.setup.job = c.setup.job /\ s.setup.retry = c.setup.retry /\ s.setup.committed = c.setup.committed
  /\ \/ s.setup.phase = c.setup.phase
     \/ s.setup.phase = "stopped" /\ c.setup.phase \notin {"reviewing", "persisting"}

(* The drain and the end of a control record agree. *)
DrainFits(c) ==
  /\ c.drain = "done" <=> D!Ended(c)
  /\ c.drain # D!None => c.phase \notin {"running", "replacing"}

(* A control record without a watch, for the types *)
LEMMA NoWatchIsWatch == D!NoWatch \in Watch
BY DEF D!NoWatch, Watch, Named, D!None

(* begin_stop closes admission once. *)
LEMMA BeginStopStops ==
  ASSUME NEW c \in ControlState, DrainFits(c)
  PROVE  StopOf(c, D!BeginStop(c))
<1> DEFINE closed == [c EXCEPT !.terminal = TRUE, !.chart = 0, !.reading = FALSE,
                               !.mcp.phase = IF @ \in {"starting", "listening"} THEN "stopping" ELSE @]
<1>1. closed \in ControlState /\ closed.terminal
  BY DEF ControlState, McpState
<1>2. /\ closed.phase = c.phase /\ closed.drain = c.drain /\ closed.network = c.network
      /\ closed.generation = c.generation /\ closed.serial = c.serial /\ closed.account = c.account
      /\ closed.selection = c.selection /\ closed.desired = c.desired /\ closed.consent = c.consent
      /\ closed.binding = c.binding /\ closed.setup = c.setup
  BY DEF ControlState
<1>3. /\ closed.mcp.context = c.mcp.context /\ closed.mcp.worker = c.mcp.worker
      /\ closed.mcp.owned = c.mcp.owned
  BY DEF ControlState, McpState
<1> DEFINE first == [closed EXCEPT !.phase = "stopping", !.binding = 0, !.desired = D!NoWatch,
                            !.setup.phase = IF @ \in {"reviewing", "persisting"} THEN @ ELSE "stopped",
                            !.setup.review = FALSE, !.closing = TRUE, !.drain = "consent"]
<1>4. D!BeginStop(c) = IF D!Ended(c) \/ c.drain # D!None THEN closed ELSE first
  BY DEF D!BeginStop
<1> HIDE DEF closed
<1> DEFINE phased == [closed EXCEPT !.setup.phase = IF @ \in {"reviewing", "persisting"} THEN @ ELSE "stopped"]
<1> DEFINE emptied == [phased EXCEPT !.setup.review = FALSE]
<1>a. phased \in ControlState
  BY <1>1 DEF ControlState, SetupState
<1>b. emptied \in ControlState
  <2> HIDE DEF phased
  <2> QED BY <1>a DEF ControlState, SetupState
<1>c. first = [emptied EXCEPT !.phase = "stopping", !.binding = 0, !.desired = D!NoWatch,
                              !.closing = TRUE, !.drain = "consent"]
  BY <1>1, ZenonT(60) DEF ControlState, SetupState
<1>d. first \in ControlState
  <2> HIDE DEF emptied, first
  <2> QED BY <1>b, <1>c, NoWatchIsWatch DEF ControlState
<1>5. first \in ControlState /\ first.terminal /\ first.phase = "stopping" /\ first.drain = "consent"
  <2>1. first.terminal /\ first.phase = "stopping" /\ first.drain = "consent"
    BY <1>1 DEF ControlState
  <2> QED BY <1>d, <2>1
<1>6. /\ first.network = c.network /\ first.generation = c.generation /\ first.serial = c.serial
      /\ first.account = c.account /\ first.selection = c.selection /\ first.consent = c.consent
      /\ first.binding = 0 /\ first.desired = D!NoWatch /\ first.mcp = closed.mcp
  BY <1>1, <1>2 DEF ControlState
<1>7. /\ first.setup.job = c.setup.job /\ first.setup.retry = c.setup.retry
      /\ first.setup.committed = c.setup.committed
      /\ first.setup.phase = IF c.setup.phase \in {"reviewing", "persisting"} THEN c.setup.phase ELSE "stopped"
  BY <1>1, <1>2 DEF ControlState, SetupState
<1> HIDE DEF first
<1>8. CASE D!Ended(c) \/ c.drain # D!None
  BY <1>1, <1>2, <1>3, <1>4, <1>8 DEF StopOf, DrainFits, D!Ended, D!None
<1>9. CASE ~(D!Ended(c) \/ c.drain # D!None)
  BY <1>3, <1>4, <1>5, <1>6, <1>7, <1>9 DEF StopOf, DrainFits, D!Ended
<1> QED BY <1>8, <1>9

(* A failure stops in the same way, and marks a drain that was done. *)
LEMMA FailedStops ==
  ASSUME NEW c \in ControlState, DrainFits(c)
  PROVE  StopOf(c, D!Failed(c))
<1> DEFINE f == [c EXCEPT !.terminal = TRUE, !.detail = TRUE, !.reading = FALSE, !.desired = D!NoWatch,
                          !.phase = IF D!Ended(c) THEN "stopped_with_error" ELSE "stopping"]
<1>1. f \in ControlState
  BY NoWatchIsWatch, ZenonT(60) DEF ControlState
<1>2. /\ f.terminal /\ f.phase = (IF D!Ended(c) THEN "stopped_with_error" ELSE "stopping")
      /\ f.desired = D!NoWatch /\ f.drain = c.drain /\ f.network = c.network
      /\ f.generation = c.generation /\ f.serial = c.serial /\ f.account = c.account
      /\ f.selection = c.selection /\ f.consent = c.consent /\ f.binding = c.binding
      /\ f.setup = c.setup /\ f.mcp = c.mcp
  BY DEF ControlState
<1>3. D!Failed(c) = D!BeginStop(f)
  BY DEF D!Failed
<1> HIDE DEF f
<1>4. StopOf(f, D!BeginStop(f))
  BY <1>1, <1>2, BeginStopStops DEF DrainFits, D!Ended
<1> QED BY <1>2, <1>3, <1>4 DEF StopOf, D!Ended

(* Every stop of a step is one of these. *)
LEMMA StopsTaken ==
  ASSUME DesktopTyped, DrainHolds
  PROVE  /\ StopOf(ctl, D!Failed(ctl)) /\ StopOf(ctl, D!BeginStop(ctl))
         /\ \A m \in {"update", "exit"} : StopOf(ctl, D!BeginStop([ctl EXCEPT !.mode = m]))
<1>1. ctl \in ControlState /\ DrainFits(ctl)
  BY DEF DesktopTyped, DrainHolds, DrainFits
<1>2. ASSUME NEW m \in {"update", "exit"}
      PROVE  StopOf(ctl, D!BeginStop([ctl EXCEPT !.mode = m]))
  <2> DEFINE c == [ctl EXCEPT !.mode = m]
  <2>1. /\ c \in ControlState /\ c.phase = ctl.phase /\ c.drain = ctl.drain /\ c.terminal = ctl.terminal
        /\ c.network = ctl.network /\ c.generation = ctl.generation /\ c.serial = ctl.serial
        /\ c.account = ctl.account /\ c.selection = ctl.selection /\ c.consent = ctl.consent
        /\ c.binding = ctl.binding /\ c.desired = ctl.desired /\ c.mcp = ctl.mcp /\ c.setup = ctl.setup
    BY <1>1 DEF ControlState
  <2> HIDE DEF c
  <2>2. StopOf(c, D!BeginStop(c))
    BY <1>1, <2>1, BeginStopStops DEF DrainFits, D!Ended
  <2> QED BY <2>1, <2>2 DEF StopOf, D!Ended, c
<1> QED BY <1>1, <1>2, BeginStopStops, FailedStops
(* Steps that change ctl *)
LEMMA CtlFrame ==
  ASSUME D!Next
  PROVE  \/ UNCHANGED ctl
         \/ (\E context \in Contexts, coin \in {1, 2} : D!SubmitWatch(context, coin))
         \/ (\E kind \in {"local", "lease"}, context \in Contexts : D!Read(kind, context))
         \/ (\E context \in Contexts : D!LaunchMcp(context))
         \/ (\E context \in Contexts : D!ReviewPolicy(context))
         \/ (\E context \in Contexts : D!LaunchConsent(context)) \/ D!TakeWatch \/ D!BeginReplace
         \/ D!DrainLeases \/ D!Bind \/ D!StartFeed \/ D!FinishWatch \/ D!ApplyFailure \/ D!PollMcp
         \/ D!McpStarted \/ D!McpFails \/ D!Reviewed \/ D!PersistPolicy \/ D!Persisted
         \/ D!DiscardPolicy \/ D!ConsentTakesOver \/ D!ConsentEnds \/ D!ConsentDrained
         \/ D!SetupDrained \/ D!McpDrained \/ D!WorkerDrained \/ D!FeedDrained \/ D!ReadsDrained
         \/ D!BeginUpdate \/ D!InstallUpdate \/ D!RequestExit
BY DEF D!Next, D!DrainFeed, D!DrainLocal, D!ReplaceChart, D!ReadEnds, D!FeedFails, D!CaptureFailure, D!Exit,
       D!Worker, D!Program

(* Steps that change worker *)
LEMMA WorkerFrame ==
  ASSUME D!Next
  PROVE  \/ UNCHANGED worker
         \/ (\E context \in Contexts, coin \in {1, 2} : D!SubmitWatch(context, coin)) \/ D!TakeWatch
         \/ D!BeginReplace \/ D!DrainFeed \/ D!DrainLocal \/ D!DrainLeases \/ D!Bind \/ D!StartFeed
         \/ D!ReplaceChart \/ D!FinishWatch
BY DEF D!Next, D!Read, D!LaunchMcp, D!ReviewPolicy, D!LaunchConsent, D!ReadEnds, D!FeedFails,
       D!CaptureFailure, D!ApplyFailure, D!PollMcp, D!McpStarted, D!McpFails, D!Reviewed, D!PersistPolicy,
       D!Persisted, D!DiscardPolicy, D!ConsentTakesOver, D!ConsentEnds, D!ConsentDrained, D!SetupDrained,
       D!McpDrained, D!WorkerDrained, D!FeedDrained, D!ReadsDrained, D!BeginUpdate, D!InstallUpdate,
       D!RequestExit, D!Exit, D!Control, D!Program

(* Steps that change feed *)
LEMMA FeedFrame ==
  ASSUME D!Next
  PROVE  \/ UNCHANGED feed
         \/ D!DrainFeed \/ D!StartFeed \/ D!FeedFails \/ D!ConsentTakesOver \/ D!FeedDrained
BY DEF D!Next, D!SubmitWatch, D!Read, D!LaunchMcp, D!ReviewPolicy, D!LaunchConsent, D!TakeWatch,
       D!BeginReplace, D!DrainLocal, D!DrainLeases, D!Bind, D!ReplaceChart, D!FinishWatch, D!ReadEnds,
       D!CaptureFailure, D!ApplyFailure, D!PollMcp, D!McpStarted, D!McpFails, D!Reviewed, D!PersistPolicy,
       D!Persisted, D!DiscardPolicy, D!ConsentEnds, D!ConsentDrained, D!SetupDrained, D!McpDrained,
       D!WorkerDrained, D!ReadsDrained, D!BeginUpdate, D!InstallUpdate, D!RequestExit, D!Exit, D!Control,
       D!Worker, D!Program

(* Steps that change reads *)
LEMMA ReadsFrame ==
  ASSUME D!Next
  PROVE  \/ UNCHANGED reads
         \/ (\E kind \in {"local", "lease"}, context \in Contexts : D!Read(kind, context))
         \/ (\E kind \in {"local", "lease"} : D!ReadEnds(kind))
BY DEF D!Next, D!SubmitWatch, D!LaunchMcp, D!ReviewPolicy, D!LaunchConsent, D!TakeWatch, D!BeginReplace,
       D!DrainFeed, D!DrainLocal, D!DrainLeases, D!Bind, D!StartFeed, D!ReplaceChart, D!FinishWatch,
       D!FeedFails, D!CaptureFailure, D!ApplyFailure, D!PollMcp, D!McpStarted, D!McpFails, D!Reviewed,
       D!PersistPolicy, D!Persisted, D!DiscardPolicy, D!ConsentTakesOver, D!ConsentEnds, D!ConsentDrained,
       D!SetupDrained, D!McpDrained, D!WorkerDrained, D!FeedDrained, D!ReadsDrained, D!BeginUpdate,
       D!InstallUpdate, D!RequestExit, D!Exit, D!Control, D!Worker, D!Program

(* Steps that change program *)
LEMMA ProgramFrame ==
  ASSUME D!Next
  PROVE  \/ UNCHANGED program
         \/ D!BeginUpdate \/ D!InstallUpdate \/ D!RequestExit \/ D!Exit
BY DEF D!Next, D!SubmitWatch, D!Read, D!LaunchMcp, D!ReviewPolicy, D!LaunchConsent, D!TakeWatch,
       D!BeginReplace, D!DrainFeed, D!DrainLocal, D!DrainLeases, D!Bind, D!StartFeed, D!ReplaceChart,
       D!FinishWatch, D!ReadEnds, D!FeedFails, D!CaptureFailure, D!ApplyFailure, D!PollMcp, D!McpStarted,
       D!McpFails, D!Reviewed, D!PersistPolicy, D!Persisted, D!DiscardPolicy, D!ConsentTakesOver,
       D!ConsentEnds, D!ConsentDrained, D!SetupDrained, D!McpDrained, D!WorkerDrained, D!FeedDrained,
       D!ReadsDrained, D!Control, D!Worker

(* Steps that change captured *)
LEMMA CapturedFrame ==
  ASSUME D!Next
  PROVE  \/ UNCHANGED captured
         \/ D!CaptureFailure \/ D!ApplyFailure
BY DEF D!Next, D!SubmitWatch, D!Read, D!LaunchMcp, D!ReviewPolicy, D!LaunchConsent, D!TakeWatch,
       D!BeginReplace, D!DrainFeed, D!DrainLocal, D!DrainLeases, D!Bind, D!StartFeed, D!ReplaceChart,
       D!FinishWatch, D!ReadEnds, D!FeedFails, D!PollMcp, D!McpStarted, D!McpFails, D!Reviewed,
       D!PersistPolicy, D!Persisted, D!DiscardPolicy, D!ConsentTakesOver, D!ConsentEnds, D!ConsentDrained,
       D!SetupDrained, D!McpDrained, D!WorkerDrained, D!FeedDrained, D!ReadsDrained, D!BeginUpdate,
       D!InstallUpdate, D!RequestExit, D!Exit, D!Control, D!Worker, D!Program

(* Steps that change reopened *)
LEMMA ReopenedFrame ==
  ASSUME D!Next
  PROVE  \/ UNCHANGED reopened
         \/ D!FinishWatch
BY DEF D!Next, D!SubmitWatch, D!Read, D!LaunchMcp, D!ReviewPolicy, D!LaunchConsent, D!TakeWatch,
       D!BeginReplace, D!DrainFeed, D!DrainLocal, D!DrainLeases, D!Bind, D!StartFeed, D!ReplaceChart,
       D!ReadEnds, D!FeedFails, D!CaptureFailure, D!ApplyFailure, D!PollMcp, D!McpStarted, D!McpFails,
       D!Reviewed, D!PersistPolicy, D!Persisted, D!DiscardPolicy, D!ConsentTakesOver, D!ConsentEnds,
       D!ConsentDrained, D!SetupDrained, D!McpDrained, D!WorkerDrained, D!FeedDrained, D!ReadsDrained,
       D!BeginUpdate, D!InstallUpdate, D!RequestExit, D!Exit, D!Control, D!Worker, D!Program

(* Every network is a network. *)
LEMMA NetworkTyped == /\ "testnet" \in Networks /\ \A c \in Named : D!Network(c) \in Networks
BY DEF Networks, Named, D!Network, D!None

(* What the answer to a policy write leaves of the setup: no job, and a      *)
(* committed row only in a phase that tells of it.                          *)
LEMMA PersistEnds ==
  ASSUME ctl \in ControlState, D!Persisted
  PROVE  /\ ctl.setup.job = "persist"
         /\ \E s \in SetupState :
              /\ ctl' = [ctl EXCEPT !.setup = s] /\ s.job = D!None
              /\ \/ s.phase \in {"stopped", "saved", "uncertain", "recovery"}
                 \/ s.phase = "failed" /\ ~ctl.setup.retry /\ (s.committed <=> ctl.setup.committed)
<1>1. ctl.setup \in SetupState /\ ctl.setup.committed \in BOOLEAN /\ ctl.terminal \in BOOLEAN
  BY DEF ControlState, SetupState
<1> DEFINE ends(phase) ==
      [phase |-> IF ctl.terminal THEN "stopped" ELSE phase, job |-> D!None, retry |-> FALSE,
       review |-> ~ctl.terminal /\ phase \in {"uncertain", "recovery"}, committed |-> ctl.setup.committed]
<1>2. \/ D!Control([ctl EXCEPT !.setup = [ends("saved") EXCEPT !.committed = TRUE]])
      \/ D!Control([ctl EXCEPT !.setup = ends(D!RefusedPhase(ctl.setup))])
      \/ \E phase \in {"uncertain", "recovery"}, written \in BOOLEAN :
           D!Control([ctl EXCEPT !.setup = [ends(phase) EXCEPT !.committed = ends(phase).committed \/ written]])
  BY DEF D!Persisted
<1>3. ASSUME NEW phase \in {"saved", "uncertain", "recovery", "failed"}
      PROVE  /\ ends(phase) \in SetupState /\ ends(phase).job = D!None
             /\ ends(phase).phase \in {"stopped", phase} /\ ends(phase).committed = ctl.setup.committed
  BY <1>1 DEF SetupState
<1> HIDE DEF ends
<1>4. ASSUME NEW phase \in {"saved", "uncertain", "recovery", "failed"}, NEW w \in BOOLEAN
      PROVE  LET s == [ends(phase) EXCEPT !.committed = w]
             IN  s \in SetupState /\ s.job = D!None /\ s.phase \in {"stopped", phase}
  BY <1>3 DEF SetupState
<1>5. CASE D!Control([ctl EXCEPT !.setup = [ends("saved") EXCEPT !.committed = TRUE]])
  BY <1>4, <1>5 DEF D!Control, D!Persisted
<1>6. CASE D!Control([ctl EXCEPT !.setup = ends(D!RefusedPhase(ctl.setup))])
  BY <1>1, <1>3, <1>6 DEF D!Control, D!RefusedPhase, D!Persisted
<1>7. ASSUME NEW phase \in {"uncertain", "recovery"}, NEW written \in BOOLEAN,
             D!Control([ctl EXCEPT !.setup = [ends(phase) EXCEPT !.committed = ends(phase).committed \/ written]])
      PROVE  \E s \in SetupState : /\ ctl' = [ctl EXCEPT !.setup = s] /\ s.job = D!None
                                   /\ s.phase \in {"stopped", "uncertain", "recovery"}
  <2> DEFINE w == ends(phase).committed \/ written
  <2>1. w \in BOOLEAN
    OBVIOUS
  <2>2. ctl' = [ctl EXCEPT !.setup = [ends(phase) EXCEPT !.committed = w]]
    BY <1>7 DEF D!Control
  <2> HIDE DEF w
  <2> QED BY <1>4, <2>1, <2>2
<1>8. ctl.setup.job = "persist"
  BY DEF D!Persisted
<1> QED BY <1>2, <1>5, <1>6, <1>7, <1>8

(* The control keeps its type. *)
LEMMA ControlTyped ==
  ASSUME DesktopTyped, DrainHolds, D!Next
  PROVE  ctl' \in ControlState
<1>0. ctl \in ControlState /\ worker \in WorkerState /\ feed \in FeedState
  BY DEF DesktopTyped
<1>1. ASSUME NEW context \in Contexts, NEW coin \in {1, 2}, D!SubmitWatch(context, coin)
      PROVE  ctl' \in ControlState
  <2> DEFINE watch == [serial |-> ctl.serial + 1, context |-> context, coin |-> coin]
  <2>1. watch \in Watch /\ ctl.serial + 1 \in Nat
    BY <1>0 DEF Watch, Named, ControlState
  <2>2. ctl' = [ctl EXCEPT !.serial = ctl.serial + 1, !.chart = 0, !.desired = watch, !.phase = "replacing"]
    BY <1>1, <1>0 DEF D!SubmitWatch, ControlState
  <2> HIDE DEF watch
  <2> QED BY <1>0, <2>1, <2>2 DEF ControlState
<1>2. ASSUME NEW context \in Contexts, NEW kind \in {"local", "lease"}, D!Read(kind, context)
      PROVE  ctl' \in ControlState
  <2>1. D!Network(context) \in Networks
    BY NetworkTyped DEF Named
  <2> QED BY <1>2, <1>0, <2>1 DEF D!Read, ControlState
<1>3. ASSUME NEW context \in Contexts, D!LaunchMcp(context)
      PROVE  ctl' \in ControlState
  <2> DEFINE mcp == [context |-> context, phase |-> "starting", worker |-> TRUE, owned |-> FALSE]
  <2>1. mcp \in McpState
    BY DEF McpState, Named
  <2>2. ctl' = [ctl EXCEPT !.network = "testnet", !.mcp = mcp]
    BY <1>3 DEF D!LaunchMcp, D!Control
  <2> HIDE DEF mcp
  <2> QED BY <1>0, <2>1, <2>2, NetworkTyped DEF ControlState
<1>4. ASSUME NEW context \in Contexts, D!ReviewPolicy(context)
      PROVE  ctl' \in ControlState
  <2> DEFINE setup == [phase |-> "reviewing", job |-> "review", review |-> FALSE, retry |-> FALSE, committed |-> FALSE]
  <2>1. setup \in SetupState
    BY DEF SetupState
  <2>2. ctl' = [ctl EXCEPT !.setup = setup]
    BY <1>4 DEF D!ReviewPolicy, D!Control
  <2> HIDE DEF setup
  <2> QED BY <1>0, <2>1, <2>2 DEF ControlState
<1>5. ASSUME NEW context \in Contexts, D!LaunchConsent(context)
      PROVE  ctl' \in ControlState
  BY <1>5, <1>0, NoWatchIsWatch
     DEF D!LaunchConsent, D!Control, ControlState
<1>6. CASE D!TakeWatch
  BY <1>6, <1>0, NoWatchIsWatch
     DEF D!TakeWatch, ControlState
<1>7. CASE D!BeginReplace
  BY <1>7, <1>0, NoWatchIsWatch, ZenonT(60)
     DEF D!BeginReplace, D!Worker, D!Returned, ControlState
<1>8. CASE D!DrainLeases
  BY <1>8, <1>0, NoWatchIsWatch, ZenonT(60)
     DEF D!DrainLeases, D!Worker, ControlState
<1>9. CASE D!Bind
  <2>1. D!Network(worker.watch.context) \in Networks
    BY <1>0, NetworkTyped DEF WorkerState, Watch
  <2>2. ctl' = ctl \/ ctl' = [ctl EXCEPT !.generation = ctl.generation + 1,
                                          !.network = D!Network(worker.watch.context), !.binding = 0]
    BY <1>9, <1>0 DEF D!Bind, ControlState
  <2>3. ctl.generation + 1 \in Nat
    BY <1>0 DEF ControlState
  <2> DEFINE network == D!Network(worker.watch.context)
  <2> HIDE DEF network
  <2>4. ASSUME network \in Networks, NEW n \in Nat
        PROVE  [ctl EXCEPT !.generation = n, !.network = network, !.binding = 0] \in ControlState
    BY <1>0, <2>4 DEF ControlState
  <2> QED BY <1>0, <2>1, <2>2, <2>3, <2>4 DEF network
<1>10. CASE D!StartFeed
  <2>1. worker.watch \in Watch
    BY <1>0 DEF WorkerState
  <2> QED BY <1>10, <1>0, <2>1, ZenonT(60) DEF D!StartFeed, ControlState
<1>11. CASE D!FinishWatch
  <2>1. worker.watch \in Watch /\ worker.watch.serial \in Nat /\ feed.generation \in Nat
    BY <1>0 DEF WorkerState, FeedState, Watch
  <2>2. D!Failed(ctl) \in ControlState /\ D!BeginStop(ctl) \in ControlState
    BY StopsTaken DEF StopOf
  <2>3. \/ ctl' = [ctl EXCEPT !.selection = worker.watch, !.binding = feed.generation, !.chart = worker.watch.serial,
                             !.phase = "running"]
        \/ ctl' = [ctl EXCEPT !.phase = "running"]
        \/ ctl' \in {D!Failed(ctl), D!BeginStop(ctl), ctl}
    BY <1>11 DEF D!FinishWatch
  <2>4. [ctl EXCEPT !.phase = "running"] \in ControlState
    BY <1>0 DEF ControlState
  <2>5. [ctl EXCEPT !.selection = worker.watch, !.binding = feed.generation, !.chart = worker.watch.serial,
                    !.phase = "running"] \in ControlState
    BY <1>0, <2>1 DEF ControlState
  <2> QED BY <1>0, <2>2, <2>3, <2>4, <2>5
<1>12. CASE D!ApplyFailure
  BY <1>12, <1>0, NoWatchIsWatch, StopsTaken
     DEF D!ApplyFailure, D!FailedFeed, StopOf, ControlState
<1>13. CASE D!PollMcp
  BY <1>13, <1>0, NoWatchIsWatch, StopsTaken
     DEF D!PollMcp, D!Control, StopOf, ControlState, McpState
<1>14. CASE D!McpStarted
  <2>1. D!Failed(ctl) \in ControlState
    BY StopsTaken DEF StopOf
  <2>2. CASE D!Control([ctl EXCEPT !.mcp.worker = FALSE, !.mcp.owned = TRUE,
                                   !.mcp.phase = IF ctl.terminal THEN "stopping" ELSE "listening"])
    BY <1>0, <2>2 DEF D!Control, ControlState, McpState
  <2>3. CASE D!Control([D!Failed(ctl) EXCEPT !.mcp.worker = FALSE, !.mcp.phase = "failed"])
    BY <2>1, <2>3 DEF D!Control, ControlState, McpState
  <2> QED BY <1>14, <2>2, <2>3 DEF D!McpStarted
<1>15. CASE D!McpFails
  BY <1>15, <1>0, NoWatchIsWatch
     DEF D!McpFails, D!Control, ControlState, McpState
<1>16. CASE D!Reviewed
  <2>1. PICK ok \in BOOLEAN :
          ctl' = [ctl EXCEPT !.setup.job = D!None, !.setup.review = ok /\ ~ctl.terminal,
                             !.setup.phase = IF ctl.terminal THEN "stopped" ELSE IF ok THEN "ready" ELSE "failed"]
    BY <1>16 DEF D!Reviewed, D!Control
  <2> QED BY <1>0, <2>1 DEF ControlState, SetupState
<1>17. CASE D!PersistPolicy
  BY <1>17, <1>0, NoWatchIsWatch
     DEF D!PersistPolicy, D!Control, ControlState, SetupState
<1>18. CASE D!Persisted
  BY <1>18, <1>0, PersistEnds DEF ControlState
<1>19. CASE D!DiscardPolicy
  BY <1>19, <1>0, NoWatchIsWatch
     DEF D!DiscardPolicy, D!Control, ControlState, SetupState
<1>20. CASE D!ConsentTakesOver
  BY <1>20, <1>0, NoWatchIsWatch, StopsTaken
     DEF D!ConsentTakesOver, StopOf, ControlState
<1>21. CASE D!ConsentEnds
  BY <1>21, <1>0, NoWatchIsWatch
     DEF D!ConsentEnds, D!Control, ControlState
<1>22. CASE D!ConsentDrained
  BY <1>22, <1>0, NoWatchIsWatch, StopsTaken
     DEF D!ConsentDrained, D!Control, StopOf, ControlState
<1>23. CASE D!SetupDrained
  BY <1>23, <1>0, NoWatchIsWatch
     DEF D!SetupDrained, D!Control, ControlState
<1>24. CASE D!McpDrained
  <2>1. PICK c \in {D!Failed(ctl), ctl} :
          ctl' = [c EXCEPT !.drain = "worker", !.mcp.owned = FALSE,
                           !.mcp.phase = IF ctl.mcp.owned THEN "stopped" ELSE c.mcp.phase]
    <3>1. \/ ctl' = [ctl EXCEPT !.drain = "worker", !.mcp.owned = FALSE,
                                  !.mcp.phase = IF ctl.mcp.owned THEN "stopped" ELSE ctl.mcp.phase]
          \/ ctl' = [D!Failed(ctl) EXCEPT !.drain = "worker", !.mcp.owned = FALSE,
                                  !.mcp.phase = IF ctl.mcp.owned THEN "stopped" ELSE D!Failed(ctl).mcp.phase]
      BY <1>24 DEF D!McpDrained, D!Control
    <3> QED BY <3>1
  <2>2. c \in ControlState /\ c.mcp \in McpState
    BY <1>0, <2>1, StopsTaken DEF StopOf, ControlState
  <2> DEFINE phase == IF ctl.mcp.owned THEN "stopped" ELSE c.mcp.phase
  <2>3. [c.mcp EXCEPT !.owned = FALSE, !.phase = phase] \in McpState
    BY <2>2 DEF McpState
  <2>4. ctl' = [c EXCEPT !.drain = "worker", !.mcp = [c.mcp EXCEPT !.owned = FALSE, !.phase = phase]]
    BY <2>1, <2>2 DEF ControlState, McpState
  <2> HIDE DEF phase
  <2> QED BY <2>2, <2>3, <2>4 DEF ControlState
<1>25. CASE D!WorkerDrained
  BY <1>25, <1>0, NoWatchIsWatch
     DEF D!WorkerDrained, D!Control, ControlState
<1>26. CASE D!FeedDrained
  BY <1>26, <1>0, NoWatchIsWatch, StopsTaken
     DEF D!FeedDrained, StopOf, ControlState
<1>27. CASE D!ReadsDrained
  BY <1>27, <1>0, NoWatchIsWatch
     DEF D!ReadsDrained, D!Control, ControlState
<1>28. CASE D!BeginUpdate
  BY <1>28, <1>0, NoWatchIsWatch, StopsTaken
     DEF D!BeginUpdate, D!Program, StopOf, ControlState
<1>29. CASE D!InstallUpdate
  BY <1>29, <1>0, NoWatchIsWatch
     DEF D!InstallUpdate, D!Program, ControlState
<1>30. CASE D!RequestExit
  BY <1>30, <1>0, NoWatchIsWatch, StopsTaken
     DEF D!RequestExit, D!Program, StopOf, ControlState
<1>31. CASE UNCHANGED ctl
  BY <1>0, <1>31
<1> QED BY <1>1, <1>2, <1>3, <1>4, <1>5, <1>6, <1>7, <1>8, <1>9, <1>10, <1>11, <1>12, <1>13, <1>14, <1>15,
           <1>16, <1>17, <1>18, <1>19, <1>20, <1>21, <1>22, <1>23, <1>24, <1>25, <1>26, <1>27, <1>28, <1>29,
           <1>30, <1>31, CtlFrame

(* The other variables keep theirs. *)
LEMMA OwnersTyped ==
  ASSUME DesktopTyped, DrainHolds, D!Next
  PROVE  worker' \in WorkerState /\ feed' \in FeedState /\ reads' \in [local : Named, lease : Named]
<1>0. /\ ctl \in ControlState /\ worker \in WorkerState /\ feed \in FeedState
      /\ reads \in [local : Named, lease : Named]
  BY DEF DesktopTyped
<1>1. worker' \in WorkerState
  <2>1. ASSUME NEW context \in Contexts, NEW coin \in {1, 2}, D!SubmitWatch(context, coin)
        PROVE  worker' \in WorkerState
    BY <1>0, <2>1 DEF D!SubmitWatch, WorkerState
  <2>2. CASE D!TakeWatch
    <3>1. ctl.desired \in Watch
      BY <1>0 DEF ControlState
    <3> QED BY <1>0, <2>2, <3>1, ZenonT(60) DEF D!TakeWatch, WorkerState
  <2>3. CASE D!BeginReplace
    <3>1. \/ worker' = [worker EXCEPT !.at = "finish", !.result = "superseded"]
          \/ worker' = [worker EXCEPT !.at = "retire"]
          \/ \E first \in BOOLEAN : worker' = [worker EXCEPT !.at = "drain", !.stops = ~first]
      BY <2>3 DEF D!BeginReplace, D!Worker, D!Returned
    <3> QED BY <1>0, <3>1 DEF WorkerState
  <2>4. CASE D!DrainFeed
    <3>1. PICK broken \in BOOLEAN :
            \/ worker' = [worker EXCEPT !.at = "local", !.failed = broken]
            \/ worker' = [worker EXCEPT !.at = "bind", !.failed = broken]
      BY <2>4 DEF D!DrainFeed, D!Worker
    <3> QED BY <1>0, <3>1, ZenonT(60) DEF WorkerState
  <2>5. CASE D!DrainLocal \/ D!DrainLeases
    BY <1>0, <2>5 DEF D!DrainLocal, D!DrainLeases, D!Worker, WorkerState
  <2>6. CASE D!Bind
    BY <1>0, <2>6, ZenonT(60) DEF D!Bind, D!Worker, D!Returned, WorkerState
  <2>7. CASE D!StartFeed
    BY <1>0, <2>7, ZenonT(60) DEF D!StartFeed, D!Worker, D!Returned, WorkerState
  <2>8. CASE D!ReplaceChart
    BY <1>0, <2>8 DEF D!ReplaceChart, D!Worker, D!Returned, WorkerState
  <2>9. CASE D!FinishWatch
    BY <1>0, <2>9, NoWatchIsWatch DEF D!FinishWatch, WorkerState
  <2> QED BY <1>0, <2>1, <2>2, <2>3, <2>4, <2>5, <2>6, <2>7, <2>8, <2>9, WorkerFrame
<1>2. feed' \in FeedState
  <2>1. D!NoFeed \in FeedState
    BY DEF D!NoFeed, FeedState, Named
  <2>2. CASE D!DrainFeed \/ D!ConsentTakesOver \/ D!FeedDrained
    BY <2>1, <2>2 DEF D!DrainFeed, D!ConsentTakesOver, D!FeedDrained
  <2>3. CASE D!StartFeed
    <3>1. worker.watch.context \in Named /\ ctl.generation \in Nat
      BY <1>0 DEF ControlState, WorkerState, Watch
    <3>2. feed' = feed \/ feed' = [context |-> worker.watch.context, generation |-> ctl.generation, failed |-> FALSE]
      BY <2>3 DEF D!StartFeed
    <3>3. [context |-> worker.watch.context, generation |-> ctl.generation, failed |-> FALSE] \in FeedState
      BY <3>1 DEF FeedState
    <3> QED BY <1>0, <3>2, <3>3
  <2>4. CASE D!FeedFails
    BY <1>0, <2>4 DEF D!FeedFails, FeedState
  <2> QED BY <1>0, <2>2, <2>3, <2>4, FeedFrame
<1>3. reads' \in [local : Named, lease : Named]
  <2>1. ASSUME NEW kind \in {"local", "lease"}, NEW context \in Contexts, D!Read(kind, context)
        PROVE  reads' \in [local : Named, lease : Named]
    BY <1>0, <2>1 DEF D!Read, Named
  <2>2. ASSUME NEW kind \in {"local", "lease"}, D!ReadEnds(kind)
        PROVE  reads' \in [local : Named, lease : Named]
    BY <1>0, <2>2 DEF D!ReadEnds, Named
  <2> QED BY <1>0, <2>1, <2>2, ReadsFrame
<1> QED BY <1>1, <1>2, <1>3

(* The types are kept. *)
LEMMA DesktopTypedStep ==
  ASSUME DesktopTyped, DrainHolds, D!Next
  PROVE  DesktopTyped'
<1>1. program' \in [update : {D!None, "waiting", "installed", "dropped"}, exit : {D!None, "waiting", "exited"}]
  <2>0. program \in [update : {D!None, "waiting", "installed", "dropped"}, exit : {D!None, "waiting", "exited"}]
    BY DEF DesktopTyped
  <2>1. CASE D!BeginUpdate \/ D!RequestExit \/ D!Exit
    BY <2>0, <2>1 DEF D!BeginUpdate, D!RequestExit, D!Exit, D!Program
  <2>2. CASE D!InstallUpdate
    BY <2>0, <2>2 DEF D!InstallUpdate, D!Program
  <2> QED BY <2>0, <2>1, <2>2, ProgramFrame
<1>2. captured' \in Nat
  BY CapturedFrame DEF DesktopTyped, D!CaptureFailure, D!ApplyFailure, FeedState
<1>3. reopened' \in BOOLEAN
  BY ReopenedFrame DEF DesktopTyped, D!FinishWatch
<1> QED BY <1>1, <1>2, <1>3, ControlTyped, OwnersTyped DEF DesktopTyped

(* A named context is on a network, and the testnet is one. *)
LEMMA NetworkNamed ==
  /\ \A c \in Contexts : c # D!None /\ D!Network(c) # D!None /\ (c \in Testnet => D!Network(c) = "testnet")
  /\ \A c \in Named : c # D!None => D!Network(c) # D!None
BY ContextsAreNamed DEF D!Network, D!None, Named

(* What installing a watch leaves alone *)
Kept(c, d) ==
  /\ d.terminal = c.terminal /\ d.drain = c.drain /\ d.serial = c.serial /\ d.consent = c.consent
  /\ d.mcp = c.mcp /\ d.setup = c.setup

(* The worker takes the pending watch, or ends. *)
LEMMA TakeWatchDoes ==
  ASSUME DesktopTyped, D!TakeWatch
  PROVE  /\ worker.at = "loop"
         /\ feed' = feed /\ reads' = reads /\ program' = program /\ reopened' = reopened
         /\ \/ /\ ctl.terminal \/ ctl.desired = D!NoWatch
               /\ Kept(ctl, ctl')
               /\ ctl'.phase = ctl.phase /\ ctl'.network = ctl.network /\ ctl'.generation = ctl.generation
               /\ ctl'.binding = ctl.binding /\ ctl'.account = ctl.account /\ ctl'.selection = ctl.selection
               /\ ctl'.desired = ctl.desired /\ worker'.at = "idle" /\ worker'.watch = worker.watch
               /\ worker'.stops = worker.stops /\ worker'.result = worker.result
            \/ /\ ~ctl.terminal /\ ctl.desired # D!NoWatch
               /\ Kept(ctl, ctl')
               /\ ctl'.phase = ctl.phase /\ ctl'.network = ctl.network /\ ctl'.generation = ctl.generation
               /\ ctl'.binding = ctl.binding /\ ctl'.account = ctl.account /\ ctl'.selection = ctl.selection
               /\ ctl'.desired = D!NoWatch /\ worker'.at = "begin" /\ worker'.watch = ctl.desired
               /\ worker'.stops = worker.stops /\ worker'.result = D!None
<1>1. ctl \in ControlState /\ worker \in WorkerState /\ feed \in FeedState
  BY DEF DesktopTyped
<1>2. CASE ctl.terminal \/ ctl.desired = D!NoWatch
  BY <1>1, <1>2 DEF D!TakeWatch, WorkerState, Kept
<1>3. CASE ~(ctl.terminal \/ ctl.desired = D!NoWatch)
  <2>1. /\ worker' = [worker EXCEPT !.at = "begin", !.watch = ctl.desired, !.failed = FALSE, !.result = D!None]
        /\ ctl' = [ctl EXCEPT !.desired = D!NoWatch]
    BY <1>3 DEF D!TakeWatch
  <2>2. /\ worker'.at = "begin" /\ worker'.watch = ctl.desired
        /\ worker'.stops = worker.stops /\ worker'.result = D!None
    BY <1>1, <2>1 DEF WorkerState
  <2>3. /\ Kept(ctl, ctl') /\ ctl'.desired = D!NoWatch
        /\ ctl'.phase = ctl.phase /\ ctl'.network = ctl.network /\ ctl'.generation = ctl.generation
        /\ ctl'.binding = ctl.binding /\ ctl'.account = ctl.account /\ ctl'.selection = ctl.selection
    BY <1>1, <2>1 DEF ControlState, Kept
  <2> QED BY <1>3, <2>2, <2>3 DEF D!TakeWatch
<1> QED BY <1>2, <1>3

(* It keeps the feed of its own account, and its reads if it is the first. *)
LEMMA BeginReplaceDoes ==
  ASSUME DesktopTyped, D!BeginReplace
  PROVE  /\ worker.at = "begin"
         /\ feed' = feed /\ reads' = reads /\ program' = program /\ reopened' = reopened
         /\ \/ /\ Kept(ctl, ctl')
               /\ ctl'.phase = ctl.phase /\ ctl'.network = ctl.network /\ ctl'.generation = ctl.generation
               /\ ctl'.binding = ctl.binding /\ ctl'.account = ctl.account /\ ctl'.selection = ctl.selection
               /\ ctl'.desired = ctl.desired /\ worker'.at = "finish" /\ worker'.watch = worker.watch
               /\ worker'.stops = worker.stops /\ worker'.result = "superseded"
            \/ /\ ctl.selection.context = worker.watch.context /\ feed # D!NoFeed
               /\ Kept(ctl, ctl')
               /\ ctl'.phase = ctl.phase /\ ctl'.network = ctl.network /\ ctl'.generation = ctl.generation
               /\ ctl'.binding = ctl.binding /\ ctl'.account = ctl.account /\ ctl'.selection = ctl.selection
               /\ ctl'.desired = ctl.desired /\ worker'.at = "retire" /\ worker'.watch = worker.watch
               /\ worker'.stops = worker.stops /\ worker'.result = worker.result
            \/ /\ ~worker'.stops => ctl.network \in {D!None, D!Network(worker.watch.context)}
               /\ Kept(ctl, ctl')
               /\ ctl'.phase = ctl.phase /\ ctl'.network = ctl.network /\ ctl'.generation = ctl.generation
               /\ ctl'.binding = ctl.binding /\ ctl'.account = ctl.account /\ ctl'.selection = ctl.selection
               /\ ctl'.desired = ctl.desired /\ worker'.at = "drain" /\ worker'.watch = worker.watch
               /\ worker'.result = worker.result
<1>1. ctl \in ControlState /\ worker \in WorkerState /\ feed \in FeedState
  BY DEF DesktopTyped
<1>2. \/ worker' = [worker EXCEPT !.at = "finish", !.result = "superseded"] /\ ctl' = ctl
      \/ /\ ctl.selection.context = worker.watch.context /\ feed # D!NoFeed
         /\ worker' = [worker EXCEPT !.at = "retire"] /\ ctl' = ctl
      \/ \E first, opened \in BOOLEAN :
           /\ first => ctl.network \in {D!None, D!Network(worker.watch.context)}
           /\ worker' = [worker EXCEPT !.at = "drain", !.stops = ~first]
           /\ ctl' = [ctl EXCEPT !.reading = opened]
  <2> DEFINE first == feed = D!NoFeed /\ ctl.selection = D!NoWatch
                      /\ ctl.network \in {D!None, D!Network(worker.watch.context)}
  <2>1. first \in BOOLEAN /\ (ctl.reading /\ first) \in BOOLEAN
    OBVIOUS
  <2>2. \/ worker' = [worker EXCEPT !.at = "finish", !.result = "superseded"] /\ ctl' = ctl
        \/ /\ ctl.selection.context = worker.watch.context /\ feed # D!NoFeed
           /\ worker' = [worker EXCEPT !.at = "retire"] /\ ctl' = ctl
        \/ /\ worker' = [worker EXCEPT !.at = "drain", !.stops = ~first]
           /\ ctl' = [ctl EXCEPT !.reading = ctl.reading /\ first]
    BY DEF D!BeginReplace, D!Worker, D!Returned
  <2>3. first => ctl.network \in {D!None, D!Network(worker.watch.context)}
    OBVIOUS
  <2> HIDE DEF first
  <2> QED BY <2>1, <2>2, <2>3
<1>3. /\ worker.at = "begin" /\ feed' = feed /\ reads' = reads /\ program' = program /\ reopened' = reopened
  BY DEF D!BeginReplace, D!Worker
<1>4. CASE worker' = [worker EXCEPT !.at = "finish", !.result = "superseded"] /\ ctl' = ctl
  BY <1>1, <1>3, <1>4 DEF WorkerState, Kept
<1>5. CASE /\ ctl.selection.context = worker.watch.context /\ feed # D!NoFeed
           /\ worker' = [worker EXCEPT !.at = "retire"] /\ ctl' = ctl
  BY <1>1, <1>3, <1>5 DEF WorkerState, Kept
<1>6. ASSUME NEW first \in BOOLEAN, NEW opened \in BOOLEAN,
             first => ctl.network \in {D!None, D!Network(worker.watch.context)},
             worker' = [worker EXCEPT !.at = "drain", !.stops = ~first],
             ctl' = [ctl EXCEPT !.reading = opened]
      PROVE  /\ Kept(ctl, ctl')
             /\ ctl'.phase = ctl.phase /\ ctl'.network = ctl.network /\ ctl'.generation = ctl.generation
             /\ ctl'.binding = ctl.binding /\ ctl'.account = ctl.account
             /\ ctl'.selection = ctl.selection /\ ctl'.desired = ctl.desired
             /\ worker'.at = "drain" /\ worker'.watch = worker.watch /\ worker'.result = worker.result
             /\ ~worker'.stops => ctl.network \in {D!None, D!Network(worker.watch.context)}
  <2>1. worker'.at = "drain" /\ worker'.watch = worker.watch /\ worker'.result = worker.result /\ worker'.stops = ~first
    BY <1>1, <1>6 DEF WorkerState
  <2>2. /\ Kept(ctl, ctl')
        /\ ctl'.phase = ctl.phase /\ ctl'.network = ctl.network /\ ctl'.generation = ctl.generation
        /\ ctl'.binding = ctl.binding /\ ctl'.account = ctl.account
        /\ ctl'.selection = ctl.selection /\ ctl'.desired = ctl.desired
    BY <1>1, <1>6 DEF ControlState, Kept
  <2> QED BY <1>6, <2>1, <2>2
<1> QED BY <1>2, <1>3, <1>4, <1>5, <1>6

(* The previous feed is joined. *)
LEMMA DrainFeedDoes ==
  ASSUME DesktopTyped, D!DrainFeed
  PROVE  /\ worker.at = "drain" /\ feed' = D!NoFeed
         /\ reads' = reads /\ program' = program /\ reopened' = reopened
         /\ Kept(ctl, ctl')
         /\ ctl'.phase = ctl.phase /\ ctl'.network = ctl.network /\ ctl'.generation = ctl.generation
         /\ ctl'.binding = ctl.binding /\ ctl'.account = ctl.account /\ ctl'.selection = ctl.selection
         /\ ctl'.desired = ctl.desired /\ worker'.at = IF worker.stops THEN "local" ELSE "bind"
         /\ worker'.watch = worker.watch /\ worker'.stops = worker.stops
         /\ worker'.result = worker.result
<1>1. ctl \in ControlState /\ worker \in WorkerState /\ feed \in FeedState
  BY DEF DesktopTyped
<1>2. \E b \in BOOLEAN : worker' = IF worker.stops THEN [worker EXCEPT !.at = "local", !.failed = b]
                                              ELSE [worker EXCEPT !.at = "bind", !.failed = b]
  BY DEF D!DrainFeed, D!Worker
<1>3. /\ worker.at = "drain" /\ feed' = D!NoFeed /\ ctl' = ctl
      /\ reads' = reads /\ program' = program /\ reopened' = reopened
  BY DEF D!DrainFeed, D!Worker
<1> QED BY <1>1, <1>2, <1>3 DEF WorkerState, Kept

(* The local reads are joined. *)
LEMMA DrainLocalDoes ==
  ASSUME DesktopTyped, D!DrainLocal
  PROVE  /\ worker.at = "local" /\ reads.local = D!None
         /\ feed' = feed /\ reads' = reads /\ program' = program /\ reopened' = reopened
         /\ Kept(ctl, ctl')
         /\ ctl'.phase = ctl.phase /\ ctl'.network = ctl.network /\ ctl'.generation = ctl.generation
         /\ ctl'.binding = ctl.binding /\ ctl'.account = ctl.account /\ ctl'.selection = ctl.selection
         /\ ctl'.desired = ctl.desired /\ worker'.at = "lease" /\ worker'.watch = worker.watch
         /\ worker'.stops = worker.stops /\ worker'.result = worker.result
<1>1. ctl \in ControlState /\ worker \in WorkerState /\ feed \in FeedState
  BY DEF DesktopTyped
<1> QED BY <1>1 DEF D!DrainLocal, D!Quiet, D!Worker, ControlState, WorkerState, Kept

(* So are the leased ones. *)
LEMMA DrainLeasesDoes ==
  ASSUME DesktopTyped, D!DrainLeases
  PROVE  /\ worker.at = "lease" /\ reads.lease = D!None
         /\ feed' = feed /\ reads' = reads /\ program' = program /\ reopened' = reopened
         /\ Kept(ctl, ctl')
         /\ ctl'.phase = ctl.phase /\ ctl'.network = ctl.network /\ ctl'.generation = ctl.generation
         /\ ctl'.binding = ctl.binding /\ ctl'.account = ctl.account /\ ctl'.selection = ctl.selection
         /\ ctl'.desired = ctl.desired /\ worker'.at = "bind" /\ worker'.watch = worker.watch
         /\ worker'.stops = worker.stops /\ worker'.result = worker.result
<1>1. ctl \in ControlState /\ worker \in WorkerState /\ feed \in FeedState
  BY DEF DesktopTyped
<1> QED BY <1>1 DEF D!DrainLeases, D!Quiet, D!Worker, ControlState, WorkerState, Kept

(* The network is the one of the watch. *)
LEMMA BindDoes ==
  ASSUME DesktopTyped, D!Bind
  PROVE  /\ worker.at = "bind"
         /\ feed' = feed /\ reads' = reads /\ program' = program /\ reopened' = reopened
         /\ \/ /\ Kept(ctl, ctl')
               /\ ctl'.phase = ctl.phase /\ ctl'.network = ctl.network /\ ctl'.generation = ctl.generation
               /\ ctl'.binding = ctl.binding /\ ctl'.account = ctl.account /\ ctl'.selection = ctl.selection
               /\ ctl'.desired = ctl.desired /\ worker'.at = "finish" /\ worker'.watch = worker.watch
               /\ worker'.stops = worker.stops /\ worker'.result \in {"failed", "superseded"}
            \/ /\ Kept(ctl, ctl')
               /\ ctl'.phase = ctl.phase /\ ctl'.network = D!Network(worker.watch.context)
               /\ ctl'.generation = ctl.generation + 1 /\ ctl'.binding = 0 /\ ctl'.account = ctl.account
               /\ ctl'.selection = ctl.selection /\ ctl'.desired = ctl.desired /\ worker'.at = "start"
               /\ worker'.watch = worker.watch /\ worker'.stops = worker.stops
               /\ worker'.result = worker.result
<1>1. ctl \in ControlState /\ worker \in WorkerState /\ feed \in FeedState
  BY DEF DesktopTyped
<1>2. /\ worker.at = "bind" /\ feed' = feed /\ reads' = reads /\ program' = program /\ reopened' = reopened
  BY DEF D!Bind, D!Worker
<1>3. \/ ctl' = ctl /\ \E r \in {"failed", "superseded"} : worker' = [worker EXCEPT !.at = "finish", !.result = r]
      \/ /\ worker' = [worker EXCEPT !.at = "start"]
         /\ ctl' = [ctl EXCEPT !.generation = ctl.generation + 1, !.network = D!Network(worker.watch.context),
                              !.binding = 0]
  BY DEF D!Bind, D!Worker, D!Returned
<1>4. CASE ctl' = ctl /\ \E r \in {"failed", "superseded"} : worker' = [worker EXCEPT !.at = "finish", !.result = r]
  BY <1>1, <1>2, <1>4 DEF WorkerState, Kept
<1>5. CASE /\ worker' = [worker EXCEPT !.at = "start"]
           /\ ctl' = [ctl EXCEPT !.generation = ctl.generation + 1, !.network = D!Network(worker.watch.context),
                                !.binding = 0]
  <2>1. worker'.at = "start" /\ worker'.watch = worker.watch /\ worker'.stops = worker.stops
        /\ worker'.result = worker.result
    BY <1>1, <1>5 DEF WorkerState
  <2>2. /\ Kept(ctl, ctl') /\ ctl'.phase = ctl.phase /\ ctl'.network = D!Network(worker.watch.context)
        /\ ctl'.generation = ctl.generation + 1 /\ ctl'.binding = 0 /\ ctl'.account = ctl.account
        /\ ctl'.selection = ctl.selection /\ ctl'.desired = ctl.desired
    BY <1>1, <1>5 DEF ControlState, Kept
  <2> QED BY <1>2, <2>1, <2>2
<1> QED BY <1>3, <1>4, <1>5

(* A feed is installed, or none was started. *)
LEMMA StartFeedDoes ==
  ASSUME DesktopTyped, D!StartFeed
  PROVE  /\ worker.at = "start"
         /\ reads' = reads /\ program' = program /\ reopened' = reopened
         /\ \/ /\ feed'.context = worker.watch.context /\ feed'.generation = ctl.generation
               /\ Kept(ctl, ctl')
               /\ ctl'.phase = ctl.phase /\ ctl'.network = ctl.network /\ ctl'.generation = ctl.generation
               /\ ctl'.binding = ctl.generation /\ ctl'.account = ctl.generation
               /\ ctl'.selection = worker.watch /\ ctl'.desired = ctl.desired
               /\ worker'.at \in {"retire", "finish"} /\ worker'.watch = worker.watch
               /\ worker'.stops = worker.stops
               /\ worker'.at = "finish" => worker'.result = "superseded"
            \/ /\ feed' = feed
               /\ Kept(ctl, ctl')
               /\ ctl'.phase = ctl.phase /\ ctl'.network = ctl.network /\ ctl'.generation = ctl.generation
               /\ ctl'.binding = ctl.binding /\ ctl'.account = ctl.account /\ ctl'.selection = ctl.selection
               /\ ctl'.desired = ctl.desired /\ worker'.at = "finish" /\ worker'.watch = worker.watch
               /\ worker'.stops = worker.stops /\ worker'.result = "failed"
<1>1. ctl \in ControlState /\ worker \in WorkerState /\ feed \in FeedState
  BY DEF DesktopTyped
<1>2. worker.at = "start" /\ reads' = reads /\ program' = program /\ reopened' = reopened
  BY DEF D!StartFeed, D!Worker
<1>3. \/ /\ feed' = [context |-> worker.watch.context, generation |-> ctl.generation, failed |-> FALSE]
         /\ ctl' = [ctl EXCEPT !.account = ctl.generation, !.selection = worker.watch, !.binding = ctl.generation]
         /\ worker' \in {[worker EXCEPT !.at = "finish", !.result = "superseded"], [worker EXCEPT !.at = "retire"]}
      \/ ctl' = ctl /\ feed' = feed /\ worker' = [worker EXCEPT !.at = "finish", !.result = "failed"]
  BY DEF D!StartFeed, D!Worker, D!Returned
<1>4. CASE /\ feed' = [context |-> worker.watch.context, generation |-> ctl.generation, failed |-> FALSE]
           /\ ctl' = [ctl EXCEPT !.account = ctl.generation, !.selection = worker.watch, !.binding = ctl.generation]
           /\ worker' \in {[worker EXCEPT !.at = "finish", !.result = "superseded"], [worker EXCEPT !.at = "retire"]}
  <2>1. /\ worker'.at \in {"retire", "finish"} /\ worker'.watch = worker.watch /\ worker'.stops = worker.stops
        /\ worker'.at = "finish" => worker'.result = "superseded"
    BY <1>1, <1>4 DEF WorkerState
  <2>2. /\ Kept(ctl, ctl') /\ ctl'.phase = ctl.phase /\ ctl'.network = ctl.network
        /\ ctl'.generation = ctl.generation /\ ctl'.binding = ctl.generation
        /\ ctl'.account = ctl.generation /\ ctl'.selection = worker.watch /\ ctl'.desired = ctl.desired
    BY <1>1, <1>4 DEF ControlState, Kept
  <2>3. feed'.context = worker.watch.context /\ feed'.generation = ctl.generation
    BY <1>4
  <2> QED BY <1>2, <2>1, <2>2, <2>3
<1>5. CASE ctl' = ctl /\ feed' = feed /\ worker' = [worker EXCEPT !.at = "finish", !.result = "failed"]
  BY <1>1, <1>2, <1>5 DEF WorkerState, Kept
<1> QED BY <1>3, <1>4, <1>5

(* The chart is replaced, or is not. *)
LEMMA ReplaceChartDoes ==
  ASSUME DesktopTyped, D!ReplaceChart
  PROVE  /\ worker.at = "retire"
         /\ feed' = feed /\ reads' = reads /\ program' = program /\ reopened' = reopened
         /\ Kept(ctl, ctl')
         /\ ctl'.phase = ctl.phase /\ ctl'.network = ctl.network /\ ctl'.generation = ctl.generation
         /\ ctl'.binding = ctl.binding /\ ctl'.account = ctl.account /\ ctl'.selection = ctl.selection
         /\ ctl'.desired = ctl.desired /\ worker'.at = "finish" /\ worker'.watch = worker.watch
         /\ worker'.stops = worker.stops /\ worker'.result \in {"superseded", "installed", "no_chart"}
<1>1. ctl \in ControlState /\ worker \in WorkerState /\ feed \in FeedState
  BY DEF DesktopTyped
<1>2. \E r \in {"superseded", "installed", "no_chart"} : worker' = [worker EXCEPT !.at = "finish", !.result = r]
  <2>1. \/ worker' = [worker EXCEPT !.at = "finish", !.result = IF D!Superseded THEN "superseded" ELSE "installed"]
        \/ worker' = [worker EXCEPT !.at = "finish", !.result = "no_chart"]
    BY DEF D!ReplaceChart, D!Worker, D!Returned
  <2> QED BY <2>1
<1>3. worker.at = "retire" /\ ctl' = ctl /\ feed' = feed /\ reads' = reads /\ program' = program /\ reopened' = reopened
  BY DEF D!ReplaceChart, D!Worker
<1> QED BY <1>1, <1>2, <1>3 DEF WorkerState, Kept

(* A watch is settled: installed, without a chart, or the runtime stops. *)
LEMMA FinishWatchDoes ==
  ASSUME DesktopTyped, DrainHolds, D!FinishWatch
  PROVE  /\ worker.at = "finish" /\ worker'.at = "loop" /\ worker'.watch = D!NoWatch
         /\ worker'.stops = worker.stops
         /\ feed' = feed /\ reads' = reads /\ program' = program
         /\ \/ /\ worker.result = "installed" /\ ~ctl.terminal /\ ctl.serial = worker.watch.serial
               /\ Kept(ctl, ctl') /\ reopened' = reopened
               /\ ctl'.phase = "running" /\ ctl'.network = ctl.network /\ ctl'.generation = ctl.generation
               /\ ctl'.binding = feed.generation /\ ctl'.account = ctl.account
               /\ ctl'.selection = worker.watch /\ ctl'.desired = ctl.desired
            \/ /\ worker.result = "no_chart" /\ ~ctl.terminal
               /\ Kept(ctl, ctl') /\ reopened' = (reopened \/ ctl.desired # D!NoWatch)
               /\ ctl'.phase = "running" /\ ctl'.network = ctl.network /\ ctl'.generation = ctl.generation
               /\ ctl'.binding = ctl.binding /\ ctl'.account = ctl.account
               /\ ctl'.selection = ctl.selection /\ ctl'.desired = ctl.desired
            \/ StopOf(ctl, ctl') /\ reopened' = reopened
            \/ ctl' = ctl /\ reopened' = reopened
<1>1. ctl \in ControlState /\ worker \in WorkerState /\ feed \in FeedState /\ reopened \in BOOLEAN
  BY DEF DesktopTyped
<1>2. StopOf(ctl, D!Failed(ctl)) /\ StopOf(ctl, D!BeginStop(ctl))
  BY StopsTaken
<1>3. /\ worker.at = "finish" /\ feed' = feed /\ reads' = reads /\ program' = program
      /\ worker' = [worker EXCEPT !.at = "loop", !.watch = D!NoWatch, !.result = D!None]
      /\ reopened' = (reopened \/ (worker.result = "no_chart" /\ ~ctl.terminal /\ ctl.desired # D!NoWatch))
  BY DEF D!FinishWatch
<1>4. worker'.at = "loop" /\ worker'.watch = D!NoWatch /\ worker'.stops = worker.stops
  BY <1>1, <1>3 DEF WorkerState
<1>5. CASE worker.result = "installed" /\ ~D!Superseded
  <2>1. ctl' = [ctl EXCEPT !.selection = worker.watch, !.binding = feed.generation, !.chart = worker.watch.serial,
                           !.phase = "running"]
    BY <1>5 DEF D!FinishWatch
  <2>2. /\ Kept(ctl, ctl') /\ ctl'.phase = "running" /\ ctl'.network = ctl.network
        /\ ctl'.generation = ctl.generation /\ ctl'.binding = feed.generation
        /\ ctl'.account = ctl.account /\ ctl'.selection = worker.watch /\ ctl'.desired = ctl.desired
    BY <1>1, <2>1 DEF ControlState, Kept
  <2>3. ~ctl.terminal /\ ctl.serial = worker.watch.serial /\ reopened' = reopened
    BY <1>1, <1>3, <1>5 DEF D!Superseded
  <2> QED BY <1>3, <1>4, <1>5, <2>2, <2>3
<1>6. CASE worker.result = "no_chart" /\ ~ctl.terminal
  <2>1. ctl' = [ctl EXCEPT !.phase = "running"]
    BY <1>6 DEF D!FinishWatch
  <2>2. /\ Kept(ctl, ctl') /\ ctl'.phase = "running" /\ ctl'.network = ctl.network
        /\ ctl'.generation = ctl.generation /\ ctl'.binding = ctl.binding
        /\ ctl'.account = ctl.account /\ ctl'.selection = ctl.selection /\ ctl'.desired = ctl.desired
    BY <1>1, <2>1 DEF ControlState, Kept
  <2>3. reopened' = (reopened \/ ctl.desired # D!NoWatch)
    BY <1>3, <1>6
  <2> QED BY <1>3, <1>4, <1>6, <2>2, <2>3
<1>7. CASE ~(worker.result = "installed" /\ ~D!Superseded) /\ ~(worker.result = "no_chart" /\ ~ctl.terminal)
  <2>1. ctl' = D!Failed(ctl) \/ ctl' = D!BeginStop(ctl) \/ ctl' = ctl
    BY <1>7 DEF D!FinishWatch
  <2>2. reopened' = reopened
    BY <1>1, <1>3, <1>7
  <2> QED BY <1>2, <1>3, <1>4, <2>1, <2>2
<1> QED BY <1>5, <1>6, <1>7

(* What a step of the MCP owner's task leaves of the control it began from *)
McpKept(c, d) ==
  /\ d.terminal = c.terminal /\ d.phase = c.phase /\ d.network = c.network
  /\ d.generation = c.generation /\ d.serial = c.serial /\ d.binding = c.binding
  /\ d.account = c.account /\ d.selection = c.selection /\ d.desired = c.desired
  /\ d.consent = c.consent /\ d.setup = c.setup /\ d.mcp.context = c.mcp.context

(* The MCP owner is there, or the runtime stops. *)
LEMMA McpStartedDoes ==
  ASSUME DesktopTyped, DrainHolds, D!McpStarted
  PROVE  /\ worker' = worker /\ feed' = feed /\ reads' = reads /\ program' = program /\ reopened' = reopened
         /\ ctl.mcp.worker /\ ~ctl'.mcp.worker
         /\ \E c \in ControlState : /\ c = ctl \/ StopOf(ctl, c)
                                    /\ McpKept(c, ctl') /\ ctl'.drain = c.drain
<1>1. ctl \in ControlState
  BY DEF DesktopTyped
<1>2. StopOf(ctl, D!Failed(ctl)) /\ D!Failed(ctl) \in ControlState
  BY StopsTaken DEF StopOf
<1>3. /\ worker' = worker /\ feed' = feed /\ reads' = reads /\ program' = program /\ reopened' = reopened
      /\ ctl.mcp.worker
  BY DEF D!McpStarted, D!Control
<1>4. CASE ctl' = [ctl EXCEPT !.mcp.worker = FALSE, !.mcp.owned = TRUE,
                              !.mcp.phase = IF ctl.terminal THEN "stopping" ELSE "listening"]
  <2>1. ~ctl'.mcp.worker /\ McpKept(ctl, ctl') /\ ctl'.drain = ctl.drain
    BY <1>1, <1>4 DEF ControlState, McpState, McpKept
  <2> QED BY <1>1, <1>3, <2>1
<1>5. CASE ctl' = [D!Failed(ctl) EXCEPT !.mcp.worker = FALSE, !.mcp.phase = "failed"]
  <2>1. ~ctl'.mcp.worker /\ McpKept(D!Failed(ctl), ctl') /\ ctl'.drain = D!Failed(ctl).drain
    BY <1>2, <1>5 DEF ControlState, McpState, McpKept
  <2> QED BY <1>2, <1>3, <2>1
<1> QED BY <1>4, <1>5 DEF D!McpStarted, D!Control

(* The MCP owner is joined. *)
LEMMA McpDrainedDoes ==
  ASSUME DesktopTyped, DrainHolds, D!McpDrained
  PROVE  /\ worker' = worker /\ feed' = feed /\ reads' = reads /\ program' = program /\ reopened' = reopened
         /\ ctl.drain = "mcp" /\ ctl'.drain = "worker" /\ ~ctl'.mcp.worker /\ ~ctl'.mcp.owned
         /\ \E c \in ControlState : (c = ctl \/ StopOf(ctl, c)) /\ McpKept(c, ctl')
<1>1. ctl \in ControlState /\ ctl.mcp \in McpState
  BY DEF DesktopTyped, ControlState
<1>2. StopOf(ctl, D!Failed(ctl)) /\ D!Failed(ctl) \in ControlState
  BY StopsTaken DEF StopOf
<1>3. /\ worker' = worker /\ feed' = feed /\ reads' = reads /\ program' = program /\ reopened' = reopened
      /\ ctl.drain = "mcp" /\ ~ctl.mcp.worker
  BY DEF D!McpDrained, D!Control
<1>4. \/ ctl' = [ctl EXCEPT !.drain = "worker", !.mcp.owned = FALSE,
                            !.mcp.phase = IF ctl.mcp.owned THEN "stopped" ELSE ctl.mcp.phase]
      \/ ctl' = [D!Failed(ctl) EXCEPT !.drain = "worker", !.mcp.owned = FALSE,
                            !.mcp.phase = IF ctl.mcp.owned THEN "stopped" ELSE D!Failed(ctl).mcp.phase]
  BY DEF D!McpDrained, D!Control
<1>5. PICK c \in ControlState, phase \in {"stopped", ctl.mcp.phase, D!Failed(ctl).mcp.phase} :
        /\ c = ctl \/ StopOf(ctl, c)
        /\ ctl' = [c EXCEPT !.drain = "worker", !.mcp.owned = FALSE, !.mcp.phase = phase]
  BY <1>1, <1>2, <1>4
<1>6. ctl'.drain = "worker" /\ ~ctl'.mcp.owned /\ McpKept(c, ctl') /\ ctl'.mcp.worker = c.mcp.worker
  BY <1>5 DEF ControlState, McpState, McpKept
<1>7. ~c.mcp.worker
  BY <1>3, <1>5 DEF StopOf
<1> QED BY <1>3, <1>5, <1>6, <1>7

(* A stage of the drain begins only when the one before it joined its     *)
(* owners, and nothing is admitted again after it (drain, begin_stop).     *)
LEMMA DrainStep ==
  ASSUME DesktopInv, D!Next
  PROVE  DrainHolds'
<1>0. /\ ctl \in ControlState /\ worker \in WorkerState /\ feed \in FeedState
      /\ reads \in [local : Named, lease : Named]
  BY DEF DesktopInv, DesktopTyped
<1>a. DrainHolds /\ SetupHolds /\ WatchesOrdered /\ FeedHolds
  BY DEF DesktopInv
<1>t. DesktopTyped /\ DrainHolds /\ DesktopTyped'
  BY DesktopTypedStep DEF DesktopInv
<1>s. /\ StopOf(ctl, D!Failed(ctl)) /\ StopOf(ctl, D!BeginStop(ctl))
      /\ \A m \in {"update", "exit"} : StopOf(ctl, D!BeginStop([ctl EXCEPT !.mode = m]))
  BY StopsTaken DEF DesktopInv
<1>1. ASSUME NEW context \in Contexts, NEW coin \in {1, 2}, D!SubmitWatch(context, coin)
      PROVE  DrainHolds'
  BY <1>1, <1>0, <1>a
     DEF D!SubmitWatch, D!SetupBusy, D!ConsentOwned, D!None, DrainHolds, D!Ended, D!NoFeed, SetupHolds,
         WatchesOrdered, FeedHolds, ControlState, WorkerState
<1>2. ASSUME NEW context \in Contexts, NEW kind \in {"local", "lease"}, D!Read(kind, context)
      PROVE  DrainHolds'
  BY <1>2, <1>0, <1>a
     DEF D!Read, D!Admits, D!None, DrainHolds, D!Ended, D!NoFeed, SetupHolds, WatchesOrdered, FeedHolds,
         ControlState
<1>3. ASSUME NEW context \in Contexts, D!LaunchMcp(context)
      PROVE  DrainHolds'
  BY <1>3, <1>0, <1>a
     DEF D!LaunchMcp, D!Admits, D!None, D!SetupBusy, D!ConsentOwned, D!SelectionAgrees, D!NoWatch,
         D!Control, DrainHolds, D!Ended, D!NoFeed, SetupHolds, WatchesOrdered, FeedHolds, ControlState,
         McpState
<1>4. ASSUME NEW context \in Contexts, D!ReviewPolicy(context)
      PROVE  DrainHolds'
  BY <1>4, <1>0, <1>a
     DEF D!ReviewPolicy, D!SetupAdmits, D!None, D!NoWatch, D!SetupBusy, D!ConsentOwned, D!SelectionAgrees,
         D!Control, DrainHolds, D!Ended, D!NoFeed, SetupHolds, WatchesOrdered, FeedHolds, ControlState,
         SetupState
<1>5. ASSUME NEW context \in Contexts, D!LaunchConsent(context)
      PROVE  DrainHolds'
  BY <1>5, <1>0, <1>a
     DEF D!LaunchConsent, D!SetupAdmits, D!None, D!NoWatch, D!SetupBusy, D!ConsentOwned, D!SelectionAgrees,
         D!Control, DrainHolds, D!Ended, D!NoFeed, SetupHolds, WatchesOrdered, FeedHolds, ControlState
<1>6. CASE D!TakeWatch
  BY <1>6, <1>0, <1>a, <1>t, TakeWatchDoes
     DEF DrainHolds, D!Ended, D!None, D!NoFeed, SetupHolds, WatchesOrdered, FeedHolds, Kept
<1>7. CASE D!BeginReplace
  BY <1>7, <1>0, <1>a, <1>t, BeginReplaceDoes
     DEF DrainHolds, D!Ended, D!None, D!NoFeed, SetupHolds, WatchesOrdered, FeedHolds, Kept
<1>8. CASE D!DrainFeed
  BY <1>8, <1>0, <1>a, <1>t, DrainFeedDoes
     DEF DrainHolds, D!Ended, D!None, D!NoFeed, SetupHolds, WatchesOrdered, FeedHolds, Kept
<1>9. CASE D!DrainLocal
  BY <1>9, <1>0, <1>a, <1>t, DrainLocalDoes
     DEF DrainHolds, D!Ended, D!None, D!NoFeed, SetupHolds, WatchesOrdered, FeedHolds, Kept
<1>10. CASE D!DrainLeases
  BY <1>10, <1>0, <1>a, <1>t, DrainLeasesDoes
     DEF DrainHolds, D!Ended, D!None, D!NoFeed, SetupHolds, WatchesOrdered, FeedHolds, Kept
<1>11. CASE D!Bind
  BY <1>11, <1>0, <1>a, <1>t, BindDoes
     DEF DrainHolds, D!Ended, D!None, D!NoFeed, SetupHolds, WatchesOrdered, FeedHolds, Kept
<1>12. CASE D!StartFeed
  BY <1>12, <1>0, <1>a, <1>t, StartFeedDoes
     DEF DrainHolds, D!Ended, D!None, D!NoFeed, SetupHolds, WatchesOrdered, FeedHolds, Kept
<1>13. CASE D!ReplaceChart
  BY <1>13, <1>0, <1>a, <1>t, ReplaceChartDoes
     DEF DrainHolds, D!Ended, D!None, D!NoFeed, SetupHolds, WatchesOrdered, FeedHolds, Kept
<1>14. CASE D!FinishWatch
  BY <1>14, <1>0, <1>a, <1>t, FinishWatchDoes
     DEF DrainHolds, D!Ended, D!None, D!NoFeed, SetupHolds, WatchesOrdered, FeedHolds, Kept, StopOf
<1>15. ASSUME NEW kind \in {"local", "lease"}, D!ReadEnds(kind)
      PROVE  DrainHolds'
  BY <1>15, <1>0, <1>a
     DEF D!ReadEnds, D!None, DrainHolds, D!Ended, D!NoFeed, SetupHolds, WatchesOrdered, FeedHolds,
         ControlState
<1>16. CASE D!FeedFails
  BY <1>16, <1>0, <1>a
     DEF D!FeedFails, D!NoFeed, D!None, DrainHolds, D!Ended, SetupHolds, WatchesOrdered, FeedHolds,
         ControlState, FeedState
<1>17. CASE D!CaptureFailure
  BY <1>17, <1>0, <1>a
     DEF D!CaptureFailure, DrainHolds, D!Ended, D!None, D!NoFeed, SetupHolds, WatchesOrdered, FeedHolds,
         ControlState
<1>18. CASE D!ApplyFailure
  BY <1>18, <1>0, <1>a, <1>s
     DEF D!ApplyFailure, D!FailedFeed, DrainHolds, D!Ended, D!None, D!NoFeed, SetupHolds, WatchesOrdered,
         FeedHolds, StopOf, ControlState
<1>19. CASE D!PollMcp
  BY <1>19, <1>0, <1>a, <1>s
     DEF D!PollMcp, D!Control, DrainHolds, D!Ended, D!None, D!NoFeed, SetupHolds, WatchesOrdered, FeedHolds,
         StopOf, ControlState, McpState
<1>20. CASE D!McpStarted
  BY <1>20, <1>0, <1>a, <1>t, McpStartedDoes
     DEF DrainHolds, D!Ended, D!None, D!NoFeed, SetupHolds, WatchesOrdered, FeedHolds, StopOf, McpKept,
         ControlState
<1>21. CASE D!McpFails
  BY <1>21, <1>0, <1>a
     DEF D!McpFails, D!Control, DrainHolds, D!Ended, D!None, D!NoFeed, SetupHolds, WatchesOrdered,
         FeedHolds, ControlState, McpState
<1>22. CASE D!Reviewed
  BY <1>22, <1>0, <1>a
     DEF D!Reviewed, D!Control, D!None, DrainHolds, D!Ended, D!NoFeed, SetupHolds, WatchesOrdered,
         FeedHolds, ControlState, SetupState
<1>23. CASE D!PersistPolicy
  BY <1>23, <1>0, <1>a
     DEF D!PersistPolicy, D!SetupAdmits, D!None, D!NoWatch, D!Control, DrainHolds, D!Ended, D!NoFeed,
         SetupHolds, WatchesOrdered, FeedHolds, ControlState, SetupState
<1>24. CASE D!Persisted
  BY <1>24, <1>0, <1>a, PersistEnds
     DEF D!None, DrainHolds, D!Ended, D!NoFeed, SetupHolds, WatchesOrdered, FeedHolds, ControlState,
         SetupState, D!Persisted, D!Control
<1>25. CASE D!DiscardPolicy
  BY <1>25, <1>0, <1>a
     DEF D!DiscardPolicy, D!SetupAdmits, D!None, D!NoWatch, D!Control, DrainHolds, D!Ended, D!NoFeed,
         SetupHolds, WatchesOrdered, FeedHolds, ControlState, SetupState
<1>26. CASE D!ConsentTakesOver
  BY <1>26, <1>0, <1>a, <1>s
     DEF D!ConsentTakesOver, D!None, D!NoFeed, DrainHolds, D!Ended, SetupHolds, WatchesOrdered, FeedHolds,
         StopOf, ControlState, FeedState
<1>27. CASE D!ConsentEnds
  BY <1>27, <1>0, <1>a
     DEF D!ConsentEnds, D!Control, DrainHolds, D!Ended, D!None, D!NoFeed, SetupHolds, WatchesOrdered,
         FeedHolds, ControlState
<1>28. CASE D!ConsentDrained
  BY <1>28, <1>0, <1>a, <1>s
     DEF D!ConsentDrained, D!None, D!Control, DrainHolds, D!Ended, D!NoFeed, SetupHolds, WatchesOrdered,
         FeedHolds, StopOf, ControlState
<1>29. CASE D!SetupDrained
  BY <1>29, <1>0, <1>a
     DEF D!SetupDrained, D!None, D!Control, DrainHolds, D!Ended, D!NoFeed, SetupHolds, WatchesOrdered,
         FeedHolds, ControlState
<1>30. CASE D!McpDrained
  BY <1>30, <1>0, <1>a, <1>t, McpDrainedDoes
     DEF DrainHolds, D!Ended, D!None, D!NoFeed, SetupHolds, WatchesOrdered, FeedHolds, StopOf, McpKept,
         ControlState
<1>31. CASE D!WorkerDrained
  BY <1>31, <1>0, <1>a
     DEF D!WorkerDrained, D!Control, DrainHolds, D!Ended, D!None, D!NoFeed, SetupHolds, WatchesOrdered,
         FeedHolds, ControlState
<1>32. CASE D!FeedDrained
  BY <1>32, <1>0, <1>a, <1>s
     DEF D!FeedDrained, D!NoFeed, D!None, DrainHolds, D!Ended, SetupHolds, WatchesOrdered, FeedHolds,
         StopOf, ControlState, FeedState
<1>33. CASE D!ReadsDrained
  BY <1>33, <1>0, <1>a
     DEF D!ReadsDrained, D!None, D!Control, DrainHolds, D!Ended, D!NoFeed, SetupHolds, WatchesOrdered,
         FeedHolds, ControlState
<1>34. CASE D!BeginUpdate
  BY <1>34, <1>0, <1>a, <1>s
     DEF D!BeginUpdate, D!None, D!Program, DrainHolds, D!Ended, D!NoFeed, SetupHolds, WatchesOrdered,
         FeedHolds, StopOf, ControlState
<1>35. CASE D!InstallUpdate
  BY <1>35, <1>0, <1>a
     DEF D!InstallUpdate, D!Ended, D!Program, D!None, DrainHolds, D!NoFeed, SetupHolds, WatchesOrdered,
         FeedHolds, ControlState
<1>36. CASE D!RequestExit
  BY <1>36, <1>0, <1>a, <1>s
     DEF D!RequestExit, D!None, D!Program, DrainHolds, D!Ended, D!NoFeed, SetupHolds, WatchesOrdered,
         FeedHolds, StopOf, ControlState
<1>37. CASE D!Exit
  BY <1>37, <1>0, <1>a
     DEF D!Exit, D!ExitAllowed, D!Ended, D!Program, DrainHolds, D!None, D!NoFeed, SetupHolds,
         WatchesOrdered, FeedHolds, ControlState
<1> QED BY <1>1, <1>2, <1>3, <1>4, <1>5, <1>6, <1>7, <1>8, <1>9, <1>10, <1>11, <1>12, <1>13, <1>14, <1>15,
           <1>16, <1>17, <1>18, <1>19, <1>20, <1>21, <1>22, <1>23, <1>24, <1>25, <1>26, <1>27, <1>28, <1>29,
           <1>30, <1>31, <1>32, <1>33, <1>34, <1>35, <1>36, <1>37 DEF D!Next

(* A setup job ends in a phase that tells of it, and only a retry leaves    *)
(* an outcome open (review_policy_setup, persist_policy_setup).        *)
LEMMA SetupStep ==
  ASSUME DesktopInv, D!Next
  PROVE  SetupHolds'
<1>0. /\ ctl \in ControlState /\ worker \in WorkerState /\ feed \in FeedState
      /\ reads \in [local : Named, lease : Named]
  BY DEF DesktopInv, DesktopTyped
<1>a. SetupHolds /\ DrainHolds
  BY DEF DesktopInv
<1>t. DesktopTyped /\ DrainHolds /\ DesktopTyped'
  BY DesktopTypedStep DEF DesktopInv
<1>s. /\ StopOf(ctl, D!Failed(ctl)) /\ StopOf(ctl, D!BeginStop(ctl))
      /\ \A m \in {"update", "exit"} : StopOf(ctl, D!BeginStop([ctl EXCEPT !.mode = m]))
  BY StopsTaken DEF DesktopInv
<1>1. ASSUME NEW context \in Contexts, NEW coin \in {1, 2}, D!SubmitWatch(context, coin)
      PROVE  SetupHolds'
  BY <1>1, <1>0, <1>a
     DEF D!SubmitWatch, D!SetupBusy, D!ConsentOwned, D!None, SetupHolds, D!SetupOutcomeKept, ControlState,
         WorkerState, SetupState
<1>2. ASSUME NEW context \in Contexts, NEW kind \in {"local", "lease"}, D!Read(kind, context)
      PROVE  SetupHolds'
  BY <1>2, <1>0, <1>a
     DEF D!Read, D!Admits, D!None, SetupHolds, D!SetupOutcomeKept, ControlState, SetupState
<1>3. ASSUME NEW context \in Contexts, D!LaunchMcp(context)
      PROVE  SetupHolds'
  BY <1>3, <1>0, <1>a
     DEF D!LaunchMcp, D!Admits, D!None, D!SetupBusy, D!ConsentOwned, D!SelectionAgrees, D!NoWatch,
         D!Control, SetupHolds, D!SetupOutcomeKept, ControlState, McpState, SetupState
<1>4. ASSUME NEW context \in Contexts, D!ReviewPolicy(context)
      PROVE  SetupHolds'
  BY <1>4, <1>0, <1>a
     DEF D!ReviewPolicy, D!SetupAdmits, D!None, D!NoWatch, D!SetupBusy, D!ConsentOwned, D!SelectionAgrees,
         D!Control, SetupHolds, D!SetupOutcomeKept, ControlState, SetupState
<1>5. ASSUME NEW context \in Contexts, D!LaunchConsent(context)
      PROVE  SetupHolds'
  BY <1>5, <1>0, <1>a
     DEF D!LaunchConsent, D!SetupAdmits, D!None, D!NoWatch, D!SetupBusy, D!ConsentOwned, D!SelectionAgrees,
         D!Control, SetupHolds, D!SetupOutcomeKept, ControlState, SetupState
<1>6. CASE D!TakeWatch
  BY <1>6, <1>0, <1>a, <1>t, TakeWatchDoes
     DEF SetupHolds, D!SetupOutcomeKept, D!None, Kept
<1>7. CASE D!BeginReplace
  BY <1>7, <1>0, <1>a, <1>t, BeginReplaceDoes
     DEF SetupHolds, D!SetupOutcomeKept, D!None, Kept
<1>8. CASE D!DrainFeed
  BY <1>8, <1>0, <1>a, <1>t, DrainFeedDoes
     DEF SetupHolds, D!SetupOutcomeKept, D!None, Kept
<1>9. CASE D!DrainLocal
  BY <1>9, <1>0, <1>a, <1>t, DrainLocalDoes
     DEF SetupHolds, D!SetupOutcomeKept, D!None, Kept
<1>10. CASE D!DrainLeases
  BY <1>10, <1>0, <1>a, <1>t, DrainLeasesDoes
     DEF SetupHolds, D!SetupOutcomeKept, D!None, Kept
<1>11. CASE D!Bind
  BY <1>11, <1>0, <1>a, <1>t, BindDoes
     DEF SetupHolds, D!SetupOutcomeKept, D!None, Kept
<1>12. CASE D!StartFeed
  BY <1>12, <1>0, <1>a, <1>t, StartFeedDoes
     DEF SetupHolds, D!SetupOutcomeKept, D!None, Kept
<1>13. CASE D!ReplaceChart
  BY <1>13, <1>0, <1>a, <1>t, ReplaceChartDoes
     DEF SetupHolds, D!SetupOutcomeKept, D!None, Kept
<1>14. CASE D!FinishWatch
  BY <1>14, <1>0, <1>a, <1>t, FinishWatchDoes
     DEF SetupHolds, D!SetupOutcomeKept, D!None, Kept, StopOf
<1>15. ASSUME NEW kind \in {"local", "lease"}, D!ReadEnds(kind)
      PROVE  SetupHolds'
  BY <1>15, <1>0, <1>a
     DEF D!ReadEnds, D!None, SetupHolds, D!SetupOutcomeKept, ControlState, SetupState
<1>16. CASE D!FeedFails
  BY <1>16, <1>0, <1>a
     DEF D!FeedFails, D!NoFeed, D!None, SetupHolds, D!SetupOutcomeKept, ControlState, FeedState, SetupState
<1>17. CASE D!CaptureFailure
  BY <1>17, <1>0, <1>a
     DEF D!CaptureFailure, SetupHolds, D!SetupOutcomeKept, D!None, ControlState, SetupState
<1>18. CASE D!ApplyFailure
  BY <1>18, <1>0, <1>a, <1>s
     DEF D!ApplyFailure, D!FailedFeed, SetupHolds, D!SetupOutcomeKept, D!None, StopOf, ControlState,
         SetupState
<1>19. CASE D!PollMcp
  BY <1>19, <1>0, <1>a, <1>s
     DEF D!PollMcp, D!Control, SetupHolds, D!SetupOutcomeKept, D!None, StopOf, ControlState, McpState,
         SetupState
<1>20. CASE D!McpStarted
  BY <1>20, <1>0, <1>a, <1>t, McpStartedDoes
     DEF SetupHolds, D!SetupOutcomeKept, D!None, StopOf, McpKept, ControlState
<1>21. CASE D!McpFails
  BY <1>21, <1>0, <1>a
     DEF D!McpFails, D!Control, SetupHolds, D!SetupOutcomeKept, D!None, ControlState, McpState, SetupState
<1>22. CASE D!Reviewed
  <2>1. PICK ok \in BOOLEAN :
          ctl' = [ctl EXCEPT !.setup.job = D!None, !.setup.review = ok /\ ~ctl.terminal,
                             !.setup.phase = IF ctl.terminal THEN "stopped" ELSE IF ok THEN "ready" ELSE "failed"]
    BY <1>22 DEF D!Reviewed, D!Control
  <2>2. /\ ctl'.setup.job = D!None /\ ctl'.setup.committed = ctl.setup.committed
    BY <1>0, <2>1 DEF ControlState, SetupState
  <2>3. ctl.setup.job = "review"
    BY <1>22 DEF D!Reviewed
  <2> QED BY <1>a, <2>2, <2>3 DEF SetupHolds, D!SetupOutcomeKept, D!None
<1>23. CASE D!PersistPolicy
  BY <1>23, <1>0, <1>a
     DEF D!PersistPolicy, D!SetupAdmits, D!None, D!NoWatch, D!Control, SetupHolds, D!SetupOutcomeKept,
         ControlState, SetupState
<1>24. CASE D!Persisted
  BY <1>24, <1>0, <1>a, PersistEnds
     DEF D!None, SetupHolds, D!SetupOutcomeKept, ControlState, SetupState, D!Persisted, D!Control
<1>25. CASE D!DiscardPolicy
  BY <1>25, <1>0, <1>a
     DEF D!DiscardPolicy, D!SetupAdmits, D!None, D!NoWatch, D!Control, SetupHolds, D!SetupOutcomeKept,
         ControlState, SetupState
<1>26. CASE D!ConsentTakesOver
  BY <1>26, <1>0, <1>a, <1>s
     DEF D!ConsentTakesOver, D!None, D!NoFeed, SetupHolds, D!SetupOutcomeKept, StopOf, ControlState,
         FeedState, SetupState
<1>27. CASE D!ConsentEnds
  BY <1>27, <1>0, <1>a
     DEF D!ConsentEnds, D!Control, SetupHolds, D!SetupOutcomeKept, D!None, ControlState, SetupState
<1>28. CASE D!ConsentDrained
  BY <1>28, <1>0, <1>a, <1>s
     DEF D!ConsentDrained, D!None, D!Control, SetupHolds, D!SetupOutcomeKept, StopOf, ControlState,
         SetupState
<1>29. CASE D!SetupDrained
  BY <1>29, <1>0, <1>a
     DEF D!SetupDrained, D!None, D!Control, SetupHolds, D!SetupOutcomeKept, ControlState, SetupState
<1>30. CASE D!McpDrained
  BY <1>30, <1>0, <1>a, <1>t, McpDrainedDoes
     DEF SetupHolds, D!SetupOutcomeKept, D!None, StopOf, McpKept, ControlState
<1>31. CASE D!WorkerDrained
  BY <1>31, <1>0, <1>a
     DEF D!WorkerDrained, D!Control, SetupHolds, D!SetupOutcomeKept, D!None, ControlState, SetupState
<1>32. CASE D!FeedDrained
  BY <1>32, <1>0, <1>a, <1>s
     DEF D!FeedDrained, D!NoFeed, D!None, SetupHolds, D!SetupOutcomeKept, StopOf, ControlState, FeedState,
         SetupState
<1>33. CASE D!ReadsDrained
  BY <1>33, <1>0, <1>a
     DEF D!ReadsDrained, D!None, D!Control, SetupHolds, D!SetupOutcomeKept, ControlState, SetupState
<1>34. CASE D!BeginUpdate
  BY <1>34, <1>0, <1>a, <1>s
     DEF D!BeginUpdate, D!None, D!Program, SetupHolds, D!SetupOutcomeKept, StopOf, ControlState, SetupState
<1>35. CASE D!InstallUpdate
  BY <1>35, <1>0, <1>a
     DEF D!InstallUpdate, D!Ended, D!Program, D!None, SetupHolds, D!SetupOutcomeKept, ControlState,
         SetupState
<1>36. CASE D!RequestExit
  BY <1>36, <1>0, <1>a, <1>s
     DEF D!RequestExit, D!None, D!Program, SetupHolds, D!SetupOutcomeKept, StopOf, ControlState, SetupState
<1>37. CASE D!Exit
  BY <1>37, <1>0, <1>a
     DEF D!Exit, D!ExitAllowed, D!Ended, D!Program, SetupHolds, D!SetupOutcomeKept, D!None, ControlState,
         SetupState
<1> QED BY <1>1, <1>2, <1>3, <1>4, <1>5, <1>6, <1>7, <1>8, <1>9, <1>10, <1>11, <1>12, <1>13, <1>14, <1>15,
           <1>16, <1>17, <1>18, <1>19, <1>20, <1>21, <1>22, <1>23, <1>24, <1>25, <1>26, <1>27, <1>28, <1>29,
           <1>30, <1>31, <1>32, <1>33, <1>34, <1>35, <1>36, <1>37 DEF D!Next

(* The worker takes the pending watch, which no later one has passed.       *)
LEMMA WatchesStep ==
  ASSUME DesktopInv, D!Next
  PROVE  WatchesOrdered'
<1>0. /\ ctl \in ControlState /\ worker \in WorkerState /\ feed \in FeedState
      /\ reads \in [local : Named, lease : Named]
  BY DEF DesktopInv, DesktopTyped
<1>a. WatchesOrdered /\ DrainHolds
  BY DEF DesktopInv
<1>t. DesktopTyped /\ DrainHolds /\ DesktopTyped'
  BY DesktopTypedStep DEF DesktopInv
<1>w. /\ worker.watch.serial \in Nat /\ ctl.serial \in Nat /\ ctl.desired.serial \in Nat
      /\ ctl.generation \in Nat /\ D!NoWatch.serial = 0 /\ D!NoWatch.context = D!None
  BY <1>0 DEF ControlState, WorkerState, Watch, D!NoWatch
<1>s. /\ StopOf(ctl, D!Failed(ctl)) /\ StopOf(ctl, D!BeginStop(ctl))
      /\ \A m \in {"update", "exit"} : StopOf(ctl, D!BeginStop([ctl EXCEPT !.mode = m]))
  BY StopsTaken DEF DesktopInv
<1>1. ASSUME NEW context \in Contexts, NEW coin \in {1, 2}, D!SubmitWatch(context, coin)
      PROVE  WatchesOrdered'
  BY <1>1, <1>0, <1>a, <1>w
     DEF D!SubmitWatch, D!SetupBusy, D!ConsentOwned, D!None, WatchesOrdered, DrainHolds, ControlState,
         WorkerState
<1>2. ASSUME NEW context \in Contexts, NEW kind \in {"local", "lease"}, D!Read(kind, context)
      PROVE  WatchesOrdered'
  BY <1>2, <1>0, <1>a, <1>w
     DEF D!Read, D!Admits, D!None, WatchesOrdered, DrainHolds, ControlState
<1>3. ASSUME NEW context \in Contexts, D!LaunchMcp(context)
      PROVE  WatchesOrdered'
  BY <1>3, <1>0, <1>a, <1>w
     DEF D!LaunchMcp, D!Admits, D!None, D!SetupBusy, D!ConsentOwned, D!SelectionAgrees, D!NoWatch,
         D!Control, WatchesOrdered, DrainHolds, ControlState, McpState
<1>4. ASSUME NEW context \in Contexts, D!ReviewPolicy(context)
      PROVE  WatchesOrdered'
  BY <1>4, <1>0, <1>a, <1>w
     DEF D!ReviewPolicy, D!SetupAdmits, D!None, D!NoWatch, D!SetupBusy, D!ConsentOwned, D!SelectionAgrees,
         D!Control, WatchesOrdered, DrainHolds, ControlState, SetupState
<1>5. ASSUME NEW context \in Contexts, D!LaunchConsent(context)
      PROVE  WatchesOrdered'
  BY <1>5, <1>0, <1>a, <1>w
     DEF D!LaunchConsent, D!SetupAdmits, D!None, D!NoWatch, D!SetupBusy, D!ConsentOwned, D!SelectionAgrees,
         D!Control, WatchesOrdered, DrainHolds, ControlState
<1>6. CASE D!TakeWatch
  BY <1>6, <1>0, <1>a, <1>t, <1>w, TakeWatchDoes
     DEF WatchesOrdered, DrainHolds, D!None, Kept
<1>7. CASE D!BeginReplace
  BY <1>7, <1>0, <1>a, <1>t, <1>w, BeginReplaceDoes
     DEF WatchesOrdered, DrainHolds, D!None, Kept
<1>8. CASE D!DrainFeed
  BY <1>8, <1>0, <1>a, <1>t, <1>w, DrainFeedDoes
     DEF WatchesOrdered, DrainHolds, D!None, Kept
<1>9. CASE D!DrainLocal
  BY <1>9, <1>0, <1>a, <1>t, <1>w, DrainLocalDoes
     DEF WatchesOrdered, DrainHolds, D!None, Kept
<1>10. CASE D!DrainLeases
  BY <1>10, <1>0, <1>a, <1>t, <1>w, DrainLeasesDoes
     DEF WatchesOrdered, DrainHolds, D!None, Kept
<1>11. CASE D!Bind
  BY <1>11, <1>0, <1>a, <1>t, <1>w, BindDoes
     DEF WatchesOrdered, DrainHolds, D!None, Kept
<1>12. CASE D!StartFeed
  BY <1>12, <1>0, <1>a, <1>t, <1>w, StartFeedDoes
     DEF WatchesOrdered, DrainHolds, D!None, Kept
<1>13. CASE D!ReplaceChart
  BY <1>13, <1>0, <1>a, <1>t, <1>w, ReplaceChartDoes
     DEF WatchesOrdered, DrainHolds, D!None, Kept
<1>14. CASE D!FinishWatch
  BY <1>14, <1>0, <1>a, <1>t, <1>w, FinishWatchDoes
     DEF WatchesOrdered, DrainHolds, D!None, Kept, StopOf
<1>15. ASSUME NEW kind \in {"local", "lease"}, D!ReadEnds(kind)
      PROVE  WatchesOrdered'
  BY <1>15, <1>0, <1>a, <1>w
     DEF D!ReadEnds, D!None, WatchesOrdered, DrainHolds, ControlState
<1>16. CASE D!FeedFails
  BY <1>16, <1>0, <1>a, <1>w
     DEF D!FeedFails, D!NoFeed, D!None, WatchesOrdered, DrainHolds, ControlState, FeedState
<1>17. CASE D!CaptureFailure
  BY <1>17, <1>0, <1>a, <1>w
     DEF D!CaptureFailure, WatchesOrdered, DrainHolds, D!None, ControlState
<1>18. CASE D!ApplyFailure
  BY <1>18, <1>0, <1>a, <1>w, <1>s
     DEF D!ApplyFailure, D!FailedFeed, WatchesOrdered, DrainHolds, D!None, StopOf, ControlState
<1>19. CASE D!PollMcp
  BY <1>19, <1>0, <1>a, <1>w, <1>s
     DEF D!PollMcp, D!Control, WatchesOrdered, DrainHolds, D!None, StopOf, ControlState, McpState
<1>20. CASE D!McpStarted
  BY <1>20, <1>0, <1>a, <1>t, <1>w, McpStartedDoes
     DEF WatchesOrdered, DrainHolds, D!None, StopOf, McpKept, ControlState
<1>21. CASE D!McpFails
  BY <1>21, <1>0, <1>a, <1>w
     DEF D!McpFails, D!Control, WatchesOrdered, DrainHolds, D!None, ControlState, McpState
<1>22. CASE D!Reviewed
  BY <1>22, <1>0, <1>a, <1>w
     DEF D!Reviewed, D!Control, D!None, WatchesOrdered, DrainHolds, ControlState, SetupState
<1>23. CASE D!PersistPolicy
  BY <1>23, <1>0, <1>a, <1>w
     DEF D!PersistPolicy, D!SetupAdmits, D!None, D!NoWatch, D!Control, WatchesOrdered, DrainHolds,
         ControlState, SetupState
<1>24. CASE D!Persisted
  BY <1>24, <1>0, <1>a, <1>w, PersistEnds
     DEF D!None, WatchesOrdered, DrainHolds, ControlState, SetupState, D!Persisted, D!Control
<1>25. CASE D!DiscardPolicy
  BY <1>25, <1>0, <1>a, <1>w
     DEF D!DiscardPolicy, D!SetupAdmits, D!None, D!NoWatch, D!Control, WatchesOrdered, DrainHolds,
         ControlState, SetupState
<1>26. CASE D!ConsentTakesOver
  BY <1>26, <1>0, <1>a, <1>w, <1>s
     DEF D!ConsentTakesOver, D!None, D!NoFeed, WatchesOrdered, DrainHolds, StopOf, ControlState, FeedState
<1>27. CASE D!ConsentEnds
  BY <1>27, <1>0, <1>a, <1>w
     DEF D!ConsentEnds, D!Control, WatchesOrdered, DrainHolds, D!None, ControlState
<1>28. CASE D!ConsentDrained
  BY <1>28, <1>0, <1>a, <1>w, <1>s
     DEF D!ConsentDrained, D!None, D!Control, WatchesOrdered, DrainHolds, StopOf, ControlState
<1>29. CASE D!SetupDrained
  BY <1>29, <1>0, <1>a, <1>w
     DEF D!SetupDrained, D!None, D!Control, WatchesOrdered, DrainHolds, ControlState
<1>30. CASE D!McpDrained
  BY <1>30, <1>0, <1>a, <1>t, <1>w, McpDrainedDoes
     DEF WatchesOrdered, DrainHolds, D!None, StopOf, McpKept, ControlState
<1>31. CASE D!WorkerDrained
  BY <1>31, <1>0, <1>a, <1>w
     DEF D!WorkerDrained, D!Control, WatchesOrdered, DrainHolds, D!None, ControlState
<1>32. CASE D!FeedDrained
  BY <1>32, <1>0, <1>a, <1>w, <1>s
     DEF D!FeedDrained, D!NoFeed, D!None, WatchesOrdered, DrainHolds, StopOf, ControlState, FeedState
<1>33. CASE D!ReadsDrained
  BY <1>33, <1>0, <1>a, <1>w
     DEF D!ReadsDrained, D!None, D!Control, WatchesOrdered, DrainHolds, ControlState
<1>34. CASE D!BeginUpdate
  BY <1>34, <1>0, <1>a, <1>w, <1>s
     DEF D!BeginUpdate, D!None, D!Program, WatchesOrdered, DrainHolds, StopOf, ControlState
<1>35. CASE D!InstallUpdate
  BY <1>35, <1>0, <1>a, <1>w
     DEF D!InstallUpdate, D!Ended, D!Program, D!None, WatchesOrdered, DrainHolds, ControlState
<1>36. CASE D!RequestExit
  BY <1>36, <1>0, <1>a, <1>w, <1>s
     DEF D!RequestExit, D!None, D!Program, WatchesOrdered, DrainHolds, StopOf, ControlState
<1>37. CASE D!Exit
  BY <1>37, <1>0, <1>a, <1>w
     DEF D!Exit, D!ExitAllowed, D!Ended, D!Program, WatchesOrdered, DrainHolds, D!None, ControlState
<1> QED BY <1>1, <1>2, <1>3, <1>4, <1>5, <1>6, <1>7, <1>8, <1>9, <1>10, <1>11, <1>12, <1>13, <1>14, <1>15,
           <1>16, <1>17, <1>18, <1>19, <1>20, <1>21, <1>22, <1>23, <1>24, <1>25, <1>26, <1>27, <1>28, <1>29,
           <1>30, <1>31, <1>32, <1>33, <1>34, <1>35, <1>36, <1>37 DEF D!Next

(* The slot is filled only after it was drained, with the selection's feed. *)
LEMMA FeedStep ==
  ASSUME DesktopInv, D!Next
  PROVE  FeedHolds'
<1>0. /\ ctl \in ControlState /\ worker \in WorkerState /\ feed \in FeedState
      /\ reads \in [local : Named, lease : Named]
  BY DEF DesktopInv, DesktopTyped
<1>a. FeedHolds /\ DrainHolds /\ WatchesOrdered
  BY DEF DesktopInv
<1>t. DesktopTyped /\ DrainHolds /\ DesktopTyped'
  BY DesktopTypedStep DEF DesktopInv
<1>w. /\ worker.watch.serial \in Nat /\ ctl.serial \in Nat /\ ctl.desired.serial \in Nat
      /\ ctl.generation \in Nat /\ D!NoWatch.serial = 0 /\ D!NoWatch.context = D!None
  BY <1>0 DEF ControlState, WorkerState, Watch, D!NoWatch
<1>s. /\ StopOf(ctl, D!Failed(ctl)) /\ StopOf(ctl, D!BeginStop(ctl))
      /\ \A m \in {"update", "exit"} : StopOf(ctl, D!BeginStop([ctl EXCEPT !.mode = m]))
  BY StopsTaken DEF DesktopInv
<1>1. ASSUME NEW context \in Contexts, NEW coin \in {1, 2}, D!SubmitWatch(context, coin)
      PROVE  FeedHolds'
  BY <1>1, <1>0, <1>a, <1>w
     DEF D!SubmitWatch, D!SetupBusy, D!ConsentOwned, D!None, FeedHolds, DrainHolds, WatchesOrdered,
         FeedState, D!NoFeed, Has, ControlState, WorkerState
<1>2. ASSUME NEW context \in Contexts, NEW kind \in {"local", "lease"}, D!Read(kind, context)
      PROVE  FeedHolds'
  BY <1>2, <1>0, <1>a, <1>w
     DEF D!Read, D!Admits, D!None, FeedHolds, DrainHolds, WatchesOrdered, FeedState, D!NoFeed, Has,
         ControlState
<1>3. ASSUME NEW context \in Contexts, D!LaunchMcp(context)
      PROVE  FeedHolds'
  BY <1>3, <1>0, <1>a, <1>w
     DEF D!LaunchMcp, D!Admits, D!None, D!SetupBusy, D!ConsentOwned, D!SelectionAgrees, D!NoWatch,
         D!Control, FeedHolds, DrainHolds, WatchesOrdered, FeedState, D!NoFeed, Has, ControlState, McpState
<1>4. ASSUME NEW context \in Contexts, D!ReviewPolicy(context)
      PROVE  FeedHolds'
  BY <1>4, <1>0, <1>a, <1>w
     DEF D!ReviewPolicy, D!SetupAdmits, D!None, D!NoWatch, D!SetupBusy, D!ConsentOwned, D!SelectionAgrees,
         D!Control, FeedHolds, DrainHolds, WatchesOrdered, FeedState, D!NoFeed, Has, ControlState,
         SetupState
<1>5. ASSUME NEW context \in Contexts, D!LaunchConsent(context)
      PROVE  FeedHolds'
  BY <1>5, <1>0, <1>a, <1>w
     DEF D!LaunchConsent, D!SetupAdmits, D!None, D!NoWatch, D!SetupBusy, D!ConsentOwned, D!SelectionAgrees,
         D!Control, FeedHolds, DrainHolds, WatchesOrdered, FeedState, D!NoFeed, Has, ControlState
<1>6. CASE D!TakeWatch
  BY <1>6, <1>0, <1>a, <1>t, <1>w, TakeWatchDoes
     DEF FeedHolds, DrainHolds, WatchesOrdered, FeedState, D!NoFeed, D!None, Has, Kept
<1>7. CASE D!BeginReplace
  BY <1>7, <1>0, <1>a, <1>t, <1>w, BeginReplaceDoes
     DEF FeedHolds, DrainHolds, WatchesOrdered, FeedState, D!NoFeed, D!None, Has, Kept
<1>8. CASE D!DrainFeed
  BY <1>8, <1>0, <1>a, <1>t, <1>w, DrainFeedDoes
     DEF FeedHolds, DrainHolds, WatchesOrdered, FeedState, D!NoFeed, D!None, Has, Kept
<1>9. CASE D!DrainLocal
  BY <1>9, <1>0, <1>a, <1>t, <1>w, DrainLocalDoes
     DEF FeedHolds, DrainHolds, WatchesOrdered, FeedState, D!NoFeed, D!None, Has, Kept
<1>10. CASE D!DrainLeases
  BY <1>10, <1>0, <1>a, <1>t, <1>w, DrainLeasesDoes
     DEF FeedHolds, DrainHolds, WatchesOrdered, FeedState, D!NoFeed, D!None, Has, Kept
<1>11. CASE D!Bind
  BY <1>11, <1>0, <1>a, <1>t, <1>w, BindDoes
     DEF FeedHolds, DrainHolds, WatchesOrdered, FeedState, D!NoFeed, D!None, Has, Kept
<1>12. CASE D!StartFeed
  BY <1>12, <1>0, <1>a, <1>t, <1>w, StartFeedDoes
     DEF FeedHolds, DrainHolds, WatchesOrdered, FeedState, D!NoFeed, D!None, Has, Kept
<1>13. CASE D!ReplaceChart
  BY <1>13, <1>0, <1>a, <1>t, <1>w, ReplaceChartDoes
     DEF FeedHolds, DrainHolds, WatchesOrdered, FeedState, D!NoFeed, D!None, Has, Kept
<1>14. CASE D!FinishWatch
  BY <1>14, <1>0, <1>a, <1>t, <1>w, FinishWatchDoes
     DEF FeedHolds, DrainHolds, WatchesOrdered, FeedState, D!NoFeed, D!None, Has, Kept, StopOf
<1>15. ASSUME NEW kind \in {"local", "lease"}, D!ReadEnds(kind)
      PROVE  FeedHolds'
  BY <1>15, <1>0, <1>a, <1>w
     DEF D!ReadEnds, D!None, FeedHolds, DrainHolds, WatchesOrdered, FeedState, D!NoFeed, Has, ControlState
<1>16. CASE D!FeedFails
  BY <1>16, <1>0, <1>a, <1>w
     DEF D!FeedFails, D!NoFeed, D!None, FeedHolds, DrainHolds, WatchesOrdered, FeedState, Has, ControlState
<1>17. CASE D!CaptureFailure
  BY <1>17, <1>0, <1>a, <1>w
     DEF D!CaptureFailure, FeedHolds, DrainHolds, WatchesOrdered, FeedState, D!NoFeed, D!None, Has,
         ControlState
<1>18. CASE D!ApplyFailure
  BY <1>18, <1>0, <1>a, <1>w, <1>s
     DEF D!ApplyFailure, D!FailedFeed, FeedHolds, DrainHolds, WatchesOrdered, FeedState, D!NoFeed, D!None,
         Has, StopOf, ControlState
<1>19. CASE D!PollMcp
  BY <1>19, <1>0, <1>a, <1>w, <1>s
     DEF D!PollMcp, D!Control, FeedHolds, DrainHolds, WatchesOrdered, FeedState, D!NoFeed, D!None, Has,
         StopOf, ControlState, McpState
<1>20. CASE D!McpStarted
  BY <1>20, <1>0, <1>a, <1>t, <1>w, McpStartedDoes
     DEF FeedHolds, DrainHolds, WatchesOrdered, FeedState, D!NoFeed, D!None, Has, StopOf, McpKept,
         ControlState
<1>21. CASE D!McpFails
  BY <1>21, <1>0, <1>a, <1>w
     DEF D!McpFails, D!Control, FeedHolds, DrainHolds, WatchesOrdered, FeedState, D!NoFeed, D!None, Has,
         ControlState, McpState
<1>22. CASE D!Reviewed
  BY <1>22, <1>0, <1>a, <1>w
     DEF D!Reviewed, D!Control, D!None, FeedHolds, DrainHolds, WatchesOrdered, FeedState, D!NoFeed, Has,
         ControlState, SetupState
<1>23. CASE D!PersistPolicy
  BY <1>23, <1>0, <1>a, <1>w
     DEF D!PersistPolicy, D!SetupAdmits, D!None, D!NoWatch, D!Control, FeedHolds, DrainHolds,
         WatchesOrdered, FeedState, D!NoFeed, Has, ControlState, SetupState
<1>24. CASE D!Persisted
  BY <1>24, <1>0, <1>a, <1>w, PersistEnds
     DEF D!None, FeedHolds, DrainHolds, WatchesOrdered, FeedState, D!NoFeed, Has, ControlState, SetupState,
         D!Persisted, D!Control
<1>25. CASE D!DiscardPolicy
  BY <1>25, <1>0, <1>a, <1>w
     DEF D!DiscardPolicy, D!SetupAdmits, D!None, D!NoWatch, D!Control, FeedHolds, DrainHolds,
         WatchesOrdered, FeedState, D!NoFeed, Has, ControlState, SetupState
<1>26. CASE D!ConsentTakesOver
  BY <1>26, <1>0, <1>a, <1>w, <1>s
     DEF D!ConsentTakesOver, D!None, D!NoFeed, FeedHolds, DrainHolds, WatchesOrdered, FeedState, Has,
         StopOf, ControlState
<1>27. CASE D!ConsentEnds
  BY <1>27, <1>0, <1>a, <1>w
     DEF D!ConsentEnds, D!Control, FeedHolds, DrainHolds, WatchesOrdered, FeedState, D!NoFeed, D!None, Has,
         ControlState
<1>28. CASE D!ConsentDrained
  BY <1>28, <1>0, <1>a, <1>w, <1>s
     DEF D!ConsentDrained, D!None, D!Control, FeedHolds, DrainHolds, WatchesOrdered, FeedState, D!NoFeed,
         Has, StopOf, ControlState
<1>29. CASE D!SetupDrained
  BY <1>29, <1>0, <1>a, <1>w
     DEF D!SetupDrained, D!None, D!Control, FeedHolds, DrainHolds, WatchesOrdered, FeedState, D!NoFeed, Has,
         ControlState
<1>30. CASE D!McpDrained
  BY <1>30, <1>0, <1>a, <1>t, <1>w, McpDrainedDoes
     DEF FeedHolds, DrainHolds, WatchesOrdered, FeedState, D!NoFeed, D!None, Has, StopOf, McpKept,
         ControlState
<1>31. CASE D!WorkerDrained
  BY <1>31, <1>0, <1>a, <1>w
     DEF D!WorkerDrained, D!Control, FeedHolds, DrainHolds, WatchesOrdered, FeedState, D!NoFeed, D!None,
         Has, ControlState
<1>32. CASE D!FeedDrained
  BY <1>32, <1>0, <1>a, <1>w, <1>s
     DEF D!FeedDrained, D!NoFeed, D!None, FeedHolds, DrainHolds, WatchesOrdered, FeedState, Has, StopOf,
         ControlState
<1>33. CASE D!ReadsDrained
  BY <1>33, <1>0, <1>a, <1>w
     DEF D!ReadsDrained, D!None, D!Control, FeedHolds, DrainHolds, WatchesOrdered, FeedState, D!NoFeed, Has,
         ControlState
<1>34. CASE D!BeginUpdate
  BY <1>34, <1>0, <1>a, <1>w, <1>s
     DEF D!BeginUpdate, D!None, D!Program, FeedHolds, DrainHolds, WatchesOrdered, FeedState, D!NoFeed, Has,
         StopOf, ControlState
<1>35. CASE D!InstallUpdate
  BY <1>35, <1>0, <1>a, <1>w
     DEF D!InstallUpdate, D!Ended, D!Program, D!None, FeedHolds, DrainHolds, WatchesOrdered, FeedState,
         D!NoFeed, Has, ControlState
<1>36. CASE D!RequestExit
  BY <1>36, <1>0, <1>a, <1>w, <1>s
     DEF D!RequestExit, D!None, D!Program, FeedHolds, DrainHolds, WatchesOrdered, FeedState, D!NoFeed, Has,
         StopOf, ControlState
<1>37. CASE D!Exit
  BY <1>37, <1>0, <1>a, <1>w
     DEF D!Exit, D!ExitAllowed, D!Ended, D!Program, FeedHolds, DrainHolds, WatchesOrdered, FeedState,
         D!NoFeed, D!None, Has, ControlState
<1> QED BY <1>1, <1>2, <1>3, <1>4, <1>5, <1>6, <1>7, <1>8, <1>9, <1>10, <1>11, <1>12, <1>13, <1>14, <1>15,
           <1>16, <1>17, <1>18, <1>19, <1>20, <1>21, <1>22, <1>23, <1>24, <1>25, <1>26, <1>27, <1>28, <1>29,
           <1>30, <1>31, <1>32, <1>33, <1>34, <1>35, <1>36, <1>37 DEF D!Next

(* Admission opens only when nothing is being replaced, or marks that it    *)
(* was opened under a newer watch (run_watches).                            *)
LEMMA AdmissionStep ==
  ASSUME DesktopInv, D!Next
  PROVE  ~reopened' => ~reopened /\ OpenIsSettled'
<1>0. /\ ctl \in ControlState /\ worker \in WorkerState /\ feed \in FeedState
      /\ reads \in [local : Named, lease : Named]
  BY DEF DesktopInv, DesktopTyped
<1>a. FeedHolds /\ DrainHolds /\ WatchesOrdered /\ (~reopened => OpenIsSettled /\ OneNetwork /\ OneAccount)
  BY DEF DesktopInv
<1>t. DesktopTyped /\ DrainHolds /\ DesktopTyped'
  BY DesktopTypedStep DEF DesktopInv
<1>w. /\ worker.watch.serial \in Nat /\ ctl.serial \in Nat /\ ctl.desired.serial \in Nat
      /\ ctl.generation \in Nat /\ D!NoWatch.serial = 0 /\ D!NoWatch.context = D!None
  BY <1>0 DEF ControlState, WorkerState, Watch, D!NoWatch
<1>s. /\ StopOf(ctl, D!Failed(ctl)) /\ StopOf(ctl, D!BeginStop(ctl))
      /\ \A m \in {"update", "exit"} : StopOf(ctl, D!BeginStop([ctl EXCEPT !.mode = m]))
  BY StopsTaken DEF DesktopInv
<1>1. ASSUME NEW context \in Contexts, NEW coin \in {1, 2}, D!SubmitWatch(context, coin)
      PROVE  ~reopened' => ~reopened /\ OpenIsSettled'
  BY <1>1, <1>0, <1>a, <1>w
     DEF D!SubmitWatch, D!SetupBusy, D!ConsentOwned, D!None, FeedHolds, DrainHolds, WatchesOrdered,
         FeedState, OpenIsSettled, D!NoFeed, Has, ControlState, WorkerState
<1>2. ASSUME NEW context \in Contexts, NEW kind \in {"local", "lease"}, D!Read(kind, context)
      PROVE  ~reopened' => ~reopened /\ OpenIsSettled'
  BY <1>2, <1>0, <1>a, <1>w
     DEF D!Read, D!Admits, D!None, FeedHolds, DrainHolds, WatchesOrdered, FeedState, OpenIsSettled,
         D!NoFeed, Has, ControlState
<1>3. ASSUME NEW context \in Contexts, D!LaunchMcp(context)
      PROVE  ~reopened' => ~reopened /\ OpenIsSettled'
  BY <1>3, <1>0, <1>a, <1>w
     DEF D!LaunchMcp, D!Admits, D!None, D!SetupBusy, D!ConsentOwned, D!SelectionAgrees, D!NoWatch,
         D!Control, FeedHolds, DrainHolds, WatchesOrdered, FeedState, OpenIsSettled, D!NoFeed, Has,
         ControlState, McpState
<1>4. ASSUME NEW context \in Contexts, D!ReviewPolicy(context)
      PROVE  ~reopened' => ~reopened /\ OpenIsSettled'
  BY <1>4, <1>0, <1>a, <1>w
     DEF D!ReviewPolicy, D!SetupAdmits, D!None, D!NoWatch, D!SetupBusy, D!ConsentOwned, D!SelectionAgrees,
         D!Control, FeedHolds, DrainHolds, WatchesOrdered, FeedState, OpenIsSettled, D!NoFeed, Has,
         ControlState, SetupState
<1>5. ASSUME NEW context \in Contexts, D!LaunchConsent(context)
      PROVE  ~reopened' => ~reopened /\ OpenIsSettled'
  BY <1>5, <1>0, <1>a, <1>w
     DEF D!LaunchConsent, D!SetupAdmits, D!None, D!NoWatch, D!SetupBusy, D!ConsentOwned, D!SelectionAgrees,
         D!Control, FeedHolds, DrainHolds, WatchesOrdered, FeedState, OpenIsSettled, D!NoFeed, Has,
         ControlState
<1>6. CASE D!TakeWatch
  BY <1>6, <1>0, <1>a, <1>t, <1>w, TakeWatchDoes
     DEF FeedHolds, DrainHolds, WatchesOrdered, FeedState, OpenIsSettled, D!NoFeed, D!None, Has, Kept
<1>7. CASE D!BeginReplace
  BY <1>7, <1>0, <1>a, <1>t, <1>w, BeginReplaceDoes
     DEF FeedHolds, DrainHolds, WatchesOrdered, FeedState, OpenIsSettled, D!NoFeed, D!None, Has, Kept
<1>8. CASE D!DrainFeed
  BY <1>8, <1>0, <1>a, <1>t, <1>w, DrainFeedDoes
     DEF FeedHolds, DrainHolds, WatchesOrdered, FeedState, OpenIsSettled, D!NoFeed, D!None, Has, Kept
<1>9. CASE D!DrainLocal
  BY <1>9, <1>0, <1>a, <1>t, <1>w, DrainLocalDoes
     DEF FeedHolds, DrainHolds, WatchesOrdered, FeedState, OpenIsSettled, D!NoFeed, D!None, Has, Kept
<1>10. CASE D!DrainLeases
  BY <1>10, <1>0, <1>a, <1>t, <1>w, DrainLeasesDoes
     DEF FeedHolds, DrainHolds, WatchesOrdered, FeedState, OpenIsSettled, D!NoFeed, D!None, Has, Kept
<1>11. CASE D!Bind
  BY <1>11, <1>0, <1>a, <1>t, <1>w, BindDoes
     DEF FeedHolds, DrainHolds, WatchesOrdered, FeedState, OpenIsSettled, D!NoFeed, D!None, Has, Kept
<1>12. CASE D!StartFeed
  BY <1>12, <1>0, <1>a, <1>t, <1>w, StartFeedDoes
     DEF FeedHolds, DrainHolds, WatchesOrdered, FeedState, OpenIsSettled, D!NoFeed, D!None, Has, Kept
<1>13. CASE D!ReplaceChart
  BY <1>13, <1>0, <1>a, <1>t, <1>w, ReplaceChartDoes
     DEF FeedHolds, DrainHolds, WatchesOrdered, FeedState, OpenIsSettled, D!NoFeed, D!None, Has, Kept
<1>14. CASE D!FinishWatch
  <2> SUFFICES ASSUME ~reopened' PROVE ~reopened /\ OpenIsSettled'
    OBVIOUS
  <2>0. worker.at = "finish" /\ worker'.at = "loop" /\ feed' = feed
    BY <1>14, <1>t, FinishWatchDoes
  <2>1. CASE /\ worker.result = "installed" /\ ctl.serial = worker.watch.serial /\ reopened' = reopened
             /\ ctl'.binding = feed.generation /\ ctl'.desired = ctl.desired
    BY <1>a, <1>w, <2>0, <2>1 DEF OpenIsSettled, FeedHolds, WatchesOrdered, Has
  <2>2. CASE /\ worker.result = "no_chart" /\ reopened' = (reopened \/ ctl.desired # D!NoWatch)
             /\ ctl'.binding = ctl.binding /\ ctl'.desired = ctl.desired
    BY <1>a, <2>0, <2>2 DEF OpenIsSettled, FeedHolds, Has
  <2>3. CASE (StopOf(ctl, ctl') \/ ctl' = ctl) /\ reopened' = reopened
    BY <1>a, <2>0, <2>3 DEF OpenIsSettled, StopOf
  <2> QED BY <1>14, <1>t, <2>1, <2>2, <2>3, FinishWatchDoes
<1>15. ASSUME NEW kind \in {"local", "lease"}, D!ReadEnds(kind)
      PROVE  ~reopened' => ~reopened /\ OpenIsSettled'
  BY <1>15, <1>0, <1>a, <1>w
     DEF D!ReadEnds, D!None, FeedHolds, DrainHolds, WatchesOrdered, FeedState, OpenIsSettled, D!NoFeed, Has,
         ControlState
<1>16. CASE D!FeedFails
  BY <1>16, <1>0, <1>a, <1>w
     DEF D!FeedFails, D!NoFeed, D!None, FeedHolds, DrainHolds, WatchesOrdered, FeedState, OpenIsSettled,
         Has, ControlState
<1>17. CASE D!CaptureFailure
  BY <1>17, <1>0, <1>a, <1>w
     DEF D!CaptureFailure, FeedHolds, DrainHolds, WatchesOrdered, FeedState, OpenIsSettled, D!NoFeed,
         D!None, Has, ControlState
<1>18. CASE D!ApplyFailure
  BY <1>18, <1>0, <1>a, <1>w, <1>s
     DEF D!ApplyFailure, D!FailedFeed, FeedHolds, DrainHolds, WatchesOrdered, FeedState, OpenIsSettled,
         D!NoFeed, D!None, Has, StopOf, ControlState
<1>19. CASE D!PollMcp
  BY <1>19, <1>0, <1>a, <1>w, <1>s
     DEF D!PollMcp, D!Control, FeedHolds, DrainHolds, WatchesOrdered, FeedState, OpenIsSettled, D!NoFeed,
         D!None, Has, StopOf, ControlState, McpState
<1>20. CASE D!McpStarted
  BY <1>20, <1>0, <1>a, <1>t, <1>w, McpStartedDoes
     DEF FeedHolds, DrainHolds, WatchesOrdered, FeedState, OpenIsSettled, D!NoFeed, D!None, Has, StopOf,
         McpKept, ControlState
<1>21. CASE D!McpFails
  BY <1>21, <1>0, <1>a, <1>w
     DEF D!McpFails, D!Control, FeedHolds, DrainHolds, WatchesOrdered, FeedState, OpenIsSettled, D!NoFeed,
         D!None, Has, ControlState, McpState
<1>22. CASE D!Reviewed
  BY <1>22, <1>0, <1>a, <1>w
     DEF D!Reviewed, D!Control, D!None, FeedHolds, DrainHolds, WatchesOrdered, FeedState, OpenIsSettled,
         D!NoFeed, Has, ControlState, SetupState
<1>23. CASE D!PersistPolicy
  BY <1>23, <1>0, <1>a, <1>w
     DEF D!PersistPolicy, D!SetupAdmits, D!None, D!NoWatch, D!Control, FeedHolds, DrainHolds,
         WatchesOrdered, FeedState, OpenIsSettled, D!NoFeed, Has, ControlState, SetupState
<1>24. CASE D!Persisted
  BY <1>24, <1>0, <1>a, <1>w, PersistEnds
     DEF D!None, FeedHolds, DrainHolds, WatchesOrdered, FeedState, OpenIsSettled, D!NoFeed, Has,
         ControlState, SetupState, D!Persisted, D!Control
<1>25. CASE D!DiscardPolicy
  BY <1>25, <1>0, <1>a, <1>w
     DEF D!DiscardPolicy, D!SetupAdmits, D!None, D!NoWatch, D!Control, FeedHolds, DrainHolds,
         WatchesOrdered, FeedState, OpenIsSettled, D!NoFeed, Has, ControlState, SetupState
<1>26. CASE D!ConsentTakesOver
  BY <1>26, <1>0, <1>a, <1>w, <1>s
     DEF D!ConsentTakesOver, D!None, D!NoFeed, FeedHolds, DrainHolds, WatchesOrdered, FeedState,
         OpenIsSettled, Has, StopOf, ControlState
<1>27. CASE D!ConsentEnds
  BY <1>27, <1>0, <1>a, <1>w
     DEF D!ConsentEnds, D!Control, FeedHolds, DrainHolds, WatchesOrdered, FeedState, OpenIsSettled,
         D!NoFeed, D!None, Has, ControlState
<1>28. CASE D!ConsentDrained
  BY <1>28, <1>0, <1>a, <1>w, <1>s
     DEF D!ConsentDrained, D!None, D!Control, FeedHolds, DrainHolds, WatchesOrdered, FeedState,
         OpenIsSettled, D!NoFeed, Has, StopOf, ControlState
<1>29. CASE D!SetupDrained
  BY <1>29, <1>0, <1>a, <1>w
     DEF D!SetupDrained, D!None, D!Control, FeedHolds, DrainHolds, WatchesOrdered, FeedState, OpenIsSettled,
         D!NoFeed, Has, ControlState
<1>30. CASE D!McpDrained
  BY <1>30, <1>0, <1>a, <1>t, <1>w, McpDrainedDoes
     DEF FeedHolds, DrainHolds, WatchesOrdered, FeedState, OpenIsSettled, D!NoFeed, D!None, Has, StopOf,
         McpKept, ControlState
<1>31. CASE D!WorkerDrained
  BY <1>31, <1>0, <1>a, <1>w
     DEF D!WorkerDrained, D!Control, FeedHolds, DrainHolds, WatchesOrdered, FeedState, OpenIsSettled,
         D!NoFeed, D!None, Has, ControlState
<1>32. CASE D!FeedDrained
  BY <1>32, <1>0, <1>a, <1>w, <1>s
     DEF D!FeedDrained, D!NoFeed, D!None, FeedHolds, DrainHolds, WatchesOrdered, FeedState, OpenIsSettled,
         Has, StopOf, ControlState
<1>33. CASE D!ReadsDrained
  BY <1>33, <1>0, <1>a, <1>w
     DEF D!ReadsDrained, D!None, D!Control, FeedHolds, DrainHolds, WatchesOrdered, FeedState, OpenIsSettled,
         D!NoFeed, Has, ControlState
<1>34. CASE D!BeginUpdate
  BY <1>34, <1>0, <1>a, <1>w, <1>s
     DEF D!BeginUpdate, D!None, D!Program, FeedHolds, DrainHolds, WatchesOrdered, FeedState, OpenIsSettled,
         D!NoFeed, Has, StopOf, ControlState
<1>35. CASE D!InstallUpdate
  BY <1>35, <1>0, <1>a, <1>w
     DEF D!InstallUpdate, D!Ended, D!Program, D!None, FeedHolds, DrainHolds, WatchesOrdered, FeedState,
         OpenIsSettled, D!NoFeed, Has, ControlState
<1>36. CASE D!RequestExit
  BY <1>36, <1>0, <1>a, <1>w, <1>s
     DEF D!RequestExit, D!None, D!Program, FeedHolds, DrainHolds, WatchesOrdered, FeedState, OpenIsSettled,
         D!NoFeed, Has, StopOf, ControlState
<1>37. CASE D!Exit
  BY <1>37, <1>0, <1>a, <1>w
     DEF D!Exit, D!ExitAllowed, D!Ended, D!Program, FeedHolds, DrainHolds, WatchesOrdered, FeedState,
         OpenIsSettled, D!NoFeed, D!None, Has, ControlState
<1> QED BY <1>1, <1>2, <1>3, <1>4, <1>5, <1>6, <1>7, <1>8, <1>9, <1>10, <1>11, <1>12, <1>13, <1>14, <1>15,
           <1>16, <1>17, <1>18, <1>19, <1>20, <1>21, <1>22, <1>23, <1>24, <1>25, <1>26, <1>27, <1>28, <1>29,
           <1>30, <1>31, <1>32, <1>33, <1>34, <1>35, <1>36, <1>37 DEF D!Next

(* The network changes only when no feed and no read is left on the old one.*)
LEMMA NetworkStep ==
  ASSUME DesktopInv, D!Next
  PROVE  ~reopened' => OneNetwork'
<1>0. /\ ctl \in ControlState /\ worker \in WorkerState /\ feed \in FeedState
      /\ reads \in [local : Named, lease : Named]
  BY DEF DesktopInv, DesktopTyped
<1>a. FeedHolds /\ DrainHolds /\ WatchesOrdered /\ (~reopened => OpenIsSettled /\ OneNetwork /\ OneAccount)
  BY DEF DesktopInv
<1>t. DesktopTyped /\ DrainHolds /\ DesktopTyped'
  BY DesktopTypedStep DEF DesktopInv
<1>w. /\ worker.watch.serial \in Nat /\ ctl.serial \in Nat /\ ctl.desired.serial \in Nat
      /\ ctl.generation \in Nat /\ D!NoWatch.serial = 0 /\ D!NoWatch.context = D!None
  BY <1>0 DEF ControlState, WorkerState, Watch, D!NoWatch
<1>s. /\ StopOf(ctl, D!Failed(ctl)) /\ StopOf(ctl, D!BeginStop(ctl))
      /\ \A m \in {"update", "exit"} : StopOf(ctl, D!BeginStop([ctl EXCEPT !.mode = m]))
  BY StopsTaken DEF DesktopInv
<1>1. ASSUME NEW context \in Contexts, NEW coin \in {1, 2}, D!SubmitWatch(context, coin)
      PROVE  ~reopened' => OneNetwork'
  BY <1>1, <1>0, <1>a, <1>w, NetworkNamed, AdmissionStep
     DEF D!SubmitWatch, D!SetupBusy, D!ConsentOwned, D!None, FeedHolds, WatchesOrdered, FeedState,
         OpenIsSettled, OneNetwork, D!NoFeed, Has, ControlState, WorkerState
<1>2. ASSUME NEW context \in Contexts, NEW kind \in {"local", "lease"}, D!Read(kind, context)
      PROVE  ~reopened' => OneNetwork'
  BY <1>2, <1>0, <1>a, <1>w, NetworkNamed, AdmissionStep
     DEF D!Read, D!Admits, D!None, FeedHolds, WatchesOrdered, FeedState, OpenIsSettled, OneNetwork,
         D!NoFeed, Has, ControlState
<1>3. ASSUME NEW context \in Contexts, D!LaunchMcp(context)
      PROVE  ~reopened' => OneNetwork'
  BY <1>3, <1>0, <1>a, <1>w, NetworkNamed, AdmissionStep
     DEF D!LaunchMcp, D!Admits, D!None, D!SetupBusy, D!ConsentOwned, D!SelectionAgrees, D!NoWatch,
         D!Control, FeedHolds, WatchesOrdered, FeedState, OpenIsSettled, OneNetwork, D!NoFeed, Has,
         ControlState, McpState
<1>4. ASSUME NEW context \in Contexts, D!ReviewPolicy(context)
      PROVE  ~reopened' => OneNetwork'
  BY <1>4, <1>0, <1>a, <1>w, NetworkNamed, AdmissionStep
     DEF D!ReviewPolicy, D!SetupAdmits, D!None, D!NoWatch, D!SetupBusy, D!ConsentOwned, D!SelectionAgrees,
         D!Control, FeedHolds, WatchesOrdered, FeedState, OpenIsSettled, OneNetwork, D!NoFeed, Has,
         ControlState, SetupState
<1>5. ASSUME NEW context \in Contexts, D!LaunchConsent(context)
      PROVE  ~reopened' => OneNetwork'
  BY <1>5, <1>0, <1>a, <1>w, NetworkNamed, AdmissionStep
     DEF D!LaunchConsent, D!SetupAdmits, D!None, D!NoWatch, D!SetupBusy, D!ConsentOwned, D!SelectionAgrees,
         D!Control, FeedHolds, WatchesOrdered, FeedState, OpenIsSettled, OneNetwork, D!NoFeed, Has,
         ControlState
<1>6. CASE D!TakeWatch
  BY <1>6, <1>0, <1>a, <1>t, <1>w, NetworkNamed, AdmissionStep, TakeWatchDoes
     DEF FeedHolds, WatchesOrdered, FeedState, OpenIsSettled, OneNetwork, D!NoFeed, D!None, Has, Kept
<1>7. CASE D!BeginReplace
  BY <1>7, <1>0, <1>a, <1>t, <1>w, NetworkNamed, AdmissionStep, BeginReplaceDoes
     DEF FeedHolds, WatchesOrdered, FeedState, OpenIsSettled, OneNetwork, D!NoFeed, D!None, Has, Kept
<1>8. CASE D!DrainFeed
  BY <1>8, <1>0, <1>a, <1>t, <1>w, NetworkNamed, AdmissionStep, DrainFeedDoes
     DEF FeedHolds, WatchesOrdered, FeedState, OpenIsSettled, OneNetwork, D!NoFeed, D!None, Has, Kept
<1>9. CASE D!DrainLocal
  BY <1>9, <1>0, <1>a, <1>t, <1>w, NetworkNamed, AdmissionStep, DrainLocalDoes
     DEF FeedHolds, WatchesOrdered, FeedState, OpenIsSettled, OneNetwork, D!NoFeed, D!None, Has, Kept
<1>10. CASE D!DrainLeases
  BY <1>10, <1>0, <1>a, <1>t, <1>w, NetworkNamed, AdmissionStep, DrainLeasesDoes
     DEF FeedHolds, WatchesOrdered, FeedState, OpenIsSettled, OneNetwork, D!NoFeed, D!None, Has, Kept
<1>11. CASE D!Bind
  BY <1>11, <1>0, <1>a, <1>t, <1>w, NetworkNamed, AdmissionStep, BindDoes
     DEF FeedHolds, WatchesOrdered, FeedState, OpenIsSettled, OneNetwork, D!NoFeed, D!None, Has, Kept
<1>12. CASE D!StartFeed
  BY <1>12, <1>0, <1>a, <1>t, <1>w, NetworkNamed, AdmissionStep, StartFeedDoes
     DEF FeedHolds, WatchesOrdered, FeedState, OpenIsSettled, OneNetwork, D!NoFeed, D!None, Has, Kept
<1>13. CASE D!ReplaceChart
  BY <1>13, <1>0, <1>a, <1>t, <1>w, NetworkNamed, AdmissionStep, ReplaceChartDoes
     DEF FeedHolds, WatchesOrdered, FeedState, OpenIsSettled, OneNetwork, D!NoFeed, D!None, Has, Kept
<1>14. CASE D!FinishWatch
  BY <1>14, <1>0, <1>a, <1>t, <1>w, NetworkNamed, AdmissionStep, FinishWatchDoes
     DEF FeedHolds, WatchesOrdered, FeedState, OpenIsSettled, OneNetwork, D!NoFeed, D!None, Has, Kept,
         StopOf
<1>15. ASSUME NEW kind \in {"local", "lease"}, D!ReadEnds(kind)
      PROVE  ~reopened' => OneNetwork'
  BY <1>15, <1>0, <1>a, <1>w, NetworkNamed, AdmissionStep
     DEF D!ReadEnds, D!None, FeedHolds, WatchesOrdered, FeedState, OpenIsSettled, OneNetwork, D!NoFeed, Has,
         ControlState
<1>16. CASE D!FeedFails
  BY <1>16, <1>0, <1>a, <1>w, NetworkNamed, AdmissionStep
     DEF D!FeedFails, D!NoFeed, D!None, FeedHolds, WatchesOrdered, FeedState, OpenIsSettled, OneNetwork,
         Has, ControlState
<1>17. CASE D!CaptureFailure
  BY <1>17, <1>0, <1>a, <1>w, NetworkNamed, AdmissionStep
     DEF D!CaptureFailure, FeedHolds, WatchesOrdered, FeedState, OpenIsSettled, OneNetwork, D!NoFeed,
         D!None, Has, ControlState
<1>18. CASE D!ApplyFailure
  BY <1>18, <1>0, <1>a, <1>w, NetworkNamed, AdmissionStep, <1>s
     DEF D!ApplyFailure, D!FailedFeed, FeedHolds, WatchesOrdered, FeedState, OpenIsSettled, OneNetwork,
         D!NoFeed, D!None, Has, StopOf, ControlState
<1>19. CASE D!PollMcp
  BY <1>19, <1>0, <1>a, <1>w, NetworkNamed, AdmissionStep, <1>s
     DEF D!PollMcp, D!Control, FeedHolds, WatchesOrdered, FeedState, OpenIsSettled, OneNetwork, D!NoFeed,
         D!None, Has, StopOf, ControlState, McpState
<1>20. CASE D!McpStarted
  BY <1>20, <1>0, <1>a, <1>t, <1>w, NetworkNamed, AdmissionStep, McpStartedDoes
     DEF FeedHolds, WatchesOrdered, FeedState, OpenIsSettled, OneNetwork, D!NoFeed, D!None, Has, StopOf,
         McpKept, ControlState
<1>21. CASE D!McpFails
  BY <1>21, <1>0, <1>a, <1>w, NetworkNamed, AdmissionStep
     DEF D!McpFails, D!Control, FeedHolds, WatchesOrdered, FeedState, OpenIsSettled, OneNetwork, D!NoFeed,
         D!None, Has, ControlState, McpState
<1>22. CASE D!Reviewed
  BY <1>22, <1>0, <1>a, <1>w, NetworkNamed, AdmissionStep
     DEF D!Reviewed, D!Control, D!None, FeedHolds, WatchesOrdered, FeedState, OpenIsSettled, OneNetwork,
         D!NoFeed, Has, ControlState, SetupState
<1>23. CASE D!PersistPolicy
  BY <1>23, <1>0, <1>a, <1>w, NetworkNamed, AdmissionStep
     DEF D!PersistPolicy, D!SetupAdmits, D!None, D!NoWatch, D!Control, FeedHolds, WatchesOrdered, FeedState,
         OpenIsSettled, OneNetwork, D!NoFeed, Has, ControlState, SetupState
<1>24. CASE D!Persisted
  BY <1>24, <1>0, <1>a, <1>w, NetworkNamed, AdmissionStep, PersistEnds
     DEF D!None, FeedHolds, WatchesOrdered, FeedState, OpenIsSettled, OneNetwork, D!NoFeed, Has,
         ControlState, SetupState, D!Persisted, D!Control
<1>25. CASE D!DiscardPolicy
  BY <1>25, <1>0, <1>a, <1>w, NetworkNamed, AdmissionStep
     DEF D!DiscardPolicy, D!SetupAdmits, D!None, D!NoWatch, D!Control, FeedHolds, WatchesOrdered, FeedState,
         OpenIsSettled, OneNetwork, D!NoFeed, Has, ControlState, SetupState
<1>26. CASE D!ConsentTakesOver
  BY <1>26, <1>0, <1>a, <1>w, NetworkNamed, AdmissionStep, <1>s
     DEF D!ConsentTakesOver, D!None, D!NoFeed, FeedHolds, WatchesOrdered, FeedState, OpenIsSettled,
         OneNetwork, Has, StopOf, ControlState
<1>27. CASE D!ConsentEnds
  BY <1>27, <1>0, <1>a, <1>w, NetworkNamed, AdmissionStep
     DEF D!ConsentEnds, D!Control, FeedHolds, WatchesOrdered, FeedState, OpenIsSettled, OneNetwork,
         D!NoFeed, D!None, Has, ControlState
<1>28. CASE D!ConsentDrained
  BY <1>28, <1>0, <1>a, <1>w, NetworkNamed, AdmissionStep, <1>s
     DEF D!ConsentDrained, D!None, D!Control, FeedHolds, WatchesOrdered, FeedState, OpenIsSettled,
         OneNetwork, D!NoFeed, Has, StopOf, ControlState
<1>29. CASE D!SetupDrained
  BY <1>29, <1>0, <1>a, <1>w, NetworkNamed, AdmissionStep
     DEF D!SetupDrained, D!None, D!Control, FeedHolds, WatchesOrdered, FeedState, OpenIsSettled, OneNetwork,
         D!NoFeed, Has, ControlState
<1>30. CASE D!McpDrained
  BY <1>30, <1>0, <1>a, <1>t, <1>w, NetworkNamed, AdmissionStep, McpDrainedDoes
     DEF FeedHolds, WatchesOrdered, FeedState, OpenIsSettled, OneNetwork, D!NoFeed, D!None, Has, StopOf,
         McpKept, ControlState
<1>31. CASE D!WorkerDrained
  BY <1>31, <1>0, <1>a, <1>w, NetworkNamed, AdmissionStep
     DEF D!WorkerDrained, D!Control, FeedHolds, WatchesOrdered, FeedState, OpenIsSettled, OneNetwork,
         D!NoFeed, D!None, Has, ControlState
<1>32. CASE D!FeedDrained
  BY <1>32, <1>0, <1>a, <1>w, NetworkNamed, AdmissionStep, <1>s
     DEF D!FeedDrained, D!NoFeed, D!None, FeedHolds, WatchesOrdered, FeedState, OpenIsSettled, OneNetwork,
         Has, StopOf, ControlState
<1>33. CASE D!ReadsDrained
  BY <1>33, <1>0, <1>a, <1>w, NetworkNamed, AdmissionStep
     DEF D!ReadsDrained, D!None, D!Control, FeedHolds, WatchesOrdered, FeedState, OpenIsSettled, OneNetwork,
         D!NoFeed, Has, ControlState
<1>34. CASE D!BeginUpdate
  BY <1>34, <1>0, <1>a, <1>w, NetworkNamed, AdmissionStep, <1>s
     DEF D!BeginUpdate, D!None, D!Program, FeedHolds, WatchesOrdered, FeedState, OpenIsSettled, OneNetwork,
         D!NoFeed, Has, StopOf, ControlState
<1>35. CASE D!InstallUpdate
  BY <1>35, <1>0, <1>a, <1>w, NetworkNamed, AdmissionStep
     DEF D!InstallUpdate, D!Ended, D!Program, D!None, FeedHolds, WatchesOrdered, FeedState, OpenIsSettled,
         OneNetwork, D!NoFeed, Has, ControlState
<1>36. CASE D!RequestExit
  BY <1>36, <1>0, <1>a, <1>w, NetworkNamed, AdmissionStep, <1>s
     DEF D!RequestExit, D!None, D!Program, FeedHolds, WatchesOrdered, FeedState, OpenIsSettled, OneNetwork,
         D!NoFeed, Has, StopOf, ControlState
<1>37. CASE D!Exit
  BY <1>37, <1>0, <1>a, <1>w, NetworkNamed, AdmissionStep
     DEF D!Exit, D!ExitAllowed, D!Ended, D!Program, FeedHolds, WatchesOrdered, FeedState, OpenIsSettled,
         OneNetwork, D!NoFeed, D!None, Has, ControlState
<1> QED BY <1>1, <1>2, <1>3, <1>4, <1>5, <1>6, <1>7, <1>8, <1>9, <1>10, <1>11, <1>12, <1>13, <1>14, <1>15,
           <1>16, <1>17, <1>18, <1>19, <1>20, <1>21, <1>22, <1>23, <1>24, <1>25, <1>26, <1>27, <1>28, <1>29,
           <1>30, <1>31, <1>32, <1>33, <1>34, <1>35, <1>36, <1>37 DEF D!Next

(* A watch of another account than the MCP owner's is refused, and an owner  *)
(* of another account than the watches' (submit_watch, launch_mcp).         *)
LEMMA AccountStep ==
  ASSUME DesktopInv, D!Next
  PROVE  ~reopened' => OneAccount'
<1>0. /\ ctl \in ControlState /\ worker \in WorkerState /\ feed \in FeedState
      /\ reads \in [local : Named, lease : Named]
  BY DEF DesktopInv, DesktopTyped
<1>a. FeedHolds /\ DrainHolds /\ WatchesOrdered /\ (~reopened => OpenIsSettled /\ OneNetwork /\ OneAccount)
  BY DEF DesktopInv
<1>t. DesktopTyped /\ DrainHolds /\ DesktopTyped'
  BY DesktopTypedStep DEF DesktopInv
<1>w. /\ worker.watch.serial \in Nat /\ ctl.serial \in Nat /\ ctl.desired.serial \in Nat
      /\ ctl.generation \in Nat /\ D!NoWatch.serial = 0 /\ D!NoWatch.context = D!None
  BY <1>0 DEF ControlState, WorkerState, Watch, D!NoWatch
<1>s. /\ StopOf(ctl, D!Failed(ctl)) /\ StopOf(ctl, D!BeginStop(ctl))
      /\ \A m \in {"update", "exit"} : StopOf(ctl, D!BeginStop([ctl EXCEPT !.mode = m]))
  BY StopsTaken DEF DesktopInv
<1>1. ASSUME NEW context \in Contexts, NEW coin \in {1, 2}, D!SubmitWatch(context, coin)
      PROVE  ~reopened' => OneAccount'
  BY <1>1, <1>0, <1>a, <1>w, AdmissionStep
     DEF D!SubmitWatch, D!SetupBusy, D!ConsentOwned, D!None, FeedHolds, WatchesOrdered, FeedState,
         OpenIsSettled, OneAccount, D!NoFeed, Has, ControlState, WorkerState
<1>2. ASSUME NEW context \in Contexts, NEW kind \in {"local", "lease"}, D!Read(kind, context)
      PROVE  ~reopened' => OneAccount'
  BY <1>2, <1>0, <1>a, <1>w, AdmissionStep
     DEF D!Read, D!Admits, D!None, FeedHolds, WatchesOrdered, FeedState, OpenIsSettled, OneAccount,
         D!NoFeed, Has, ControlState
<1>3. ASSUME NEW context \in Contexts, D!LaunchMcp(context)
      PROVE  ~reopened' => OneAccount'
  BY <1>3, <1>0, <1>a, <1>w, AdmissionStep
     DEF D!LaunchMcp, D!Admits, D!None, D!SetupBusy, D!ConsentOwned, D!SelectionAgrees, D!NoWatch,
         D!Control, FeedHolds, WatchesOrdered, FeedState, OpenIsSettled, OneAccount, D!NoFeed, Has,
         ControlState, McpState
<1>4. ASSUME NEW context \in Contexts, D!ReviewPolicy(context)
      PROVE  ~reopened' => OneAccount'
  BY <1>4, <1>0, <1>a, <1>w, AdmissionStep
     DEF D!ReviewPolicy, D!SetupAdmits, D!None, D!NoWatch, D!SetupBusy, D!ConsentOwned, D!SelectionAgrees,
         D!Control, FeedHolds, WatchesOrdered, FeedState, OpenIsSettled, OneAccount, D!NoFeed, Has,
         ControlState, SetupState
<1>5. ASSUME NEW context \in Contexts, D!LaunchConsent(context)
      PROVE  ~reopened' => OneAccount'
  BY <1>5, <1>0, <1>a, <1>w, AdmissionStep
     DEF D!LaunchConsent, D!SetupAdmits, D!None, D!NoWatch, D!SetupBusy, D!ConsentOwned, D!SelectionAgrees,
         D!Control, FeedHolds, WatchesOrdered, FeedState, OpenIsSettled, OneAccount, D!NoFeed, Has,
         ControlState
<1>6. CASE D!TakeWatch
  BY <1>6, <1>0, <1>a, <1>t, <1>w, AdmissionStep, TakeWatchDoes
     DEF FeedHolds, WatchesOrdered, FeedState, OpenIsSettled, OneAccount, D!NoFeed, D!None, Has, Kept
<1>7. CASE D!BeginReplace
  BY <1>7, <1>0, <1>a, <1>t, <1>w, AdmissionStep, BeginReplaceDoes
     DEF FeedHolds, WatchesOrdered, FeedState, OpenIsSettled, OneAccount, D!NoFeed, D!None, Has, Kept
<1>8. CASE D!DrainFeed
  BY <1>8, <1>0, <1>a, <1>t, <1>w, AdmissionStep, DrainFeedDoes
     DEF FeedHolds, WatchesOrdered, FeedState, OpenIsSettled, OneAccount, D!NoFeed, D!None, Has, Kept
<1>9. CASE D!DrainLocal
  BY <1>9, <1>0, <1>a, <1>t, <1>w, AdmissionStep, DrainLocalDoes
     DEF FeedHolds, WatchesOrdered, FeedState, OpenIsSettled, OneAccount, D!NoFeed, D!None, Has, Kept
<1>10. CASE D!DrainLeases
  BY <1>10, <1>0, <1>a, <1>t, <1>w, AdmissionStep, DrainLeasesDoes
     DEF FeedHolds, WatchesOrdered, FeedState, OpenIsSettled, OneAccount, D!NoFeed, D!None, Has, Kept
<1>11. CASE D!Bind
  BY <1>11, <1>0, <1>a, <1>t, <1>w, AdmissionStep, BindDoes
     DEF FeedHolds, WatchesOrdered, FeedState, OpenIsSettled, OneAccount, D!NoFeed, D!None, Has, Kept
<1>12. CASE D!StartFeed
  BY <1>12, <1>0, <1>a, <1>t, <1>w, AdmissionStep, StartFeedDoes
     DEF FeedHolds, WatchesOrdered, FeedState, OpenIsSettled, OneAccount, D!NoFeed, D!None, Has, Kept
<1>13. CASE D!ReplaceChart
  BY <1>13, <1>0, <1>a, <1>t, <1>w, AdmissionStep, ReplaceChartDoes
     DEF FeedHolds, WatchesOrdered, FeedState, OpenIsSettled, OneAccount, D!NoFeed, D!None, Has, Kept
<1>14. CASE D!FinishWatch
  BY <1>14, <1>0, <1>a, <1>t, <1>w, AdmissionStep, FinishWatchDoes
     DEF FeedHolds, WatchesOrdered, FeedState, OpenIsSettled, OneAccount, D!NoFeed, D!None, Has, Kept,
         StopOf
<1>15. ASSUME NEW kind \in {"local", "lease"}, D!ReadEnds(kind)
      PROVE  ~reopened' => OneAccount'
  BY <1>15, <1>0, <1>a, <1>w, AdmissionStep
     DEF D!ReadEnds, D!None, FeedHolds, WatchesOrdered, FeedState, OpenIsSettled, OneAccount, D!NoFeed, Has,
         ControlState
<1>16. CASE D!FeedFails
  BY <1>16, <1>0, <1>a, <1>w, AdmissionStep
     DEF D!FeedFails, D!NoFeed, D!None, FeedHolds, WatchesOrdered, FeedState, OpenIsSettled, OneAccount,
         Has, ControlState
<1>17. CASE D!CaptureFailure
  BY <1>17, <1>0, <1>a, <1>w, AdmissionStep
     DEF D!CaptureFailure, FeedHolds, WatchesOrdered, FeedState, OpenIsSettled, OneAccount, D!NoFeed,
         D!None, Has, ControlState
<1>18. CASE D!ApplyFailure
  BY <1>18, <1>0, <1>a, <1>w, AdmissionStep, <1>s
     DEF D!ApplyFailure, D!FailedFeed, FeedHolds, WatchesOrdered, FeedState, OpenIsSettled, OneAccount,
         D!NoFeed, D!None, Has, StopOf, ControlState
<1>19. CASE D!PollMcp
  BY <1>19, <1>0, <1>a, <1>w, AdmissionStep, <1>s
     DEF D!PollMcp, D!Control, FeedHolds, WatchesOrdered, FeedState, OpenIsSettled, OneAccount, D!NoFeed,
         D!None, Has, StopOf, ControlState, McpState
<1>20. CASE D!McpStarted
  BY <1>20, <1>0, <1>a, <1>t, <1>w, AdmissionStep, McpStartedDoes
     DEF FeedHolds, WatchesOrdered, FeedState, OpenIsSettled, OneAccount, D!NoFeed, D!None, Has, StopOf,
         McpKept, ControlState
<1>21. CASE D!McpFails
  BY <1>21, <1>0, <1>a, <1>w, AdmissionStep
     DEF D!McpFails, D!Control, FeedHolds, WatchesOrdered, FeedState, OpenIsSettled, OneAccount, D!NoFeed,
         D!None, Has, ControlState, McpState
<1>22. CASE D!Reviewed
  BY <1>22, <1>0, <1>a, <1>w, AdmissionStep
     DEF D!Reviewed, D!Control, D!None, FeedHolds, WatchesOrdered, FeedState, OpenIsSettled, OneAccount,
         D!NoFeed, Has, ControlState, SetupState
<1>23. CASE D!PersistPolicy
  BY <1>23, <1>0, <1>a, <1>w, AdmissionStep
     DEF D!PersistPolicy, D!SetupAdmits, D!None, D!NoWatch, D!Control, FeedHolds, WatchesOrdered, FeedState,
         OpenIsSettled, OneAccount, D!NoFeed, Has, ControlState, SetupState
<1>24. CASE D!Persisted
  BY <1>24, <1>0, <1>a, <1>w, AdmissionStep, PersistEnds
     DEF D!None, FeedHolds, WatchesOrdered, FeedState, OpenIsSettled, OneAccount, D!NoFeed, Has,
         ControlState, SetupState, D!Persisted, D!Control
<1>25. CASE D!DiscardPolicy
  BY <1>25, <1>0, <1>a, <1>w, AdmissionStep
     DEF D!DiscardPolicy, D!SetupAdmits, D!None, D!NoWatch, D!Control, FeedHolds, WatchesOrdered, FeedState,
         OpenIsSettled, OneAccount, D!NoFeed, Has, ControlState, SetupState
<1>26. CASE D!ConsentTakesOver
  BY <1>26, <1>0, <1>a, <1>w, AdmissionStep, <1>s
     DEF D!ConsentTakesOver, D!None, D!NoFeed, FeedHolds, WatchesOrdered, FeedState, OpenIsSettled,
         OneAccount, Has, StopOf, ControlState
<1>27. CASE D!ConsentEnds
  BY <1>27, <1>0, <1>a, <1>w, AdmissionStep
     DEF D!ConsentEnds, D!Control, FeedHolds, WatchesOrdered, FeedState, OpenIsSettled, OneAccount,
         D!NoFeed, D!None, Has, ControlState
<1>28. CASE D!ConsentDrained
  BY <1>28, <1>0, <1>a, <1>w, AdmissionStep, <1>s
     DEF D!ConsentDrained, D!None, D!Control, FeedHolds, WatchesOrdered, FeedState, OpenIsSettled,
         OneAccount, D!NoFeed, Has, StopOf, ControlState
<1>29. CASE D!SetupDrained
  BY <1>29, <1>0, <1>a, <1>w, AdmissionStep
     DEF D!SetupDrained, D!None, D!Control, FeedHolds, WatchesOrdered, FeedState, OpenIsSettled, OneAccount,
         D!NoFeed, Has, ControlState
<1>30. CASE D!McpDrained
  BY <1>30, <1>0, <1>a, <1>t, <1>w, AdmissionStep, McpDrainedDoes
     DEF FeedHolds, WatchesOrdered, FeedState, OpenIsSettled, OneAccount, D!NoFeed, D!None, Has, StopOf,
         McpKept, ControlState
<1>31. CASE D!WorkerDrained
  BY <1>31, <1>0, <1>a, <1>w, AdmissionStep
     DEF D!WorkerDrained, D!Control, FeedHolds, WatchesOrdered, FeedState, OpenIsSettled, OneAccount,
         D!NoFeed, D!None, Has, ControlState
<1>32. CASE D!FeedDrained
  BY <1>32, <1>0, <1>a, <1>w, AdmissionStep, <1>s
     DEF D!FeedDrained, D!NoFeed, D!None, FeedHolds, WatchesOrdered, FeedState, OpenIsSettled, OneAccount,
         Has, StopOf, ControlState
<1>33. CASE D!ReadsDrained
  BY <1>33, <1>0, <1>a, <1>w, AdmissionStep
     DEF D!ReadsDrained, D!None, D!Control, FeedHolds, WatchesOrdered, FeedState, OpenIsSettled, OneAccount,
         D!NoFeed, Has, ControlState
<1>34. CASE D!BeginUpdate
  BY <1>34, <1>0, <1>a, <1>w, AdmissionStep, <1>s
     DEF D!BeginUpdate, D!None, D!Program, FeedHolds, WatchesOrdered, FeedState, OpenIsSettled, OneAccount,
         D!NoFeed, Has, StopOf, ControlState
<1>35. CASE D!InstallUpdate
  BY <1>35, <1>0, <1>a, <1>w, AdmissionStep
     DEF D!InstallUpdate, D!Ended, D!Program, D!None, FeedHolds, WatchesOrdered, FeedState, OpenIsSettled,
         OneAccount, D!NoFeed, Has, ControlState
<1>36. CASE D!RequestExit
  BY <1>36, <1>0, <1>a, <1>w, AdmissionStep, <1>s
     DEF D!RequestExit, D!None, D!Program, FeedHolds, WatchesOrdered, FeedState, OpenIsSettled, OneAccount,
         D!NoFeed, Has, StopOf, ControlState
<1>37. CASE D!Exit
  BY <1>37, <1>0, <1>a, <1>w, AdmissionStep
     DEF D!Exit, D!ExitAllowed, D!Ended, D!Program, FeedHolds, WatchesOrdered, FeedState, OpenIsSettled,
         OneAccount, D!NoFeed, D!None, Has, ControlState
<1> QED BY <1>1, <1>2, <1>3, <1>4, <1>5, <1>6, <1>7, <1>8, <1>9, <1>10, <1>11, <1>12, <1>13, <1>14, <1>15,
           <1>16, <1>17, <1>18, <1>19, <1>20, <1>21, <1>22, <1>23, <1>24, <1>25, <1>26, <1>27, <1>28, <1>29,
           <1>30, <1>31, <1>32, <1>33, <1>34, <1>35, <1>36, <1>37 DEF D!Next

(* The invariant holds at the start, where nothing runs. *)
LEMMA DesktopInit == D!Init => DesktopInv
<1> SUFFICES ASSUME D!Init PROVE DesktopInv
  OBVIOUS
<1> DEFINE mcp == [context |-> D!None, phase |-> "idle", worker |-> FALSE, owned |-> FALSE]
<1> DEFINE setup == [phase |-> "idle", job |-> D!None, review |-> FALSE, retry |-> FALSE, committed |-> FALSE]
<1>1. mcp \in McpState /\ mcp.context = D!None /\ ~mcp.worker /\ ~mcp.owned
  BY DEF McpState, Named
<1>2. setup \in SetupState /\ setup.phase = "idle" /\ setup.job = D!None /\ ~setup.committed
  BY DEF SetupState
<1>3. ctl = [phase |-> "running", terminal |-> FALSE, detail |-> FALSE, network |-> D!None,
             generation |-> 0, serial |-> 0, binding |-> 0, chart |-> 0, account |-> 0,
             selection |-> D!NoWatch, desired |-> D!NoWatch, reading |-> TRUE, mode |-> D!None,
             mcp |-> mcp, setup |-> setup, consent |-> D!None, closing |-> FALSE, drain |-> D!None]
  BY DEF D!Init
<1> HIDE DEF mcp, setup
<1>4. ctl \in ControlState
  BY <1>1, <1>2, <1>3, NoWatchIsWatch DEF ControlState, Networks
<1>5. /\ ~ctl.terminal /\ ctl.drain = D!None /\ ctl.phase = "running" /\ ctl.consent = D!None
      /\ ctl.setup = setup /\ ctl.mcp = mcp /\ ctl.network = D!None /\ ctl.serial = 0 /\ ctl.binding = 0
      /\ ctl.desired = D!NoWatch /\ ctl.selection = D!NoWatch
  BY <1>3
<1>6. /\ worker = [at |-> "idle", watch |-> D!NoWatch, stops |-> FALSE, failed |-> FALSE, result |-> D!None]
      /\ feed = D!NoFeed /\ reads = [local |-> D!None, lease |-> D!None]
      /\ captured = 0 /\ program = [update |-> D!None, exit |-> D!None] /\ reopened = FALSE
  BY DEF D!Init
<1>7. worker \in WorkerState /\ feed \in FeedState /\ reads \in [local : Named, lease : Named]
  BY <1>6, NoWatchIsWatch DEF WorkerState, FeedState, D!NoFeed, Named
<1>8. /\ worker.at = "idle" /\ worker.watch = D!NoWatch /\ reads.local = D!None /\ reads.lease = D!None
      /\ program.update = D!None /\ program.exit = D!None /\ D!NoWatch.serial = 0 /\ D!NoWatch.context = D!None
  BY <1>6 DEF D!NoWatch
<1>9. DesktopTyped
  BY <1>4, <1>6, <1>7 DEF DesktopTyped
<1>10. DrainHolds /\ SetupHolds
  BY <1>2, <1>5, <1>8 DEF DrainHolds, SetupHolds, D!SetupOutcomeKept, D!Ended, D!None
<1>11. WatchesOrdered /\ FeedHolds
  BY <1>5, <1>6, <1>8 DEF WatchesOrdered, FeedHolds, Has, D!None
<1>12. OpenIsSettled /\ OneNetwork /\ OneAccount
  BY <1>1, <1>5, <1>6, <1>8 DEF OpenIsSettled, OneNetwork, OneAccount, Has
<1> QED BY <1>9, <1>10, <1>11, <1>12 DEF DesktopInv

(* The invariant is kept by every step. *)
LEMMA DesktopStep ==
  ASSUME DesktopInv, D!Next
  PROVE  DesktopInv'
<1>1. DesktopTyped'
  BY DesktopTypedStep DEF DesktopInv
<1> QED BY <1>1, DrainStep, SetupStep, WatchesStep, FeedStep, AdmissionStep, NetworkStep, AccountStep DEF DesktopInv

(* It says what the desktop promises. *)
LEMMA DesktopInvSound == DesktopInv => D!DesktopSound
<1> SUFFICES ASSUME DesktopInv PROVE D!DesktopSound
  OBVIOUS
<1>1. D!StoppedIsDrained
  <2>1. reads.local = D!None /\ reads.lease = D!None => reads = [local |-> D!None, lease |-> D!None]
    BY DEF DesktopInv, DesktopTyped
  <2> QED BY <2>1 DEF DesktopInv, DrainHolds, D!StoppedIsDrained, D!Ended, D!None
<1>2. D!SetupOutcomeKept
  BY DEF DesktopInv, SetupHolds
<1>3. ASSUME ~reopened PROVE D!ReadsBelongToTheFeed
  <2>1. reads \in [local : Named, lease : Named]
    BY DEF DesktopInv, DesktopTyped
  <2>2. DOMAIN reads = {"local", "lease"}
    BY <2>1
  <2> QED BY <1>3, <2>2 DEF DesktopInv, OneNetwork, Has, D!ReadsBelongToTheFeed
<1>4. ASSUME ~reopened PROVE D!McpKeepsItsContext
  <2> SUFFICES ASSUME NEW context \in Contexts, D!CommandReaches(context), feed.context # D!None
               PROVE  feed.context = context
    BY DEF D!McpKeepsItsContext
  <2>1. Has(feed)
    BY DEF Has, D!NoFeed
  <2>2. ctl.mcp.context = context /\ context # D!None
    BY ContextsAreNamed DEF D!CommandReaches
  <2> QED BY <1>3, <1>4, <2>1, <2>2 DEF DesktopInv, FeedHolds, OneAccount
<1>5. ASSUME ~reopened PROVE D!BindingIsInstalled
  BY <1>5 DEF DesktopInv, OpenIsSettled, FeedHolds, Has, D!BindingIsInstalled
<1> QED BY <1>1, <1>2, <1>3, <1>4, <1>5 DEF D!DesktopSound

(* A failure read from the slot stops the runtime only for the feed it was  *)
(* read from, or when there is none.                                        *)
LEMMA ReplacedFeedStep ==
  ASSUME DesktopInv, D!Next
  PROVE  D!ReplacedFeedStopsNothing
<1>1. CASE captured' = captured
  BY <1>1 DEF D!ReplacedFeedStopsNothing
<1>2. CASE D!CaptureFailure
  BY <1>2 DEF D!CaptureFailure, D!ReplacedFeedStopsNothing
<1>3. CASE D!ApplyFailure
  <2>1. ctl' = ctl \/ ctl.account = captured
    BY <1>3 DEF D!ApplyFailure, D!FailedFeed
  <2>2. feed = D!NoFeed => feed.generation = 0
    BY DEF D!NoFeed
  <2> QED BY <2>1, <2>2 DEF D!ReplacedFeedStopsNothing, DesktopInv, FeedHolds, Has
<1> QED BY <1>1, <1>2, <1>3, CapturedFrame

(* The desktop's invariant is about its variables alone. *)
LEMMA DesktopKept == DesktopInv /\ UNCHANGED desktopVars => DesktopInv'
BY DEF desktopVars, DesktopInv, DesktopTyped, DrainHolds, SetupHolds, WatchesOrdered, FeedHolds, OpenIsSettled,
       OneNetwork, OneAccount, Has, D!Ended, D!SetupOutcomeKept

(* The control, the worker, the feed, the reads and the program's tasks     *)
(* always fit: what a stage of the drain joined is gone, a pending watch is *)
(* the newest, the slot's feed is the selection's and on the network of     *)
(* every read, and one account has the MCP owner, its feed and its watches  *)
(* (Control, submit_watch, run_watches, replace_feed and drain of           *)
(* runtime.rs).                                                             *)
THEOREM DesktopInvariant == NodeSpec => []DesktopInv
<1>1. NodeInit => DesktopInv
  BY DesktopInit DEF NodeInit
<1>2. DesktopInv /\ [NodeNext]_<<focus, vars, desktopVars>> => DesktopInv'
  <2> SUFFICES ASSUME DesktopInv, [NodeNext]_<<focus, vars, desktopVars>> PROVE DesktopInv'
    OBVIOUS
  <2>1. CASE D!Next
    BY <2>1, DesktopStep
  <2>2. CASE UNCHANGED desktopVars
    BY <2>2, DesktopKept
  <2> QED BY <2>1, <2>2 DEF NodeNext
<1> QED BY <1>1, <1>2, PTL DEF NodeSpec

(* For any contexts, commands and failures: a stop is complete when it is   *)
(* reported, and before an update is installed or the program exits; while  *)
(* admission was never opened under a newer watch, no read and no agent     *)
(* belongs to another account or network than the feed; the outcome of a    *)
(* policy write is kept until it settles; and the failure of a replaced     *)
(* feed stops nothing (runtime.rs: begin_stop, drain, fail_bound, admit,    *)
(* setup_admit and the settling of a policy write).                         *)
THEOREM DesktopIsSound == NodeSpec => DesktopHolds
<1>1. DesktopInv => (focus = "desktop" => D!DesktopSound)
  BY DesktopInvSound
<1>2. DesktopInv /\ [NodeNext]_<<focus, vars, desktopVars>>
        => [focus = "desktop" => D!ReplacedFeedStopsNothing]_desktopVars
  <2> SUFFICES ASSUME DesktopInv, [NodeNext]_<<focus, vars, desktopVars>>
               PROVE  [focus = "desktop" => D!ReplacedFeedStopsNothing]_desktopVars
    OBVIOUS
  <2>1. CASE D!Next
    BY <2>1, ReplacedFeedStep
  <2>2. CASE UNCHANGED desktopVars
    BY <2>2
  <2> QED BY <2>1, <2>2 DEF NodeNext
<1> QED BY <1>1, <1>2, DesktopInvariant, PTL DEF NodeSpec, DesktopHolds
==============================================================================
