---------------------------- MODULE OrdersProofs ----------------------------
(***************************************************************************)
(* What becomes of an order, for every value of the constants.             *)
(*                                                                         *)
(* The gateways: an order is dispatched once, and no order escapes the     *)
(* reservation of the one before it.                                       *)
(*                                                                         *)
(* Approvals: what the operator approves is what is signed, with any       *)
(* crashes, faults, lost races and second clicks.  The journal only grows  *)
(* and no row undoes a decision, so what the queue read before it lost the *)
(* ledger's lock stays true of it; and a review is in one hand at a time:  *)
(* displayed, retained or at work.                                         *)
(*                                                                         *)
(* The pilot: its consent is told as it is, its durable stop holds, and    *)
(* its budget holds at the venue although fills arrive late, repeated or   *)
(* never.                                                                  *)
(***************************************************************************)
EXTENDS MCSubmissions, Sequences, Sums, TLAPS

-----------------------------------------------------------------------------
(* The gateways                                                            *)
(*                                                                         *)
(* The inductive invariant says what each gateway may rely on at each of   *)
(* its steps although it holds no ledger lock between them: its own start  *)
(* stays the pending one until it is sent or resolved, and a permit whose  *)
(* revision is still current means that every order ever sent had settled  *)
(* before the permit was given.                                            *)


(* Steps at which a gateway holds the receipt of its start *)
Holding == {"begun", "signed", "notsent", "sent", "refused"}

Unsent == {"begun", "signed", "notsent"}

Permitted == {"permit", "ready"}

(* Rows, outcomes and dispatches belong together. *)
Recorded ==
  \A c \in Cloids :
    /\ started[c] <= revision /\ resolved[c] <= revision
    /\ resolved[c] = 0 <=> outcome[c] = "none"
    /\ venue[c] = "unsent" <=> sends[c] = 0
    /\ sends[c] # 0 => started[c] # 0

(* What a resolution says is true of the venue and stays so. *)
Definite ==
  \A c \in Cloids :
    /\ outcome[c] = "not_sent" => sends[c] = 0
    /\ outcome[c] = "rejected" => venue[c] = "rejected"
    /\ outcome[c] = "observed" => venue[c] \in Taken \cup {"rejected"}

(* What a gateway in state s relies on *)
Relies(s) ==
  /\ s.step \in Holding \cup {"lookup", "observed"} => s.cloid \in Cloids /\ started[s.cloid] # 0
  /\ s.step \in Unsent => sends[s.cloid] = 0 /\ resolved[s.cloid] = 0
  /\ s.step = "refused" => venue[s.cloid] = "rejected"
  /\ s.step = "observed" => venue[s.cloid] \in Taken \cup {"rejected"}
  /\ s.step \in Permitted => s.rev <= revision /\ (s.rev = revision => Pending = {})
  /\ s.step = "ready" /\ s.rev = revision =>
       \A c \in Cloids : Committed(c) => c \in s.seen
  /\ s.step \in {"begun", "signed"} =>
       \A c \in Cloids \ {s.cloid} : Committed(c) => c \in s.seen

OneHolder ==
  \A g, h \in Gateways :
    g # h /\ gateway[g].step \in Holding /\ gateway[h].step \in Holding => Own(g) # Own(h)

Inductive ==
  /\ TypeOK
  /\ Recorded
  /\ ReplayAccepts
  /\ Definite
  /\ DispatchedOnce
  /\ \A g \in Gateways : Relies(gateway[g])
  /\ OneHolder

-----------------------------------------------------------------------------

(* What the states a gateway starts a step from are *)
LEMMA IdleFields ==
  /\ Idle \in Gateway
  /\ Idle.step = "idle"
  /\ [Idle EXCEPT !.step = "restate"] \in Gateway
  /\ [Idle EXCEPT !.step = "restate"].step = "restate"
  /\ \A c \in Cloids : /\ [Idle EXCEPT !.step = "lookup", !.cloid = c] \in Gateway
                       /\ [Idle EXCEPT !.step = "lookup", !.cloid = c].step = "lookup"
                       /\ [Idle EXCEPT !.step = "lookup", !.cloid = c].cloid = c
                       /\ [Idle EXCEPT !.step = "sent", !.cloid = c] \in Gateway
                       /\ [Idle EXCEPT !.step = "sent", !.cloid = c].step = "sent"
                       /\ [Idle EXCEPT !.step = "sent", !.cloid = c].cloid = c
  /\ \A r \in Nat : /\ [Idle EXCEPT !.step = "permit", !.rev = r] \in Gateway
                    /\ [Idle EXCEPT !.step = "permit", !.rev = r].step = "permit"
                    /\ [Idle EXCEPT !.step = "permit", !.rev = r].rev = r
BY DEF Idle, Gateway, GatewaySteps

(* Two starts are never pending at once. *)
LEMMA OnePending ==
  ASSUME ReplayAccepts, NEW c \in Pending, NEW d \in Pending
  PROVE  c = d
BY DEF ReplayAccepts, Pending

(* The start a gateway holds unsent is the pending one. *)
LEMMA HoldersPend ==
  ASSUME Inductive, NEW g \in Gateways, gateway[g].step \in Unsent
  PROVE  Own(g) \in Pending
BY DEF Inductive, Relies, Unsent, Holding, Pending, Own

(* A gateway's reliance survives the steps of others: those that leave the *)
(* journal and the venue alone ...                                         *)
LEMMA ReliesFrame ==
  ASSUME Inductive, NEW h \in Gateways, gateway'[h] = gateway[h],
         UNCHANGED <<journal, world>>
  PROVE  Relies(gateway[h])'
BY DEF Inductive, Relies, journal, world, Pending, Committed

(* ... a start, which needs that nothing is pending and ends all permits . *)
LEMMA ReliesStart ==
  ASSUME Inductive, NEW h \in Gateways, gateway'[h] = gateway[h], NEW c \in Cloids,
         Pending = {}, AppendStart(c), UNCHANGED world
  PROVE  Relies(gateway[h])'
<1>1. gateway[h].step \notin Unsent
  BY HoldersPend
<1>2. gateway[h].rev \in Nat /\ revision \in Nat /\ revision' = revision + 1
  BY DEF Inductive, TypeOK, Gateway, AppendStart
<1>3. \A d \in Cloids : started[d] # 0 => started'[d] # 0
  BY <1>2 DEF AppendStart, Inductive, TypeOK
<1> QED BY <1>1, <1>2, <1>3 DEF Inductive, Relies, Unsent, Holding, Permitted, world

(* ... a resolution of somebody else's start ...                           *)
LEMMA ReliesResolve ==
  ASSUME Inductive, NEW h \in Gateways, gateway'[h] = gateway[h], NEW c \in Cloids,
         NEW result \in Outcomes, gateway[h].step \in Unsent => Own(h) # c,
         Resolve(c, result), UNCHANGED world
  PROVE  Relies(gateway[h])'
<1>1. CASE resolved[c] # 0
  BY <1>1, ReliesFrame DEF Resolve, world, journal
<1>2. CASE resolved[c] = 0
  <2>1. gateway[h].rev \in Nat /\ revision \in Nat /\ revision' = revision + 1
    BY <1>2 DEF Inductive, TypeOK, Gateway, Resolve
  <2>2. UNCHANGED started /\ \A d \in Cloids : d # c => resolved'[d] = resolved[d]
    BY <1>2 DEF Resolve, Inductive, TypeOK
  <2> QED BY <2>1, <2>2 DEF Inductive, Relies, Unsent, Holding, Permitted, world, Own, Committed
<1> QED BY <1>1, <1>2

(* ... a dispatch, which only the pending start allows ...                 *)
LEMMA ReliesPost ==
  ASSUME Inductive, NEW h \in Gateways, gateway'[h] = gateway[h], NEW c \in Pending,
         sends[c] = 0, gateway[h].step \in Unsent => Own(h) # c,
         venue' = [venue EXCEPT ![c] = "inflight"], UNCHANGED journal,
         sends' = [sends EXCEPT ![c] = @ + 1]
  PROVE  Relies(gateway[h])'
<1>1. gateway[h].step \notin Unsent
  BY HoldersPend, OnePending DEF Inductive
<1>2. gateway[h].step \in Permitted => gateway[h].rev # revision
  BY DEF Inductive, Relies
<1>3. c \in Cloids /\ venue[c] = "unsent"
  BY DEF Inductive, Recorded, Pending
<1>4. \A d \in Cloids : d # c => venue'[d] = venue[d]
  BY DEF Inductive, TypeOK
<1> QED BY <1>1, <1>2, <1>3, <1>4 DEF Inductive, Relies, Unsent, Holding, Permitted, Taken,
                                    journal, Pending

(* ... and whatever the venue does with what it was sent.                  *)
LEMMA ReliesVenue ==
  ASSUME Inductive, NEW h \in Gateways, NEW c \in Cloids, NEW fate \in Fates \ {"unsent"},
         VenueStep(c, {"inflight"}, fate) \/ VenueStep(c, {"resting"}, fate),
         venue[c] = "resting" => fate \in Taken
  PROVE  Relies(gateway[h])'
<1>1. UNCHANGED <<journal, gateway, sends>> /\ venue[c] \in {"inflight", "resting"}
  BY DEF VenueStep
<1>2. venue' = [venue EXCEPT ![c] = fate]
  BY DEF VenueStep
<1>3. \A d \in Cloids : /\ venue[d] = "rejected" => venue'[d] = "rejected"
                        /\ venue[d] \in Taken => venue'[d] \in Taken
                        /\ venue'[d] # "rejected" => venue[d] # "rejected"
  BY <1>1, <1>2 DEF Inductive, TypeOK, Taken
<1> QED BY <1>1, <1>3 DEF Inductive, Relies, Unsent, Holding, Permitted, journal, Pending, Committed

-----------------------------------------------------------------------------
(* The journal *)

(* begin keeps the rows replayable and what they say true ... *)
LEMMA JournalStart ==
  ASSUME Inductive, NEW c \in Cloids, Pending = {}, started[c] = 0,
         AppendStart(c), UNCHANGED world
  PROVE  Recorded' /\ ReplayAccepts' /\ Definite' /\ DispatchedOnce'
<1>1. revision \in Nat /\ revision' = revision + 1 /\ UNCHANGED <<resolved, outcome, venue, sends>>
  BY DEF Inductive, TypeOK, AppendStart, world
<1>2. started'[c] = revision + 1 /\ \A d \in Cloids : d # c => started'[d] = started[d]
  BY DEF Inductive, TypeOK, AppendStart
<1>3. \A d \in Cloids : started[d] \in Nat /\ resolved[d] \in Nat
  BY DEF Inductive, TypeOK
<1>4. Recorded'
  BY <1>1, <1>2, <1>3 DEF Inductive, Recorded
<1>5. \A d \in Cloids : started[d] # 0 => resolved[d] # 0 /\ resolved[d] < revision + 1
  BY <1>1, <1>3 DEF Inductive, Recorded, Pending
<1>6. resolved[c] = 0
  BY DEF Inductive, ReplayAccepts
<1>7. ReplayAccepts'
  BY <1>1, <1>2, <1>3, <1>5, <1>6 DEF Inductive, ReplayAccepts
<1> QED BY <1>1, <1>4, <1>7 DEF Inductive, Definite, DispatchedOnce

(* ... and so does resolve, if what it records is so. *)
LEMMA JournalResolve ==
  ASSUME Inductive, NEW c \in Cloids, NEW result \in Outcomes \ {"none"}, started[c] # 0,
         result = "not_sent" => sends[c] = 0,
         result = "rejected" => venue[c] = "rejected",
         result = "observed" => venue[c] \in Taken \cup {"rejected"},
         Resolve(c, result), UNCHANGED world
  PROVE  Recorded' /\ ReplayAccepts' /\ Definite' /\ DispatchedOnce'
<1>1. CASE resolved[c] # 0
  BY <1>1 DEF Resolve, journal, world, Inductive, Recorded, ReplayAccepts, Definite, DispatchedOnce
<1>2. CASE resolved[c] = 0
  <2>1. revision \in Nat /\ revision' = revision + 1 /\ UNCHANGED <<started, venue, sends>>
    BY <1>2 DEF Inductive, TypeOK, Resolve, world
  <2>2. /\ resolved'[c] = revision + 1 /\ outcome'[c] = result
        /\ \A d \in Cloids : d # c => resolved'[d] = resolved[d] /\ outcome'[d] = outcome[d]
    BY <1>2 DEF Inductive, TypeOK, Resolve
  <2>3. \A d \in Cloids : started[d] \in Nat /\ resolved[d] \in Nat
    BY DEF Inductive, TypeOK
  <2>4. Recorded'
    BY <2>1, <2>2, <2>3 DEF Inductive, Recorded
  <2>5. ReplayAccepts'
    BY <1>2, <2>1, <2>2, <2>3 DEF Inductive, Recorded, ReplayAccepts
  <2>6. Definite'
    BY <2>1, <2>2 DEF Inductive, Definite
  <2> QED BY <2>1, <2>4, <2>5, <2>6 DEF Inductive, DispatchedOnce
<1> QED BY <1>1, <1>2

-----------------------------------------------------------------------------
(* Steps *)

(* A gateway that moves to step x and keeps the rest *)
LEMMA MoveFields ==
  ASSUME Inductive, NEW g \in Gateways, NEW x \in GatewaySteps
  PROVE  /\ [gateway[g] EXCEPT !.step = x] \in Gateway
         /\ [gateway[g] EXCEPT !.step = x].step = x
         /\ [gateway[g] EXCEPT !.step = x].cloid = Own(g)
         /\ [gateway[g] EXCEPT !.step = x].rev = gateway[g].rev
         /\ [gateway[g] EXCEPT !.step = x].seen = gateway[g].seen
BY DEF Inductive, TypeOK, Gateway, Own

(* Only the gateway that acts changes its state. *)
LEMMA GatewayMoves ==
  ASSUME Inductive, NEW g \in Gateways, NEW s \in Gateway, Becomes(g, s)
  PROVE  /\ gateway' \in [Gateways -> Gateway]
         /\ gateway'[g] = s
         /\ \A h \in Gateways \ {g} : gateway'[h] = gateway[h]
BY DEF Inductive, TypeOK, Becomes

(* A gateway that takes no new receipt leaves the holders distinct. *)
LEMMA SameHolder ==
  ASSUME Inductive, NEW g \in Gateways, NEW s \in Gateway, Becomes(g, s),
         s.step \in Holding => gateway[g].step \in Holding /\ s.cloid = Own(g)
  PROVE  OneHolder'
BY GatewayMoves DEF Inductive, OneHolder, Own

(* A step that reads, or writes evidence only *)
LEMMA ReadStep ==
  ASSUME Inductive, NEW g \in Gateways, NEW s \in Gateway, Becomes(g, s), Relies(s),
         s.step \in Holding => gateway[g].step \in Holding /\ s.cloid = Own(g),
         UNCHANGED <<journal, world>>, signed' \in SUBSET Cloids, accepted' \in SUBSET Cloids
  PROVE  Inductive'
<1>1. Relies(gateway[g])'
  BY GatewayMoves DEF Relies, journal, world, Pending, Committed
<1>2. \A h \in Gateways : Relies(gateway[h])'
  BY <1>1, GatewayMoves, ReliesFrame
<1>3. TypeOK'
  BY GatewayMoves DEF Inductive, TypeOK, journal, world
<1>4. Recorded' /\ ReplayAccepts' /\ Definite' /\ DispatchedOnce'
  BY DEF Inductive, journal, world, Recorded, ReplayAccepts, Definite, DispatchedOnce
<1> QED BY <1>2, <1>3, <1>4, SameHolder DEF Inductive

(* A step to a state that relies on nothing *)
LEMMA FreeStep ==
  ASSUME Inductive, NEW g \in Gateways, NEW s \in Gateway, Becomes(g, s),
         s.step \in {"idle", "restate"},
         UNCHANGED <<journal, world>>, signed' \in SUBSET Cloids, accepted' \in SUBSET Cloids
  PROVE  Inductive'
<1>1. Relies(s)
  BY DEF Relies, Holding, Unsent, Permitted
<1> QED BY <1>1, ReadStep DEF Holding

(* A resolution, after which the gateway relies on nothing *)
LEMMA ResolutionStep ==
  ASSUME Inductive, NEW g \in Gateways, NEW s \in Gateway, Becomes(g, s),
         s.step \in {"idle", "restate"}, UNCHANGED <<evidence, world>>,
         \/ gateway[g].step = "observed" /\ Resolve(Own(g), "observed")
         \/ gateway[g].step = "notsent" /\ Resolve(Own(g), "not_sent")
         \/ gateway[g].step = "refused" /\ Resolve(Own(g), "rejected")
  PROVE  Inductive'
<1>1. PICK result \in Outcomes \ {"none"} :
        /\ Resolve(Own(g), result)
        /\ result = "observed" => gateway[g].step = "observed"
        /\ result = "not_sent" => gateway[g].step = "notsent"
        /\ result = "rejected" => gateway[g].step = "refused"
  BY DEF Outcomes
<1>2. Own(g) \in Cloids /\ started[Own(g)] # 0
  BY DEF Inductive, Relies, Holding, Own
<1>3. /\ gateway[g].step = "observed" => venue[Own(g)] \in Taken \cup {"rejected"}
      /\ gateway[g].step = "notsent" => sends[Own(g)] = 0
      /\ gateway[g].step = "refused" => venue[Own(g)] = "rejected"
  BY DEF Inductive, Relies, Unsent, Own
<1>4. Recorded' /\ ReplayAccepts' /\ Definite' /\ DispatchedOnce'
  BY <1>1, <1>2, <1>3, JournalResolve
<1>5. ASSUME NEW h \in Gateways \ {g} PROVE Relies(gateway[h])'
  <2>1. gateway[h].step \in Unsent => Own(h) # Own(g)
    <3> SUFFICES ASSUME gateway[h].step \in Unsent PROVE Own(h) # Own(g)
      OBVIOUS
    <3>1. sends[Own(h)] = 0 /\ Own(h) \in Cloids /\ venue[Own(h)] = "unsent"
      BY DEF Inductive, Relies, Recorded, Unsent, Holding, Own
    <3>2. CASE gateway[g].step = "observed"
      BY <1>3, <3>1, <3>2 DEF Taken
    <3>3. CASE gateway[g].step \in Holding
      BY <3>3 DEF Inductive, OneHolder, Unsent, Holding
    <3> QED BY <3>2, <3>3 DEF Holding
  <2> QED BY <1>1, <1>2, <2>1, GatewayMoves, ReliesResolve
<1>6. Relies(gateway[g])'
  BY GatewayMoves DEF Relies, Holding, Unsent, Permitted
<1>7. TypeOK'
  BY <1>1, <1>2, GatewayMoves DEF Inductive, TypeOK, evidence, world, Resolve, journal
<1> QED BY <1>4, <1>5, <1>6, <1>7, SameHolder DEF Inductive, Holding

(* begin: the permit it used is spent, and so is everybody else's. *)
LEMMA BeginStep ==
  ASSUME Inductive, NEW g \in Gateways, NEW c \in Cloids, Begin(g, c)
  PROVE  Inductive'
<1> DEFINE s == [gateway[g] EXCEPT !.step = "begun", !.cloid = c]
<1>1. /\ gateway[g].step = "ready" /\ Pending = {} /\ gateway[g].rev = revision /\ started[c] = 0
      /\ AppendStart(c) /\ UNCHANGED <<signed, accepted, venue, sends>>
      /\ Becomes(g, s) \/ Becomes(g, Idle)
  BY DEF Begin, CanBegin, At, evidence, world
<1>2. /\ s \in Gateway /\ s.step = "begun" /\ s.cloid = c /\ s.seen = gateway[g].seen
  BY DEF Inductive, TypeOK, Gateway, GatewaySteps
<1> HIDE DEF s
<1>3. Recorded' /\ ReplayAccepts' /\ Definite' /\ DispatchedOnce'
  BY <1>1, JournalStart DEF world
<1>m. gateway' \in [Gateways -> Gateway] /\ \A h \in Gateways \ {g} : gateway'[h] = gateway[h]
  <2>1. CASE Becomes(g, s)
    BY <1>2, <2>1, GatewayMoves
  <2>2. CASE Becomes(g, Idle)
    <3>1. Idle \in Gateway
      BY IdleFields
    <3> QED BY <2>2, <3>1, GatewayMoves
  <2> QED BY <1>1, <2>1, <2>2
<1>4. ASSUME NEW h \in Gateways \ {g} PROVE Relies(gateway[h])'
  <2>1. gateway'[h] = gateway[h]
    BY <1>m
  <2> QED BY <1>1, <2>1, ReliesStart DEF world
<1>5. TypeOK'
  <2>1. /\ AppendStart(c) /\ UNCHANGED <<signed, accepted, venue, sends>>
        /\ gateway' \in [Gateways -> Gateway]
    BY <1>1, <1>m
  <2> QED BY <2>1 DEF Inductive, TypeOK, AppendStart
<1>6. CASE Becomes(g, Idle)
  <2>0. Idle \in Gateway /\ Idle.step = "idle"
    BY IdleFields
  <2>i. gateway'[g].step = "idle"
    BY <1>6, <2>0, GatewayMoves
  <2>1. Relies(gateway[g])'
    BY <2>i DEF Relies, Holding, Unsent, Permitted
  <2>2. OneHolder'
    BY <1>6, IdleFields, SameHolder DEF Holding
  <2> QED BY <1>3, <1>4, <1>5, <2>1, <2>2 DEF Inductive
<1>7. CASE Becomes(g, s)
  <2>1. gateway'[g] = s /\ \A h \in Gateways \ {g} : gateway'[h] = gateway[h]
    BY <1>2, <1>7, GatewayMoves
  <2>2. started'[c] # 0 /\ resolved'[c] = 0
    BY <1>1 DEF AppendStart, Inductive, TypeOK, ReplayAccepts
  <2>3. sends[c] = 0
    BY <1>1 DEF Inductive, Recorded
  <2>4. \A d \in Cloids : Committed(d) => d \in gateway[g].seen
    BY <1>1 DEF Inductive, Relies
  <2>5. Relies(gateway[g])'
    BY <1>1, <1>2, <2>1, <2>2, <2>3, <2>4 DEF Relies, Holding, Unsent, Permitted, Committed
  <2>6. ASSUME NEW h \in Gateways, gateway[h].step \in Holding PROVE Own(h) # c
    BY <1>1, <2>6 DEF Inductive, Relies, Own
  <2>7. OneHolder'
    BY <1>2, <2>1, <2>6 DEF Inductive, OneHolder, Own
  <2> QED BY <1>3, <1>4, <1>5, <2>5, <2>7 DEF Inductive
<1> QED BY <1>1, <1>6, <1>7

(* The dispatch finds its own start pending, and no other gateway unsent. *)
LEMMA PostStep ==
  ASSUME Inductive, NEW g \in Gateways, Post(g)
  PROVE  Inductive'
<1> DEFINE s == [Idle EXCEPT !.step = "sent", !.cloid = Own(g)]
<1>1. gateway[g].step = "signed" /\ Own(g) \in Cloids /\ sends[Own(g)] = 0 /\ started[Own(g)] # 0
  BY DEF Post, At, Inductive, Relies, Unsent, Holding, Own
<1>2. CASE Moves(g, "notsent") /\ UNCHANGED <<journal, evidence, world>>
  <2> DEFINE t == [gateway[g] EXCEPT !.step = "notsent"]
  <2>1. t \in Gateway /\ t.step = "notsent" /\ t.cloid = Own(g) /\ Becomes(g, t)
    BY <1>2, MoveFields DEF Moves, GatewaySteps
  <2> HIDE DEF t
  <2>2. Relies(t)
    BY <1>1, <2>1 DEF Inductive, Relies, Unsent, Holding, Permitted, Own
  <2> QED BY <1>1, <1>2, <2>1, <2>2, ReadStep DEF Holding, evidence, Inductive, TypeOK
<1>3. CASE /\ SignedReservation(Own(g))
           /\ venue' = [venue EXCEPT ![Own(g)] = "inflight"]
           /\ sends' = [sends EXCEPT ![Own(g)] = @ + 1]
           /\ Becomes(g, s) /\ UNCHANGED <<journal, evidence>>
  <2>1. s \in Gateway /\ s.step = "sent" /\ s.cloid = Own(g)
    BY <1>1, IdleFields
  <2> HIDE DEF s
  <2>2. gateway'[g] = s /\ \A h \in Gateways \ {g} : gateway'[h] = gateway[h]
    BY <1>3, <2>1, GatewayMoves
  <2>3. Own(g) \in Pending
    BY <1>3 DEF SignedReservation, Reserved
  <2>4. ASSUME NEW h \in Gateways \ {g} PROVE Relies(gateway[h])'
    <3>1. gateway[h].step \in Unsent => Own(h) # Own(g)
      BY <1>1 DEF Inductive, OneHolder, Unsent, Holding
    <3> QED BY <1>1, <1>3, <2>2, <2>3, <3>1, ReliesPost
  <2>5. Relies(gateway[g])'
    BY <1>1, <1>3, <2>1, <2>2 DEF Relies, Holding, Unsent, Permitted, journal
  <2>6. TypeOK'
    BY <1>1, <1>3, <2>1, GatewayMoves DEF Inductive, TypeOK, journal, evidence, Fates
  <2>7. /\ venue'[Own(g)] = "inflight" /\ sends'[Own(g)] = 1
        /\ \A d \in Cloids : d # Own(g) => venue'[d] = venue[d] /\ sends'[d] = sends[d]
    BY <1>1, <1>3 DEF Inductive, TypeOK
  <2>8. outcome[Own(g)] = "none"
    BY <1>1, <2>3 DEF Inductive, Recorded, Pending
  <2>9. Recorded' /\ ReplayAccepts' /\ Definite' /\ DispatchedOnce'
    BY <1>1, <1>3, <2>7, <2>8 DEF Inductive, Recorded, ReplayAccepts, Definite, DispatchedOnce,
                                  journal
  <2> QED BY <1>1, <1>3, <2>1, <2>4, <2>5, <2>6, <2>9, SameHolder DEF Inductive, Holding
<1> QED BY <1>2, <1>3 DEF Post

(* Nothing the venue does withdraws what a gateway relies on. *)
LEMMA VenueSteps ==
  ASSUME Inductive, NEW c \in Cloids, Arrive(c) \/ Fill(c) \/ Cancel(c)
  PROVE  Inductive'
<1>1. PICK fate \in Fates \ {"unsent"} :
        /\ VenueStep(c, {"inflight"}, fate) \/ VenueStep(c, {"resting"}, fate)
        /\ venue[c] = "resting" => fate \in Taken
  BY DEF Arrive, Fill, Cancel, VenueStep, Fates, Taken
<1>2. /\ venue[c] \in {"inflight", "resting"} /\ venue' = [venue EXCEPT ![c] = fate]
      /\ UNCHANGED <<journal, evidence, gateway, sends>>
  BY <1>1 DEF VenueStep
<1>3. \A h \in Gateways : Relies(gateway[h])'
  BY <1>1, ReliesVenue
<1>4. TypeOK'
  BY <1>2 DEF Inductive, TypeOK, journal, evidence
<1>5. /\ venue'[c] = fate /\ fate # "unsent"
      /\ \A d \in Cloids : d # c => venue'[d] = venue[d]
  BY <1>2 DEF Inductive, TypeOK
<1>6. Definite'
  BY <1>1, <1>2, <1>5 DEF Inductive, Definite, journal, Taken
<1>7. Recorded' /\ ReplayAccepts' /\ DispatchedOnce' /\ OneHolder'
  BY <1>2, <1>5 DEF Inductive, Recorded, ReplayAccepts, DispatchedOnce, OneHolder, journal, Own
<1> QED BY <1>3, <1>4, <1>6, <1>7 DEF Inductive

(* Everything sent under a settled journal is at the venue or rejected. *)
LEMMA SettledOrders ==
  ASSUME Inductive, Pending = {}, NEW c \in Cloids, Committed(c)
  PROVE  venue[c] \in Taken
<1>1. sends[c] # 0 /\ venue[c] # "rejected"
  BY DEF Committed, Inductive, TypeOK
<1>2. outcome[c] \in Outcomes /\ outcome[c] # "none"
  BY <1>1 DEF Inductive, TypeOK, Recorded, Pending
<1> QED BY <1>1, <1>2 DEF Inductive, Definite, Outcomes

(* Every step of a gateway keeps the invariant. *)
LEMMA GatewayPreserves ==
  ASSUME Inductive, NEW g \in Gateways, GatewayStep(g)
  PROVE  Inductive'
<1>0. signed \in SUBSET Cloids /\ accepted \in SUBSET Cloids /\ revision \in Nat
  BY DEF Inductive, TypeOK
<1>1. ASSUME GiveUp(g) \/ TrackUnknown(g) PROVE Inductive'
  BY <1>0, <1>1, IdleFields, FreeStep DEF GiveUp, TrackUnknown, evidence
<1>2. ASSUME NEW r \in Nat, r = revision, Pending = {},
             Becomes(g, [Idle EXCEPT !.step = "permit", !.rev = r]),
             UNCHANGED <<journal, evidence, world>>
      PROVE  Inductive'
  <2> DEFINE s == [Idle EXCEPT !.step = "permit", !.rev = r]
  <2>1. s \in Gateway /\ s.step = "permit" /\ s.rev = r
    BY IdleFields
  <2> HIDE DEF s
  <2>2. Relies(s)
    BY <1>2, <2>1 DEF Relies, Holding, Unsent, Permitted
  <2>3. Becomes(g, s)
    BY <1>2 DEF s
  <2> QED BY <1>0, <1>2, <2>1, <2>2, <2>3, ReadStep DEF Holding, evidence
<1>3. ASSUME ReserveState(g) PROVE Inductive'
  <2>1. CASE \E c \in Pending : Becomes(g, [Idle EXCEPT !.step = "lookup", !.cloid = c])
    <3>1. PICK c \in Pending : Becomes(g, [Idle EXCEPT !.step = "lookup", !.cloid = c])
      BY <2>1
    <3> DEFINE s == [Idle EXCEPT !.step = "lookup", !.cloid = c]
    <3>2. c \in Cloids /\ started[c] # 0
      BY DEF Pending
    <3>3. s \in Gateway /\ s.step = "lookup" /\ s.cloid = c
      BY <3>2, IdleFields
    <3>4. Becomes(g, s)
      BY <3>1
    <3> HIDE DEF s
    <3>5. Relies(s)
      BY <3>2, <3>3 DEF Relies, Holding, Unsent, Permitted
    <3> QED BY <1>0, <1>3, <3>3, <3>4, <3>5, ReadStep DEF ReserveState, Holding, evidence
  <2> QED BY <1>0, <1>2, <1>3, <2>1 DEF ReserveState
<1>4. ASSUME Lookup(g) PROVE Inductive'
  <2> DEFINE s == [gateway[g] EXCEPT !.step = "observed"]
  <2>1. s \in Gateway /\ s.step = "observed" /\ s.cloid = Own(g) /\ Becomes(g, s)
    BY <1>4, MoveFields DEF Lookup, Moves, GatewaySteps
  <2> HIDE DEF s
  <2>2. Relies(s)
    BY <1>4, <2>1 DEF Lookup, LookupAnswers, At, Inductive, Relies, Holding, Unsent, Permitted, Own
  <2> QED BY <1>0, <1>4, <2>1, <2>2, ReadStep DEF Lookup, Holding, evidence
<1>5. ASSUME ResolveObserved(g) PROVE Inductive'
  BY <1>5, IdleFields, ResolutionStep DEF ResolveObserved, At
<1>6. ASSUME ResolveNotSent(g) \/ ResolveRejected(g) PROVE Inductive'
  BY <1>6, IdleFields, ResolutionStep DEF ResolveNotSent, ResolveRejected, At
<1>7. ASSUME Restate(g) PROVE Inductive'
  <2>1. CASE Pending = {}
    BY <1>0, <1>2, <1>7, <2>1 DEF Restate
  <2>2. CASE Pending # {}
    BY <1>0, <1>7, <2>2, IdleFields, FreeStep DEF Restate, evidence
  <2> QED BY <2>1, <2>2
<1>8. ASSUME ReadState(g) PROVE Inductive'
  <2> DEFINE n == {c \in Cloids : venue[c] \in Taken}
             s == [gateway[g] EXCEPT !.step = "ready", !.seen = n]
  <2>1. /\ s \in Gateway /\ s.step = "ready" /\ s.rev = gateway[g].rev /\ s.seen = n
    BY DEF Inductive, TypeOK, Gateway, GatewaySteps
  <2>2. Becomes(g, s)
    BY <1>8 DEF ReadState
  <2> HIDE DEF s
  <2>3. Pending = {} => \A c \in Cloids : Committed(c) => c \in n
    BY SettledOrders
  <2>4. Relies(s)
    BY <1>8, <2>1, <2>3 DEF ReadState, At, Inductive, Relies, Holding, Unsent, Permitted
  <2> QED BY <1>0, <1>8, <2>1, <2>2, <2>4, ReadStep DEF ReadState, Holding, evidence
<1>9. ASSUME Sign(g) PROVE Inductive'
  <2>1. PICK x \in {"signed", "notsent"} : Moves(g, x)
    BY <1>9 DEF Sign
  <2> DEFINE s == [gateway[g] EXCEPT !.step = x]
  <2>s. x \in GatewaySteps
    BY DEF GatewaySteps
  <2>t. s \in Gateway /\ s.step = x /\ s.cloid = Own(g) /\ s.seen = gateway[g].seen
    BY <2>s, MoveFields
  <2>2. s \in Gateway /\ s.step = x /\ s.cloid = Own(g) /\ s.seen = gateway[g].seen /\ Becomes(g, s)
    BY <2>1, <2>t DEF Moves
  <2> HIDE DEF s
  <2>3. gateway[g].step = "begun" /\ Own(g) \in Cloids
    BY <1>9 DEF Sign, At, Inductive, Relies, Holding, Own
  <2>4. Relies(s)
    BY <2>2, <2>3 DEF Inductive, Relies, Holding, Unsent, Permitted, Own
  <2>5. signed' \in SUBSET Cloids /\ UNCHANGED <<journal, accepted, world>>
    BY <1>0, <1>9, <2>3 DEF Sign
  <2> QED BY <1>0, <2>2, <2>3, <2>4, <2>5, ReadStep DEF Holding
<1>10. ASSUME AnswerAccepted(g) PROVE Inductive'
  <2>1. Own(g) \in Cloids
    BY <1>10 DEF AnswerAccepted, At, Inductive, Relies, Holding, Own
  <2>2. /\ accepted' \in SUBSET Cloids /\ signed' \in SUBSET Cloids
        /\ Becomes(g, Idle) /\ UNCHANGED <<journal, world>>
    BY <1>0, <1>10, <2>1 DEF AnswerAccepted
  <2>3. Idle \in Gateway /\ Idle.step \in {"idle", "restate"}
    BY IdleFields
  <2> QED BY <2>2, <2>3, FreeStep
<1>11. ASSUME AnswerRejected(g) PROVE Inductive'
  <2> DEFINE s == [gateway[g] EXCEPT !.step = "refused"]
  <2>1. s \in Gateway /\ s.step = "refused" /\ s.cloid = Own(g) /\ Becomes(g, s)
    BY <1>11, MoveFields DEF AnswerRejected, Moves, GatewaySteps
  <2> HIDE DEF s
  <2>2. Relies(s)
    BY <1>11, <2>1 DEF AnswerRejected, At, Inductive, Relies, Holding, Unsent, Permitted, Own
  <2> QED BY <1>0, <1>11, <2>1, <2>2, ReadStep DEF AnswerRejected, At, Holding, evidence
<1> QED BY <1>1, <1>3, <1>4, <1>5, <1>6, <1>7, <1>8, <1>9, <1>10, <1>11, BeginStep, PostStep
        DEF GatewayStep

-----------------------------------------------------------------------------
(* The theorems *)

(* Every gateway's reliance holds in every reachable state. *)
THEOREM InductiveInvariant == Spec => []Inductive
<1>1. Init => Inductive
  <2> SUFFICES ASSUME Init PROVE Inductive
    OBVIOUS
  <2>1. TypeOK
    BY IdleFields DEF Init, TypeOK, Outcomes, Fates
  <2>2. \A g \in Gateways : gateway[g].step = "idle"
    BY IdleFields DEF Init
  <2>3. (\A g \in Gateways : Relies(gateway[g])) /\ OneHolder
    BY <2>2 DEF Relies, Holding, Unsent, Permitted, OneHolder
  <2> QED BY <2>1, <2>3 DEF Init, Inductive, Recorded, ReplayAccepts, Definite, DispatchedOnce
<1>2. Inductive /\ [Next]_vars => Inductive'
  <2> SUFFICES ASSUME Inductive, [Next]_vars PROVE Inductive'
    OBVIOUS
  <2>1. CASE UNCHANGED vars
    BY <2>1 DEF vars, Inductive, TypeOK, Recorded, ReplayAccepts, Definite, DispatchedOnce,
                Relies, OneHolder, Pending, Committed, Own
  <2> QED BY <2>1, GatewayPreserves, VenueSteps DEF Next
<1> QED BY <1>1, <1>2, PTL DEF Spec

(* One cloid is dispatched at most once, whatever is retried or crashes    *)
(* (begin's cloid and revision checks, the one-poll dispatch).             *)
THEOREM OrdersAreDispatchedOnce == Spec => []DispatchedOnce
<1>1. Inductive => DispatchedOnce
  BY DEF Inductive
<1> QED BY <1>1, InductiveInvariant, PTL

(* No interleaving of begin and resolve writes rows that replay refuses. *)
THEOREM JournalsReplay == Spec => []ReplayAccepts
<1>1. Inductive => ReplayAccepts
  BY DEF Inductive
<1> QED BY <1>1, InductiveInvariant, PTL

(* What a resolution says of an order is true, and stays true. *)
THEOREM ResolutionsHold == Spec => []ResolutionsAreDefinite
<1>1. Inductive => ResolutionsAreDefinite
  <2> SUFFICES ASSUME Inductive, NEW c \in Cloids, outcome[c] = "not_sent",
                      NEW g \in Gateways, Own(g) = c, gateway[g].step = "signed"
               PROVE  FALSE
    BY DEF ResolutionsAreDefinite, Inductive, Definite
  <2>1. resolved[c] = 0
    BY DEF Inductive, Relies, Unsent, Own
  <2> QED BY <2>1 DEF Inductive, Recorded
<1> QED BY <1>1, InductiveInvariant, PTL

(* No order is started or signed beside one its exposure cannot show. *)
THEOREM ReservationsExclude == Spec => []NoOrderEscapesReservation
<1>1. Inductive => NoOrderEscapesReservation
  BY DEF Inductive, Relies, NoOrderEscapesReservation, Own
<1> QED BY <1>1, InductiveInvariant, PTL

-----------------------------------------------------------------------------
(* Sequences whose elements need no common type *)

IsSeq(s) == \E S : s \in Seq(S)

(* Appending adds one element at the end and keeps the others. *)
LEMMA AppendFacts ==
  ASSUME NEW s, IsSeq(s), NEW e
  PROVE  /\ IsSeq(Append(s, e))
         /\ Len(Append(s, e)) = Len(s) + 1
         /\ Len(s) \in Nat
         /\ Append(s, e)[Len(s) + 1] = e
         /\ \A i \in 1..Len(s) : Append(s, e)[i] = s[i]
<1>1. PICK S : s \in Seq(S)
  BY DEF IsSeq
<1>2. s \in Seq(S \cup {e})
  BY <1>1
<1>3. Append(s, e) \in Seq(S \cup {e})
  BY <1>2
<1> QED BY <1>1, <1>2, <1>3 DEF IsSeq

-----------------------------------------------------------------------------
(* What the approval queue keeps true *)

(* The approval journal after its rows, and the proposals in it *)
Rows == proposals.rows
Entries == proposals.entries

RowsOf(kind) == {n \in 1..Len(Rows) : Rows[n].kind = kind}

EntryFields == {"req", "route", "policy", "minted", "lastAt", "expires", "root", "last", "state", "review"}

(* The journal replays; there is a newest policy and a newest grant; an    *)
(* entry is filed under its first row, and a pending one has only that row.*)
JournalInv ==
  /\ IsSeq(Rows)
  /\ proposals.ok = TRUE
  /\ \A kind \in {"policy", "grant"} : \E n \in RowsOf(kind) : \A m \in RowsOf(kind) : m <= n
  /\ DOMAIN Entries \subseteq 1..Len(Rows)
  /\ \A r \in DOMAIN Entries :
       /\ DOMAIN Entries[r] = EntryFields
       /\ Entries[r].root = r
       /\ Entries[r].state = "pending" => Entries[r].lastAt = Entries[r].minted

(* A retained review is of a proposal in the journal and ends with it. *)
ReviewFits(review) ==
  /\ review.root \in DOMAIN Entries
  /\ review.expires = Entries[review.root].expires

(* The queue: a review is retained only while nothing runs and the queue   *)
(* is open, and it is the one its id displays.                             *)
DeskInv ==
  /\ DOMAIN admission = DOMAIN A!NewDesk
  /\ admission.next \in Nat
  /\ admission.closed \/ admission.busy => admission.review = <<>>
  /\ admission.review # <<>> => ReviewFits(admission.review[1])
  /\ admission.review # <<>> /\ admission.view # <<>> =>
       /\ admission.view[1].id \in DOMAIN shown
       /\ shown[admission.view[1].id] = admission.review[1]

ConfirmingSteps == {"admit", "claim", "decide", "record", "finish", "sign"}

(* A task that prepares a review holds an id nothing was displayed under *)
Preparing ==
  /\ work.op = "reviewing" =>
       /\ work.id \in Nat
       /\ work.id < admission.next
       /\ work.id \notin DOMAIN shown
  /\ work.step = "list" => work.op \in {"refreshing", "rejecting", "reviewing"}
  /\ work.step \in {"price", "show"} => work.op = "reviewing" /\ work.root \in DOMAIN Entries
  /\ work.step = "show" =>
       /\ work.review # <<>>
       /\ work.review[1].root = work.root
       /\ ReviewFits(work.review[1])

(* A task that rejects sampled its clock inside the proposal's life. *)
Rejecting ==
  work.step = "reject" =>
    /\ work.root \in DOMAIN Entries
    /\ work.at >= Entries[work.root].minted
    /\ work.at < Entries[work.root].expires

(* A task that confirms works on what was displayed; a cleared decision is *)
(* under the reviewed policy; what may be signed is durably approved, and  *)
(* nothing was signed under it.                                            *)
Confirming ==
  /\ work.step \in ConfirmingSteps =>
       /\ work.review # <<>>
       /\ work.id \in DOMAIN shown
       /\ shown[work.id] = work.review[1]
       /\ work.review[1].root = work.root
       /\ ReviewFits(work.review[1])
  /\ work.step \in {"record", "finish", "sign"} /\ work.cleared = TRUE =>
       work.policy = work.review[1].policy
  /\ work.step = "sign" =>
       /\ work.cleared = TRUE
       /\ Entries[work.root].state = "approved"
       /\ \A s \in approved : s.root # work.root

(* What was displayed, signed and told stays so. *)
HistoryInv ==
  /\ \A id \in DOMAIN shown : id \in Nat /\ id < admission.next
  /\ \A s \in approved : s.root \in DOMAIN Entries
  /\ \A r \in rejected : r \in DOMAIN Entries /\ Entries[r].state = "rejected"
  /\ A!SignedOnce
  /\ A!SignedAsShown

WorkInv ==
  /\ DOMAIN work = DOMAIN A!NoWork
  /\ work.cleared \in BOOLEAN
  /\ Preparing
  /\ Rejecting
  /\ Confirming

ApprovalInv == JournalInv /\ DeskInv /\ WorkInv /\ HistoryInv

-----------------------------------------------------------------------------
(* The journal *)

Linked(row) ==
  /\ row.root \in DOMAIN Entries
  /\ row.prev = Entries[row.root].last
  /\ row.at >= Entries[row.root].lastAt

(* The rows a replay accepts after the journal's *)
Accepts(row) ==
  \/ /\ row.kind = "proposed"
     /\ A!ProposedHolds(row, Len(Rows) + 1)
     /\ \A r \in DOMAIN Entries : ~A!Repeats(Entries[r], row.req, row.route, row.at)
  \/ /\ row.kind = "claimed"
     /\ Linked(row)
     /\ A!ClaimHolds(Entries[row.root], row, Len(Rows) + 1)
  \/ /\ row.kind = "disposed"
     /\ Linked(row)
     /\ A!DispositionHolds(Entries[row.root], row, Len(Rows) + 1)
  \/ row.kind \in {"receipt", "policy", "grant"}

(* A decided proposal stays decided, and a proposal keeps its lifetime. *)
Grows ==
  \A r \in DOMAIN Entries :
    /\ r \in DOMAIN Entries'
    /\ Entries'[r].expires = Entries[r].expires
    /\ Entries'[r].minted = Entries[r].minted
    /\ Entries[r].state \in {"approved", "rejected"} => Entries'[r].state = Entries[r].state

(* The newest policy and the newest grant are rows of their kind. *)
LEMMA NewestIsThere ==
  ASSUME JournalInv, NEW kind \in {"policy", "grant"}
  PROVE  A!Newest(kind) \in RowsOf(kind)
<1> DEFINE at == {n \in 1..Len(Rows) : Rows[n].kind = kind}
<1>1. \E n \in at : \A m \in at : m <= n
  BY DEF JournalInv, RowsOf
<1>2. A!Newest(kind) = CHOOSE n \in at : \A m \in at : m <= n
  BY DEF A!Newest, Rows
<1> HIDE DEF at
<1>3. A!Newest(kind) \in at
  BY <1>1, <1>2
<1> QED BY <1>3 DEF at, RowsOf

(* What an accepted row makes of the journal: a proposal adds an entry. *)
LEMMA ReplayedProposal ==
  ASSUME NEW row, row.kind = "proposed", Accepts(row), proposals.ok = TRUE
  PROVE  A!ReplayRow(proposals, row) =
           [rows |-> Append(Rows, row), ok |-> TRUE,
            entries |-> [r \in DOMAIN Entries \cup {Len(Rows) + 1} |->
                           IF r = Len(Rows) + 1 THEN A!NewEntry(row, Len(Rows) + 1) ELSE Entries[r]]]
BY DEF A!ReplayRow, Accepts, Rows, Entries

(* A claim moves the entry of its root, *)
LEMMA ReplayedClaim ==
  ASSUME NEW row, row.kind = "claimed", Accepts(row), proposals.ok = TRUE
  PROVE  A!ReplayRow(proposals, row) =
           [rows |-> Append(Rows, row), ok |-> TRUE,
            entries |-> [Entries EXCEPT ![row.root] =
                           [@ EXCEPT !.state = "claimed", !.review = row.review,
                                     !.last = Len(Rows) + 1, !.lastAt = row.at]]]
BY DEF A!ReplayRow, Accepts, Linked, Rows, Entries

(* and so does a disposition. *)
LEMMA ReplayedDisposition ==
  ASSUME NEW row, row.kind = "disposed", Accepts(row), proposals.ok = TRUE
  PROVE  A!ReplayRow(proposals, row) =
           [rows |-> Append(Rows, row), ok |-> TRUE,
            entries |-> [Entries EXCEPT ![row.root] =
                           [@ EXCEPT !.state = row.outcome, !.review = Entries[row.root].review,
                                     !.last = Len(Rows) + 1, !.lastAt = row.at]]]
BY DEF A!ReplayRow, Accepts, Linked, Rows, Entries

(* A new row leaves a newest policy and a newest grant. *)
LEMMA NewestStays ==
  ASSUME JournalInv, NEW row, Rows' = Append(Rows, row), NEW kind \in {"policy", "grant"}
  PROVE  \E n \in RowsOf(kind)' : \A m \in RowsOf(kind)' : m <= n
<1>1. /\ Len(Rows) \in Nat
      /\ Len(Rows') = Len(Rows) + 1
      /\ Rows'[Len(Rows) + 1] = row
      /\ \A i \in 1..Len(Rows) : Rows'[i] = Rows[i]
  BY AppendFacts DEF JournalInv
<1>2. RowsOf(kind)' = {n \in 1..(Len(Rows) + 1) : Rows'[n].kind = kind}
  BY <1>1 DEF RowsOf
<1>3. CASE row.kind = kind
  <2>1. Len(Rows) + 1 \in RowsOf(kind)'
    BY <1>1, <1>2, <1>3
  <2>2. \A m \in RowsOf(kind)' : m <= Len(Rows) + 1
    BY <1>1, <1>2
  <2> QED BY <2>1, <2>2
<1>4. CASE row.kind # kind
  <2>1. RowsOf(kind)' = RowsOf(kind)
    BY <1>1, <1>2, <1>4 DEF RowsOf
  <2> QED BY <2>1 DEF JournalInv
<1> QED BY <1>3, <1>4

(* An accepted row keeps the journal sound and undoes nothing. *)
LEMMA AcceptedRow ==
  ASSUME JournalInv, NEW row, Accepts(row), proposals' = A!ReplayRow(proposals, row)
  PROVE  /\ JournalInv'
         /\ Grows
         /\ row.kind = "disposed" => Entries'[row.root].state = row.outcome
<1>0. proposals.ok = TRUE /\ IsSeq(Rows)
  BY DEF JournalInv
<1> DEFINE n == Len(Rows) + 1
<1>1. /\ IsSeq(Append(Rows, row)) /\ Len(Append(Rows, row)) = n
      /\ Len(Rows) \in Nat
  BY <1>0, AppendFacts
<1>2. ASSUME Rows' = Append(Rows, row), proposals'.ok = TRUE,
             DOMAIN Entries' \subseteq 1..n,
             \A r \in DOMAIN Entries' :
               /\ DOMAIN Entries'[r] = EntryFields
               /\ Entries'[r].root = r
               /\ Entries'[r].state = "pending" => Entries'[r].lastAt = Entries'[r].minted
      PROVE  JournalInv'
  BY <1>1, <1>2, NewestStays DEF JournalInv
<1>3. CASE row.kind = "proposed"
  <2>1. proposals' = [rows |-> Append(Rows, row), ok |-> TRUE,
                      entries |-> [r \in DOMAIN Entries \cup {n} |->
                                     IF r = n THEN A!NewEntry(row, n) ELSE Entries[r]]]
    BY <1>0, <1>3, ReplayedProposal
  <2>2. /\ Rows' = Append(Rows, row) /\ proposals'.ok = TRUE
        /\ Entries' = [r \in DOMAIN Entries \cup {n} |->
                         IF r = n THEN A!NewEntry(row, n) ELSE Entries[r]]
    BY <2>1 DEF Rows, Entries
  <2>3. /\ DOMAIN A!NewEntry(row, n) = EntryFields
        /\ A!NewEntry(row, n).root = n
        /\ A!NewEntry(row, n).lastAt = A!NewEntry(row, n).minted
    BY DEF A!NewEntry, EntryFields
  <2>4. n \notin DOMAIN Entries
    BY <1>1 DEF JournalInv
  <2>5. DOMAIN Entries' = DOMAIN Entries \cup {n} /\ DOMAIN Entries \subseteq 1..Len(Rows)
    BY <2>2 DEF JournalInv
  <2>6. \A r \in DOMAIN Entries' : Entries'[r] = IF r = n THEN A!NewEntry(row, n) ELSE Entries[r]
    BY <2>2
  <2> HIDE DEF n
  <2>7. JournalInv'
    <3>1. DOMAIN Entries' \subseteq 1..n
      BY <2>5, <1>1 DEF n
    <3>2. ASSUME NEW r \in DOMAIN Entries'
          PROVE  /\ DOMAIN Entries'[r] = EntryFields
                 /\ Entries'[r].root = r
                 /\ Entries'[r].state = "pending" => Entries'[r].lastAt = Entries'[r].minted
      BY <2>3, <2>5, <2>6 DEF JournalInv
    <3> QED BY <2>2, <3>1, <3>2, <1>2
  <2>8. Grows
    BY <2>4, <2>5, <2>6 DEF Grows
  <2> QED BY <2>7, <2>8, <1>3
<1>4. ASSUME NEW state, NEW review,
             state # "pending",
             Linked(row),
             Entries[row.root].state \in {"pending", "claimed"},
             proposals' = [rows |-> Append(Rows, row), ok |-> TRUE,
                           entries |-> [Entries EXCEPT ![row.root] =
                              [@ EXCEPT !.state = state, !.review = review, !.last = n, !.lastAt = row.at]]]
      PROVE  JournalInv' /\ Grows /\ Entries'[row.root].state = state
  <2> DEFINE old == Entries[row.root]
             new == [old EXCEPT !.state = state, !.review = review, !.last = n, !.lastAt = row.at]
  <2>1. row.root \in DOMAIN Entries
    BY <1>4 DEF Linked
  <2>2. DOMAIN old = EntryFields
    BY <2>1 DEF JournalInv
  <2>3. /\ DOMAIN new = EntryFields
        /\ new.state = state
        /\ new.root = old.root /\ new.expires = old.expires /\ new.minted = old.minted
    BY <2>2 DEF EntryFields
  <2>4. Rows' = Append(Rows, row) /\ proposals'.ok = TRUE /\ Entries' = [Entries EXCEPT ![row.root] = new]
    BY <1>4 DEF Rows, Entries
  <2> HIDE DEF new
  <2>5. /\ DOMAIN Entries' = DOMAIN Entries
        /\ \A r \in DOMAIN Entries : Entries'[r] = IF r = row.root THEN new ELSE Entries[r]
    BY <2>4
  <2>6. JournalInv'
    <3>1. DOMAIN Entries' \subseteq 1..n
      BY <2>5, <1>1 DEF JournalInv
    <3>2. ASSUME NEW r \in DOMAIN Entries'
          PROVE  /\ DOMAIN Entries'[r] = EntryFields
                 /\ Entries'[r].root = r
                 /\ Entries'[r].state = "pending" => Entries'[r].lastAt = Entries'[r].minted
      BY <2>1, <2>3, <2>5, <1>4 DEF JournalInv
    <3> QED BY <2>4, <3>1, <3>2, <1>2
  <2>7. Grows
    BY <2>3, <2>5, <1>4 DEF Grows
  <2> QED BY <2>1, <2>3, <2>5, <2>6, <2>7
<1>5. CASE row.kind = "claimed"
  BY <1>0, <1>4, <1>5, ReplayedClaim, ZenonT(30) DEF Accepts, A!ClaimHolds
<1>6. CASE row.kind = "disposed"
  <2>1. row.outcome # "pending" /\ Entries[row.root].state \in {"pending", "claimed"} /\ Linked(row)
    BY <1>6 DEF Accepts, A!DispositionHolds
  <2> QED BY <2>1, <1>0, <1>4, <1>6, ReplayedDisposition
<1>7. CASE row.kind \in {"receipt", "policy", "grant"}
  <2>0. A!ReplayRow(proposals, row) = [rows |-> Append(Rows, row), ok |-> TRUE, entries |-> Entries]
    BY <1>0, <1>7 DEF A!ReplayRow, Rows, Entries
  <2>1. proposals' = [rows |-> Append(Rows, row), ok |-> TRUE, entries |-> Entries]
    BY <2>0
  <2>2. Rows' = Append(Rows, row) /\ proposals'.ok = TRUE /\ Entries' = Entries
    BY <2>1 DEF Rows, Entries
  <2>3. JournalInv'
    <3>1. DOMAIN Entries' \subseteq 1..n
      BY <1>1, <2>2 DEF JournalInv
    <3>2. \A r \in DOMAIN Entries' :
            /\ DOMAIN Entries'[r] = EntryFields
            /\ Entries'[r].root = r
            /\ Entries'[r].state = "pending" => Entries'[r].lastAt = Entries'[r].minted
      BY <2>2 DEF JournalInv
    <3> QED BY <2>2, <3>1, <3>2, <1>2
  <2> QED BY <2>2, <2>3, <1>7 DEF Grows
<1> QED BY <1>3, <1>5, <1>6, <1>7 DEF Accepts

(* A call that writes nothing leaves the journal as it is. *)
LEMMA NoRow ==
  ASSUME JournalInv, proposals' = proposals
  PROVE  JournalInv' /\ Grows
<1>1. Rows' = Rows /\ Entries' = Entries
  BY DEF Rows, Entries
<1>2. \A kind : RowsOf(kind)' = RowsOf(kind)
  BY <1>1 DEF RowsOf
<1>3. JournalInv'
  BY <1>1, <1>2 DEF JournalInv
<1> QED BY <1>1, <1>3 DEF Grows

(* The sweep writes an expiry the replay accepts: the clock of the list is *)
(* not behind the mint, and a pending proposal has no later row.           *)
LEMMA ExpiryAccepted ==
  ASSUME JournalInv, NEW t, NEW r \in A!Expirable(t), A!ListHolds(t)
  PROVE  Accepts(A!Disposed(r, t, "expired", 0))
<1>1. /\ r \in DOMAIN Entries /\ Entries[r].state = "pending"
      /\ t >= Entries[r].expires /\ t >= Entries[r].minted
  BY DEF A!Expirable, A!ListHolds, A!Entries, Entries
<1>2. Entries[r].lastAt = Entries[r].minted
  BY <1>1 DEF JournalInv
<1> QED BY <1>1, <1>2 DEF Accepts, Linked, A!Disposed, A!DispositionHolds, A!Entries, Entries

(* So does a rejection, at the time of the list it was found in. *)
LEMMA RejectionAccepted ==
  ASSUME JournalInv, WorkInv, work.step = "reject", Entries[work.root].state = "pending"
  PROVE  Accepts(A!Disposed(work.root, work.at, "rejected", 0))
<1>1. /\ work.root \in DOMAIN Entries
      /\ work.at >= Entries[work.root].minted /\ work.at < Entries[work.root].expires
  BY DEF WorkInv, Rejecting
<1>2. Entries[work.root].lastAt = Entries[work.root].minted
  BY <1>1 DEF JournalInv
<1> QED BY <1>1, <1>2 DEF Accepts, Linked, A!Disposed, A!DispositionHolds, A!Entries, Entries

ClaimRow == [kind |-> "claimed", root |-> work.root, prev |-> Entries[work.root].last,
             at |-> now, review |-> work.review]

(* A claim is of the proposal that was reviewed. *)
LEMMA ClaimAccepted ==
  ASSUME JournalInv, WorkInv, work.step = "claim", A!Claimable(work.review[1], now)
  PROVE  Accepts(ClaimRow)
<1>1. /\ work.review # <<>> /\ work.review[1].root = work.root /\ work.root \in DOMAIN Entries
  BY DEF WorkInv, Confirming, ConfirmingSteps, ReviewFits
<1> QED BY <1>1 DEF Accepts, Linked, ClaimRow, A!Claimable, A!ClaimHolds, A!ClockHolds, A!Entries, Entries, Rows

(* A claim is finished by a receipt of its own decision. *)
LEMMA FinishAccepted ==
  ASSUME JournalInv, WorkInv, work.step = "finish", A!Finishable
  PROVE  Accepts(A!Disposed(work.root, work.at, IF work.cleared THEN "approved" ELSE "refused", work.receipt))
<1>1. /\ work.root \in DOMAIN Entries
  BY DEF WorkInv, Confirming, ConfirmingSteps, ReviewFits
<1>2. CASE work.cleared = TRUE
  BY <1>1, <1>2 DEF Accepts, Linked, A!Disposed, A!DispositionHolds, A!Finishable, A!ClockHolds, A!Entries, Entries, Rows
<1>3. CASE work.cleared = FALSE
  BY <1>1, <1>3 DEF Accepts, Linked, A!Disposed, A!DispositionHolds, A!Finishable, A!ClockHolds, A!Entries, Entries, Rows
<1> QED BY <1>2, <1>3 DEF WorkInv

ProposalRow(req) == [kind |-> "proposed", at |-> now, req |-> req, route |-> A!Route,
                     policy |-> A!Policy, expires |-> now + TTL]

(* A proposal names the grant and the policy in force. *)
LEMMA MintAccepted ==
  ASSUME JournalInv, NEW req, A!CanMint(req)
  PROVE  Accepts(ProposalRow(req))
<1>1. A!Route \in RowsOf("grant") /\ A!Policy \in RowsOf("policy")
  BY NewestIsThere DEF A!Route, A!Policy
<1>2. Len(Rows) \in Nat
  BY AppendFacts DEF JournalInv
<1>3. A!ProposedHolds(ProposalRow(req), Len(Rows) + 1)
  BY <1>1, <1>2 DEF A!ProposedHolds, ProposalRow, RowsOf, Rows
<1>4. \A r \in DOMAIN Entries :
        ~A!Repeats(Entries[r], ProposalRow(req).req, ProposalRow(req).route, ProposalRow(req).at)
  BY DEF A!CanMint, ProposalRow, A!Entries, Entries
<1>5. ProposalRow(req).kind = "proposed"
  BY DEF ProposalRow
<1> QED BY <1>3, <1>4, <1>5 DEF Accepts

-----------------------------------------------------------------------------
(* The queue, its task and the history *)

(* A step that leaves the retained review alone, or drops it *)
DeskStep ==
  /\ DOMAIN admission' = DOMAIN admission
  /\ admission'.next \in Nat
  /\ admission'.next >= admission.next
  /\ \/ admission'.review = <<>>
     \/ /\ admission'.review = admission.review
        /\ admission'.view = admission.view
        /\ admission'.closed = admission.closed
        /\ admission'.busy => admission.busy

(* What was retained stays as the journal and the history have it. *)
LEMMA DeskKept ==
  ASSUME DeskInv, Grows, DeskStep, shown' = shown
  PROVE  DeskInv'
BY DEF DeskInv, Grows, DeskStep, ReviewFits

(* A task that is not touched keeps what it relies on. *)
LEMMA WorkKept ==
  ASSUME WorkInv, Grows, work' = work, shown' = shown, approved' = approved,
         admission.next \in Nat, admission'.next \in Nat, admission'.next >= admission.next
  PROVE  WorkInv'
<1>1. Preparing'
  BY DEF WorkInv, Preparing, Grows, ReviewFits
<1>2. Rejecting'
  BY DEF WorkInv, Rejecting, Grows
<1>3. Confirming'
  BY DEF WorkInv, Confirming, ConfirmingSteps, Grows, ReviewFits
<1> QED BY <1>1, <1>2, <1>3 DEF WorkInv

(* So does the task that has ended. *)
LEMMA WorkEnded ==
  ASSUME work' = A!NoWork
  PROVE  WorkInv'
BY DEF WorkInv, Preparing, Rejecting, Confirming, ConfirmingSteps, A!NoWork

(* Nothing displayed, signed or told is taken back. *)
LEMMA HistoryKept ==
  ASSUME HistoryInv, Grows, shown' = shown, approved' = approved, rejected' = rejected,
         admission.next \in Nat, admission'.next \in Nat, admission'.next >= admission.next
  PROVE  HistoryInv'
BY DEF HistoryInv, Grows, A!SignedOnce, A!SignedAsShown, A!Entries, Entries

(* The fields of the queue. *)
LEMMA DeskFields == DOMAIN A!NewDesk = {"closed", "recovery", "busy", "pending", "view", "review", "next"}
BY DEF A!NewDesk

(* The fields of its task. *)
LEMMA WorkFields ==
  DOMAIN A!NoWork = {"op", "step", "root", "id", "at", "review", "ctx", "cleared", "policy", "claimed", "receipt"}
BY DEF A!NoWork

(* A step of anyone else: the queue, its task and the history are untouched. *)
LEMMA OthersStep ==
  ASSUME ApprovalInv, JournalInv', Grows, UNCHANGED <<admission, work, approved, shown, rejected>>
  PROVE  ApprovalInv'
<1>1. admission.next \in Nat /\ admission'.next = admission.next
  BY DEF ApprovalInv, DeskInv
<1>2. DeskStep
  BY <1>1 DEF DeskStep
<1> QED BY <1>1, <1>2, DeskKept, WorkKept, HistoryKept DEF ApprovalInv

(* A task that ends, with or without an answer, retains no review. *)
LEMMA EndStep ==
  ASSUME ApprovalInv, JournalInv', Grows, UNCHANGED <<approved, shown, rejected>>,
         NEW listed, NEW closed,
         \/ A!EndWork(admission)
         \/ A!EndWork([admission EXCEPT !.pending = listed])
         \/ admission.busy /\ A!EndWork([admission EXCEPT !.recovery = TRUE, !.closed = closed])
  PROVE  ApprovalInv'
<1>1. /\ work' = A!NoWork
      /\ DOMAIN admission' = DOMAIN admission
      /\ admission'.next = admission.next
      /\ admission'.busy = FALSE
      /\ admission'.review = admission.review
      /\ admission'.view = admission.view
      /\ admission'.closed = admission.closed \/ admission.busy
  BY DeskFields DEF A!EndWork, ApprovalInv, DeskInv
<1>2. DeskStep
  BY <1>1 DEF DeskStep, ApprovalInv, DeskInv
<1> QED BY <1>1, <1>2, DeskKept, WorkEnded, HistoryKept DEF ApprovalInv, DeskInv

-----------------------------------------------------------------------------
(* One lemma per operation of the queue *)

(* launch: a list, for a refresh or a rejection *)
LEMMA LaunchStep ==
  ASSUME ApprovalInv, NEW op \in {"refreshing", "rejecting"}, NEW root, A!Launch(op, root)
  PROVE  ApprovalInv'
<1>1. JournalInv' /\ Grows
  BY NoRow DEF A!Launch, ApprovalInv
<1>2. /\ DOMAIN admission' = DOMAIN admission
      /\ admission'.next = admission.next
      /\ admission'.review = <<>>
  BY DeskFields DEF A!Launch, ApprovalInv, DeskInv
<1>3. DeskStep
  BY <1>2 DEF DeskStep, ApprovalInv, DeskInv
<1>4. /\ DOMAIN work' = DOMAIN A!NoWork
      /\ work'.cleared = FALSE /\ work'.op = op /\ work'.step = "list"
  BY WorkFields DEF A!Launch, A!NoWork
<1>5. WorkInv'
  BY <1>4 DEF WorkInv, Preparing, Rejecting, Confirming, ConfirmingSteps
<1>6. UNCHANGED <<shown, approved, rejected>>
  BY DEF A!Launch
<1> QED BY <1>1, <1>2, <1>3, <1>5, <1>6, DeskKept, HistoryKept DEF ApprovalInv, DeskInv

(* preparing: the task takes a new id *)
LEMMA PrepareStep ==
  ASSUME ApprovalInv, A!Prepare
  PROVE  ApprovalInv'
<1>1. JournalInv' /\ Grows
  BY NoRow DEF A!Prepare, ApprovalInv
<1>2. /\ DOMAIN admission' = DOMAIN admission
      /\ admission'.next = admission.next + 1
      /\ admission'.review = <<>>
  BY DeskFields DEF A!Prepare, ApprovalInv, DeskInv
<1>3. DeskStep
  BY <1>2 DEF DeskStep, ApprovalInv, DeskInv
<1>4. /\ DOMAIN work' = DOMAIN A!NoWork
      /\ work'.cleared = FALSE /\ work'.op = "reviewing" /\ work'.step = "list"
      /\ work'.id = admission.next
  BY WorkFields DEF A!Prepare, A!NoWork
<1>5. UNCHANGED <<shown, approved, rejected>>
  BY DEF A!Prepare
<1>6. admission.next \notin DOMAIN shown
  BY DEF ApprovalInv, DeskInv, HistoryInv
<1>7. admission.next \in Nat /\ admission'.next \in Nat /\ admission'.next > admission.next
  BY <1>2 DEF ApprovalInv, DeskInv
<1>8. WorkInv'
  <2>1. Preparing'
    BY <1>4, <1>5, <1>6, <1>7 DEF Preparing
  <2> QED BY <1>4, <2>1 DEF WorkInv, Rejecting, Confirming, ConfirmingSteps
<1> QED BY <1>1, <1>3, <1>5, <1>7, <1>8, DeskKept, HistoryKept DEF ApprovalInv

(* confirming: the retained review moves into the task, with its id *)
LEMMA ConfirmStep ==
  ASSUME ApprovalInv, A!Confirm
  PROVE  ApprovalInv'
<1>1. JournalInv' /\ Grows
  BY NoRow DEF A!Confirm, ApprovalInv
<1>2. PICK id \in DOMAIN shown :
        /\ A!Confirmable(id)
        /\ work' = [A!NoWork EXCEPT !.op = "confirming", !.step = "admit", !.id = id,
                                    !.root = admission.review[1].root, !.review = admission.review]
  BY DEF A!Confirm
<1>3. /\ DOMAIN admission' = DOMAIN admission
      /\ admission'.next = admission.next
      /\ admission'.review = <<>>
  BY DeskFields DEF A!Confirm, ApprovalInv, DeskInv
<1>4. DeskStep
  BY <1>3 DEF DeskStep, ApprovalInv, DeskInv
<1>5. /\ DOMAIN work' = DOMAIN A!NoWork
      /\ work'.cleared = FALSE /\ work'.op = "confirming" /\ work'.step = "admit"
      /\ work'.id = id /\ work'.root = admission.review[1].root /\ work'.review = admission.review
  BY <1>2, WorkFields DEF A!NoWork
<1>6. UNCHANGED <<shown, approved, rejected>>
  BY DEF A!Confirm
<1>7. /\ admission.review # <<>> /\ shown[id] = admission.review[1]
      /\ ReviewFits(admission.review[1])
  BY <1>2 DEF A!Confirmable, ApprovalInv, DeskInv
<1>8. WorkInv'
  <2>1. Preparing' /\ Rejecting'
    BY <1>5 DEF Preparing, Rejecting
  <2>2. ReviewFits(work.review[1])'
    BY <1>5, <1>7, <1>1 DEF ReviewFits, Grows
  <2>3. Confirming'
    BY <1>2, <1>5, <1>6, <1>7, <2>2 DEF Confirming, ConfirmingSteps
  <2> QED BY <1>5, <2>1, <2>3 DEF WorkInv
<1> QED BY <1>1, <1>3, <1>4, <1>6, <1>8, DeskKept, HistoryKept DEF ApprovalInv, DeskInv

(* A discarded or closed queue drops the review it retains. *)
LEMMA DropStep ==
  ASSUME ApprovalInv, A!Discard \/ A!Close
  PROVE  ApprovalInv'
<1>1. JournalInv' /\ Grows
  BY NoRow DEF A!Discard, A!Close, ApprovalInv
<1>2. /\ DOMAIN admission' = DOMAIN admission
      /\ admission'.next = admission.next
      /\ admission'.review = <<>>
  BY DeskFields DEF A!Discard, A!Close, ApprovalInv, DeskInv
<1>3. DeskStep
  BY <1>2 DEF DeskStep, ApprovalInv, DeskInv
<1>4. UNCHANGED <<work, shown, approved, rejected>>
  BY DEF A!Discard, A!Close
<1> QED BY <1>1, <1>2, <1>3, <1>4, DeskKept, WorkKept, HistoryKept DEF ApprovalInv, DeskInv

(* A restarted process knows its journal and has no task. *)
LEMMA CrashStep ==
  ASSUME ApprovalInv, A!Crash
  PROVE  ApprovalInv'
<1>1. JournalInv' /\ Grows
  BY NoRow DEF A!Crash, ApprovalInv
<1>2. /\ DOMAIN admission' = DOMAIN admission
      /\ admission'.next = admission.next
      /\ admission'.review = <<>>
  BY DeskFields DEF A!Crash, A!NewDesk, ApprovalInv, DeskInv
<1>3. DeskStep
  BY <1>2 DEF DeskStep, ApprovalInv, DeskInv
<1>4. work' = A!NoWork /\ UNCHANGED <<shown, approved, rejected>>
  BY DEF A!Crash
<1> QED BY <1>1, <1>2, <1>3, <1>4, DeskKept, WorkEnded, HistoryKept DEF ApprovalInv, DeskInv

(* A task that panics closes the queue; it retained no review. *)
LEMMA PanicStep ==
  ASSUME ApprovalInv, A!Panic
  PROVE  ApprovalInv'
<1>1. JournalInv' /\ Grows
  BY NoRow DEF A!Panic, ApprovalInv
<1> QED BY <1>1, EndStep DEF A!Panic

(* Mint, the sweep of get_state, new authority, a moving venue and clock *)
LEMMA OutsideStep ==
  ASSUME ApprovalInv,
         A!Mint \/ A!Sweep \/ A!ReplaceAuthority \/ A!MoveVenue \/ A!Tick \/ A!StepBack
  PROVE  ApprovalInv'
<1>0. JournalInv
  BY DEF ApprovalInv
<1>1. UNCHANGED <<admission, work, approved, shown, rejected>>
  BY DEF A!Mint, A!Sweep, A!ReplaceAuthority, A!MoveVenue, A!Tick, A!StepBack
<1>2. CASE A!Mint
  <2>1. PICK req \in Requests : A!CanMint(req) /\ A!Append1(ProposalRow(req))
    BY <1>2 DEF A!Mint, ProposalRow
  <2>2. JournalInv' /\ Grows
    BY <1>0, <2>1, MintAccepted, AcceptedRow DEF A!Append1
  <2> QED BY <1>1, <2>2, OthersStep
<1>3. CASE A!Sweep
  <2>1. PICK r \in A!Expirable(now) : A!Append1(A!Disposed(r, now, "expired", 0))
    BY <1>3 DEF A!Sweep
  <2>2. A!ListHolds(now)
    BY <1>3 DEF A!Sweep
  <2>3. JournalInv' /\ Grows
    BY <1>0, <2>1, <2>2, ExpiryAccepted, AcceptedRow DEF A!Append1
  <2> QED BY <1>1, <2>3, OthersStep
<1>4. CASE A!ReplaceAuthority
  <2>1. PICK kind \in {"policy", "grant"} : A!Append1([kind |-> kind])
    BY <1>4 DEF A!ReplaceAuthority
  <2>2. Accepts([kind |-> kind])
    BY <2>1 DEF Accepts
  <2>3. JournalInv' /\ Grows
    BY <1>0, <2>1, <2>2, AcceptedRow DEF A!Append1
  <2> QED BY <1>1, <2>3, OthersStep
<1>5. CASE A!MoveVenue \/ A!Tick \/ A!StepBack
  <2>1. proposals' = proposals
    BY <1>5 DEF A!MoveVenue, A!Tick, A!StepBack
  <2> QED BY <1>0, <1>1, <2>1, NoRow, OthersStep
<1> QED BY <1>2, <1>3, <1>4, <1>5

-----------------------------------------------------------------------------
(* One lemma per step of the task *)

(* The list fails, or sweeps one expired proposal. *)
LEMMA SweepStep ==
  ASSUME ApprovalInv, A!ListFails \/ A!ExpireOne
  PROVE  ApprovalInv'
<1>0. JournalInv
  BY DEF ApprovalInv
<1>1. UNCHANGED <<approved, shown, rejected>>
  BY DEF A!ListFails, A!ExpireOne
<1>2. CASE A!ListFails
  <2>1. proposals' = proposals /\ A!EndWork(admission)
    BY <1>2 DEF A!ListFails, A!Fail
  <2> QED BY <1>0, <1>1, <2>1, NoRow, EndStep
<1>3. CASE A!ExpireOne
  <2>1. A!ListHolds(A!ListTime)
    BY <1>3 DEF A!ExpireOne
  <2>2. PICK r \in A!Expirable(A!ListTime) :
          A!Tx(A!Disposed(r, A!ListTime, "expired", 0), UNCHANGED <<admission, work>>)
    BY <1>3 DEF A!ExpireOne
  <2>3. Accepts(A!Disposed(r, A!ListTime, "expired", 0))
    BY <1>0, <2>1, <2>2, ExpiryAccepted
  <2>4. JournalInv' /\ Grows
    BY <1>0, <2>2, <2>3, NoRow, AcceptedRow DEF A!Tx, A!Append1
  <2>5. UNCHANGED <<admission, work>> \/ A!EndWork(admission)
    BY <2>2 DEF A!Tx, A!Fail
  <2> QED BY <1>1, <2>4, <2>5, EndStep, OthersStep
<1> QED BY <1>2, <1>3

(* The list is read: a rejection found its proposal in it, inside its life. *)
LEMMA ListedStep ==
  ASSUME ApprovalInv, A!Listed
  PROVE  ApprovalInv'
<1>0. JournalInv /\ WorkInv
  BY DEF ApprovalInv
<1>1. JournalInv' /\ Grows /\ UNCHANGED <<approved, shown, rejected>>
  BY <1>0, NoRow DEF A!Listed
<1> DEFINE listed == A!PendingAt(A!ListTime)
<1>2. \/ A!EndWork([admission EXCEPT !.pending = listed])
      \/ A!EndWork(admission)
      \/ /\ work.step = "list" /\ work.op # "refreshing" /\ work.root \in listed /\ A!ListHolds(A!ListTime)
         /\ work' = IF work.op = "rejecting" THEN [work EXCEPT !.step = "reject"]
                    ELSE [work EXCEPT !.step = "price", !.ctx = quote]
         /\ UNCHANGED admission
  BY DEF A!Listed, A!Fail
<1>3. CASE A!EndWork([admission EXCEPT !.pending = listed]) \/ A!EndWork(admission)
  BY <1>1, <1>3, EndStep
<1>4. CASE /\ work.step = "list" /\ work.op # "refreshing" /\ work.root \in listed /\ A!ListHolds(A!ListTime)
           /\ work' = IF work.op = "rejecting" THEN [work EXCEPT !.step = "reject"]
                      ELSE [work EXCEPT !.step = "price", !.ctx = quote]
           /\ UNCHANGED admission
  <2>1. /\ work.root \in DOMAIN Entries
        /\ A!ListTime < Entries[work.root].expires /\ A!ListTime >= Entries[work.root].minted
    BY <1>4 DEF A!PendingAt, A!ListHolds, A!Entries, Entries
  <2>2. /\ work.root \in DOMAIN Entries'
        /\ A!ListTime < Entries'[work.root].expires /\ A!ListTime >= Entries'[work.root].minted
    BY <1>1, <2>1 DEF Grows
  <2>3. work.op \in {"rejecting", "reviewing"}
    BY <1>0, <1>4 DEF WorkInv, Preparing
  <2>4. WorkInv'
    <3>1. CASE work.op = "rejecting"
      <4>1. /\ DOMAIN work' = DOMAIN A!NoWork
            /\ work'.cleared = work.cleared /\ work'.op = work.op /\ work'.step = "reject"
            /\ work'.root = work.root /\ work'.at = work.at
        BY <1>0, <1>4, <3>1, WorkFields DEF WorkInv
      <4>2. A!ListTime = work.at
        BY <3>1 DEF A!ListTime
      <4>3. Rejecting'
        BY <2>2, <4>1, <4>2 DEF Rejecting
      <4> QED BY <1>0, <3>1, <4>1, <4>3 DEF WorkInv, Preparing, Confirming, ConfirmingSteps
    <3>2. CASE work.op = "reviewing"
      <4>1. /\ DOMAIN work' = DOMAIN A!NoWork
            /\ work'.cleared = work.cleared /\ work'.op = work.op /\ work'.step = "price"
            /\ work'.root = work.root /\ work'.id = work.id
        BY <1>0, <1>4, <3>2, WorkFields DEF WorkInv
      <4>2. Preparing'
        BY <1>0, <1>1, <1>4, <2>2, <3>2, <4>1 DEF WorkInv, Preparing
      <4> QED BY <1>0, <4>1, <4>2 DEF WorkInv, Rejecting, Confirming, ConfirmingSteps
    <3> QED BY <2>3, <3>1, <3>2
  <2>5. DeskStep
    BY <1>4 DEF DeskStep, ApprovalInv, DeskInv
  <2>6. admission.next \in Nat /\ admission'.next = admission.next
    BY <1>4 DEF ApprovalInv, DeskInv
  <2> QED BY <1>1, <2>4, <2>5, <2>6, DeskKept, HistoryKept DEF ApprovalInv
<1> QED BY <1>2, <1>3, <1>4

(* A rejection is told only once its row is durable. *)
LEMMA RejectStep ==
  ASSUME ApprovalInv, A!RejectRow
  PROVE  ApprovalInv'
<1>0. JournalInv /\ WorkInv /\ work.step = "reject"
  BY DEF ApprovalInv, A!RejectRow
<1> DEFINE row == A!Disposed(work.root, work.at, "rejected", 0)
<1>1. UNCHANGED <<approved, shown>>
  BY DEF A!RejectRow
<1>2. CASE /\ Entries[work.root].state = "pending"
           /\ A!Append1(row)
           /\ rejected' = rejected \cup {work.root}
           /\ A!EndWork([admission EXCEPT !.pending = A!PendingAt(work.at) \ {work.root}])
  <2>1. Accepts(row)
    BY <1>0, <1>2, RejectionAccepted
  <2>2. row.kind = "disposed" /\ row.root = work.root /\ row.outcome = "rejected"
    BY DEF A!Disposed
  <2> HIDE DEF row
  <2>3. JournalInv' /\ Grows /\ Entries'[work.root].state = "rejected"
    BY <1>0, <1>2, <2>1, <2>2, AcceptedRow DEF A!Append1
  <2>4. /\ work' = A!NoWork
        /\ DOMAIN admission' = DOMAIN admission
        /\ admission'.next = admission.next
        /\ admission'.busy = FALSE
        /\ admission'.review = admission.review
        /\ admission'.view = admission.view
        /\ admission'.closed = admission.closed
    BY <1>2, DeskFields DEF A!EndWork, ApprovalInv, DeskInv
  <2>5. DeskStep
    BY <2>4 DEF DeskStep, ApprovalInv, DeskInv
  <2>6. work.root \in DOMAIN Entries'
    BY <1>0, <2>3 DEF WorkInv, Rejecting, Grows
  <2>7. HistoryInv'
    BY <1>1, <1>2, <2>3, <2>4, <2>6
       DEF ApprovalInv, DeskInv, HistoryInv, Grows, A!SignedOnce, A!SignedAsShown, A!Entries, Entries
  <2> QED BY <1>1, <2>3, <2>4, <2>5, <2>7, DeskKept, WorkEnded DEF ApprovalInv
<1>3. CASE /\ Entries[work.root].state = "pending"
           /\ A!Append1(row) \/ UNCHANGED proposals
           /\ A!Fail
           /\ rejected' = A!ToldOnError
  <2>1. Accepts(row)
    BY <1>0, <1>3, RejectionAccepted
  <2> HIDE DEF row
  <2>2. JournalInv' /\ Grows
    BY <1>0, <1>3, <2>1, AcceptedRow, NoRow DEF A!Append1
  <2> QED BY <1>1, <1>3, <2>2, EndStep DEF A!Fail, A!ToldOnError
<1>4. CASE /\ A!EndWork([admission EXCEPT !.pending = A!PendingAt(work.at)])
           /\ UNCHANGED <<proposals, rejected>>
  BY <1>0, <1>1, <1>4, NoRow, EndStep
<1> QED BY <1>2, <1>3, <1>4 DEF A!RejectRow, A!Entries, Entries

(* The queue is untouched while its task goes on. *)
LEMMA GoesOn ==
  ASSUME ApprovalInv, JournalInv', Grows, WorkInv', UNCHANGED <<admission, approved, shown, rejected>>
  PROVE  ApprovalInv'
<1>1. admission.next \in Nat /\ admission'.next = admission.next
  BY DEF ApprovalInv, DeskInv
<1>2. DeskStep
  BY <1>1 DEF DeskStep
<1> QED BY <1>1, <1>2, DeskKept, HistoryKept DEF ApprovalInv

(* The commitment names the proposal and ends when it does. *)
LEMMA PrepareReviewStep ==
  ASSUME ApprovalInv, A!PrepareReview
  PROVE  ApprovalInv'
<1>0. JournalInv /\ WorkInv /\ work.step = "price"
  BY DEF ApprovalInv, A!PrepareReview
<1>1. JournalInv' /\ Grows /\ UNCHANGED <<approved, shown, rejected>>
  BY <1>0, NoRow DEF A!PrepareReview
<1>2. CASE A!Fail
  BY <1>1, <1>2, EndStep DEF A!Fail
<1>3. CASE /\ work' = [work EXCEPT !.step = "show", !.review = <<A!Commitment(work.root, now)>>]
           /\ UNCHANGED admission
  <2> DEFINE c == A!Commitment(work.root, now)
  <2>1. c.root = work.root /\ c.expires = Entries[work.root].expires
    BY DEF A!Commitment, A!Entries, Entries
  <2> HIDE DEF c
  <2>2. /\ DOMAIN work' = DOMAIN A!NoWork
        /\ work'.cleared = work.cleared /\ work'.op = work.op /\ work'.step = "show"
        /\ work'.root = work.root /\ work'.id = work.id /\ work'.review = <<c>>
    BY <1>0, <1>3, WorkFields DEF WorkInv, c
  <2>3. work'.review # <<>> /\ work'.review[1] = c
    BY <2>2
  <2>4. work.root \in DOMAIN Entries /\ work.op = "reviewing"
    BY <1>0 DEF WorkInv, Preparing
  <2>5. ReviewFits(work.review[1])'
    BY <1>1, <2>1, <2>3, <2>4 DEF ReviewFits, Grows
  <2>6. work'.root \in DOMAIN Entries'
    BY <1>1, <2>2, <2>4 DEF Grows
  <2>7. Preparing'
    BY <1>0, <1>1, <1>3, <2>1, <2>2, <2>3, <2>4, <2>5, <2>6 DEF WorkInv, Preparing
  <2>8. WorkInv'
    BY <1>0, <2>2, <2>7 DEF WorkInv, Rejecting, Confirming, ConfirmingSteps
  <2> QED BY <1>1, <1>3, <2>8, GoesOn
<1> QED BY <1>2, <1>3 DEF A!PrepareReview

(* The review is displayed under the id of its task, which is new. *)
LEMMA ShowStep ==
  ASSUME ApprovalInv, A!ShowReview
  PROVE  ApprovalInv'
<1>0. JournalInv /\ WorkInv /\ HistoryInv /\ work.step = "show"
  BY DEF ApprovalInv, A!ShowReview
<1>1. JournalInv' /\ Grows /\ UNCHANGED <<approved, rejected>>
  BY <1>0, NoRow DEF A!ShowReview
<1>2. CASE A!EndWork(admission) /\ UNCHANGED shown
  BY <1>1, <1>2, EndStep
<1>3. CASE /\ A!ShowsReview
           /\ shown' = [k \in DOMAIN shown \cup {work.id} |-> IF k = work.id THEN work.review[1] ELSE shown[k]]
           /\ A!EndWork([admission EXCEPT
                           !.view = <<[id |-> work.id, expires |-> work.review[1].expires]>>,
                           !.review = work.review])
  <2>1. /\ work.id \in Nat /\ work.id < admission.next /\ work.id \notin DOMAIN shown
        /\ work.review # <<>> /\ ReviewFits(work.review[1])
    BY <1>0 DEF WorkInv, Preparing
  <2>2. /\ DOMAIN shown' = DOMAIN shown \cup {work.id}
        /\ shown'[work.id] = work.review[1]
        /\ \A id \in DOMAIN shown : shown'[id] = shown[id]
    BY <1>3, <2>1
  <2> DEFINE v == [id |-> work.id, expires |-> work.review[1].expires]
  <2>3. v.id = work.id
    OBVIOUS
  <2> HIDE DEF v
  <2>4. /\ work' = A!NoWork
        /\ DOMAIN admission' = DOMAIN admission
        /\ admission'.next = admission.next
        /\ admission'.busy = FALSE
        /\ admission'.review = work.review
        /\ admission'.view = <<v>>
        /\ admission'.closed = admission.closed
    BY <1>3, DeskFields DEF A!EndWork, ApprovalInv, DeskInv, v
  <2>5. ~admission.closed
    BY <1>3 DEF A!ShowsReview
  <2>6. ReviewFits(admission.review[1])'
    BY <1>1, <2>1, <2>4 DEF ReviewFits, Grows
  <2>7. admission'.view[1].id = work.id
    BY <2>3, <2>4
  <2>8. DeskInv'
    BY <2>1, <2>2, <2>4, <2>5, <2>6, <2>7 DEF DeskInv, ApprovalInv
  <2>9. HistoryInv'
    <3>1. \A id \in DOMAIN shown' : id \in Nat /\ id < admission'.next
      BY <1>0, <2>1, <2>2, <2>4 DEF HistoryInv
    <3>2. A!SignedAsShown'
      BY <1>0, <1>1, <2>2 DEF HistoryInv, A!SignedAsShown
    <3>3. A!SignedOnce'
      BY <1>0, <1>1 DEF HistoryInv, A!SignedOnce, Grows, A!Entries, Entries
    <3> QED BY <1>0, <1>1, <3>1, <3>2, <3>3 DEF HistoryInv, Grows
  <2> QED BY <1>1, <2>4, <2>8, <2>9, WorkEnded DEF ApprovalInv
<1> QED BY <1>2, <1>3 DEF A!ShowReview

(* A confirming task that only moves on keeps its review, id and root. *)
LEMMA ConfirmingGoesOn ==
  ASSUME ApprovalInv, JournalInv', Grows, UNCHANGED <<admission, approved, shown, rejected>>,
         work.step \in ConfirmingSteps,
         work'.step \in ConfirmingSteps,
         DOMAIN work' = DOMAIN work,
         work'.op = work.op, work'.id = work.id, work'.root = work.root, work'.review = work.review,
         work'.cleared \in BOOLEAN,
         work'.step \in {"record", "finish", "sign"} /\ work'.cleared = TRUE =>
           work'.policy = work.review[1].policy,
         work'.step = "sign" =>
           /\ work'.cleared = TRUE
           /\ Entries'[work.root].state = "approved"
           /\ \A s \in approved : s.root # work.root
  PROVE  ApprovalInv'
<1>0. WorkInv
  BY DEF ApprovalInv
<1>1. /\ work.review # <<>> /\ work.id \in DOMAIN shown /\ shown[work.id] = work.review[1]
      /\ work.review[1].root = work.root /\ ReviewFits(work.review[1])
  BY <1>0 DEF WorkInv, Confirming
<1>2. ReviewFits(work.review[1])'
  BY <1>1 DEF ReviewFits, Grows
<1>3. Confirming'
  BY <1>1, <1>2 DEF Confirming
<1>4. Preparing' /\ Rejecting'
  BY <1>0 DEF WorkInv, Preparing, Rejecting, ConfirmingSteps
<1>5. WorkInv'
  BY <1>0, <1>3, <1>4 DEF WorkInv
<1> QED BY <1>5, GoesOn

(* admission: nothing is decided yet *)
LEMMA AdmitStep ==
  ASSUME ApprovalInv, A!ConfirmAdmit
  PROVE  ApprovalInv'
<1>0. JournalInv /\ WorkInv /\ work.step = "admit"
  BY DEF ApprovalInv, A!ConfirmAdmit
<1>1. JournalInv' /\ Grows /\ UNCHANGED <<approved, shown, rejected>>
  BY <1>0, NoRow DEF A!ConfirmAdmit
<1>2. CASE A!Fail
  BY <1>1, <1>2, EndStep DEF A!Fail
<1>3. CASE work' = [work EXCEPT !.step = "claim", !.ctx = quote] /\ UNCHANGED admission
  <2>1. /\ DOMAIN work' = DOMAIN work /\ work'.step = "claim"
        /\ work'.op = work.op /\ work'.id = work.id /\ work'.root = work.root /\ work'.review = work.review
        /\ work'.cleared \in BOOLEAN
    BY <1>0, <1>3, WorkFields DEF WorkInv
  <2> QED BY <1>0, <1>1, <1>3, <2>1, ConfirmingGoesOn DEF ConfirmingSteps
<1> QED BY <1>2, <1>3 DEF A!ConfirmAdmit

(* The claim is durable before anything is decided. *)
LEMMA ClaimStep ==
  ASSUME ApprovalInv, A!ClaimReview
  PROVE  ApprovalInv'
<1>0. JournalInv /\ WorkInv /\ work.step = "claim"
  BY DEF ApprovalInv, A!ClaimReview
<1>1. UNCHANGED <<approved, shown, rejected>>
  BY DEF A!ClaimReview
<1> DEFINE w == [work EXCEPT !.step = "decide", !.at = now, !.claimed = Len(Rows) + 1]
<1>2. \/ proposals' = proposals /\ A!Fail
      \/ /\ A!Claimable(work.review[1], now)
         /\ A!Append1(ClaimRow)
         /\ A!Fail \/ (work' = w /\ UNCHANGED admission)
  BY DEF A!ClaimReview, A!Tx, ClaimRow, A!Entries, Entries, Rows
<1>3. CASE proposals' = proposals /\ A!Fail
  BY <1>0, <1>1, <1>3, NoRow, EndStep DEF A!Fail
<1>4. CASE /\ A!Claimable(work.review[1], now)
           /\ A!Append1(ClaimRow)
           /\ A!Fail \/ (work' = w /\ UNCHANGED admission)
  <2>1. JournalInv' /\ Grows
    BY <1>0, <1>4, ClaimAccepted, AcceptedRow DEF A!Append1
  <2>2. CASE A!Fail
    BY <1>1, <2>1, <2>2, EndStep DEF A!Fail
  <2>3. CASE work' = w /\ UNCHANGED admission
    <3>1. /\ DOMAIN work' = DOMAIN work /\ work'.step = "decide"
          /\ work'.op = work.op /\ work'.id = work.id /\ work'.root = work.root /\ work'.review = work.review
          /\ work'.cleared \in BOOLEAN
      BY <1>0, <2>3, WorkFields DEF WorkInv
    <3> QED BY <1>0, <1>1, <2>1, <2>3, <3>1, ConfirmingGoesOn DEF ConfirmingSteps
  <2> QED BY <1>4, <2>2, <2>3
<1> QED BY <1>2, <1>3, <1>4

(* A cleared decision is under the reviewed policy. *)
LEMMA DecideStep ==
  ASSUME ApprovalInv, A!DecideApproved
  PROVE  ApprovalInv'
<1>0. JournalInv /\ WorkInv /\ work.step = "decide"
  BY DEF ApprovalInv, A!DecideApproved
<1>1. JournalInv' /\ Grows /\ UNCHANGED <<admission, approved, shown, rejected>>
  BY <1>0, NoRow DEF A!DecideApproved
<1>2. PICK c \in BOOLEAN :
        /\ work' = [work EXCEPT !.step = "record", !.cleared = c, !.policy = A!Policy]
        /\ c = TRUE => work.review[1].policy = A!Policy
  BY DEF A!DecideApproved, A!StillCleared
<1>3. /\ DOMAIN work' = DOMAIN work /\ work'.step = "record"
      /\ work'.op = work.op /\ work'.id = work.id /\ work'.root = work.root /\ work'.review = work.review
      /\ work'.cleared = c /\ work'.policy = A!Policy
  BY <1>0, <1>2, WorkFields DEF WorkInv
<1> QED BY <1>0, <1>1, <1>2, <1>3, ConfirmingGoesOn DEF ConfirmingSteps

ReceiptRow == [kind |-> "receipt", root |-> work.root, cleared |-> work.cleared,
               policy |-> work.policy, candidate |-> work.review[1].candidate]

(* The receipt is written before the claim is finished. *)
LEMMA RecordStep ==
  ASSUME ApprovalInv, A!RecordOutcome
  PROVE  ApprovalInv'
<1>0. JournalInv /\ WorkInv /\ work.step = "record"
  BY DEF ApprovalInv, A!RecordOutcome
<1>1. UNCHANGED <<approved, shown, rejected>>
  BY DEF A!RecordOutcome
<1>2. CASE proposals' = proposals /\ A!Fail
  BY <1>0, <1>1, <1>2, NoRow, EndStep DEF A!Fail
<1>3. CASE /\ A!Append1(ReceiptRow)
           /\ work' = [work EXCEPT !.step = "finish", !.receipt = Len(Rows) + 1]
           /\ UNCHANGED admission
  <2>1. Accepts(ReceiptRow)
    BY DEF Accepts, ReceiptRow
  <2>2. JournalInv' /\ Grows
    BY <1>0, <1>3, <2>1, AcceptedRow DEF A!Append1
  <2>3. /\ DOMAIN work' = DOMAIN work /\ work'.step = "finish"
        /\ work'.op = work.op /\ work'.id = work.id /\ work'.root = work.root /\ work'.review = work.review
        /\ work'.cleared = work.cleared /\ work'.policy = work.policy
    BY <1>0, <1>3, WorkFields DEF WorkInv
  <2>4. work.cleared \in BOOLEAN /\ (work.cleared = TRUE => work.policy = work.review[1].policy)
    BY <1>0 DEF WorkInv, Confirming
  <2> QED BY <1>0, <1>1, <1>3, <2>2, <2>3, <2>4, ConfirmingGoesOn DEF ConfirmingSteps
<1> QED BY <1>2, <1>3 DEF A!RecordOutcome, A!AfterRecord, ReceiptRow, Rows

(* Only a claim that nobody finished is finished, so nothing was signed    *)
(* under it; what goes on to be signed is durably approved.                *)
LEMMA FinishStep ==
  ASSUME ApprovalInv, A!Finish
  PROVE  ApprovalInv'
<1>0. JournalInv /\ WorkInv /\ HistoryInv /\ work.step = "finish"
  BY DEF ApprovalInv, A!Finish
<1>1. UNCHANGED <<approved, shown, rejected>>
  BY DEF A!Finish
<1> DEFINE row == A!Disposed(work.root, work.at, IF work.cleared THEN "approved" ELSE "refused", work.receipt)
<1>2. \/ proposals' = proposals /\ A!EndWork(admission)
      \/ A!Finishable /\ A!Append1(row) /\ A!EndWork(admission)
      \/ /\ A!Finishable /\ A!Append1(row) /\ work.cleared = TRUE
         /\ work' = [work EXCEPT !.step = "sign"] /\ UNCHANGED admission
  <2>1. work.cleared = TRUE \/ work.cleared = FALSE
    BY <1>0 DEF WorkInv
  <2> QED BY <2>1 DEF A!Finish, A!Tx, A!Fail
<1>3. CASE proposals' = proposals /\ A!EndWork(admission)
  BY <1>0, <1>1, <1>3, NoRow, EndStep
<1>4. ASSUME A!Finishable, A!Append1(row)
      PROVE  JournalInv' /\ Grows /\ Entries'[work.root].state = row.outcome
  <2>1. Accepts(row)
    BY <1>0, <1>4, FinishAccepted
  <2>2. row.kind = "disposed" /\ row.root = work.root
    BY DEF A!Disposed
  <2> HIDE DEF row
  <2> QED BY <1>0, <1>4, <2>1, <2>2, AcceptedRow DEF A!Append1
<1>5. CASE A!Finishable /\ A!Append1(row) /\ A!EndWork(admission)
  BY <1>1, <1>4, <1>5, EndStep
<1>6. CASE /\ A!Finishable /\ A!Append1(row) /\ work.cleared = TRUE
           /\ work' = [work EXCEPT !.step = "sign"] /\ UNCHANGED admission
  <2>1. row.outcome = "approved"
    BY <1>6 DEF A!Disposed
  <2>2. JournalInv' /\ Grows /\ Entries'[work.root].state = "approved"
    BY <1>4, <1>6, <2>1
  <2>3. Entries[work.root].state = "claimed"
    BY <1>6 DEF A!Finishable, A!Entries, Entries
  <2>4. \A s \in approved : s.root # work.root
    BY <1>0, <2>3 DEF HistoryInv, A!SignedOnce, A!Entries, Entries
  <2> HIDE DEF row
  <2>5. /\ DOMAIN work' = DOMAIN work /\ work'.step = "sign"
        /\ work'.op = work.op /\ work'.id = work.id /\ work'.root = work.root /\ work'.review = work.review
        /\ work'.cleared = work.cleared /\ work'.policy = work.policy
    BY <1>0, <1>6, WorkFields DEF WorkInv
  <2>6. work.cleared = TRUE => work.policy = work.review[1].policy
    BY <1>0 DEF WorkInv, Confirming
  <2> QED BY <1>0, <1>1, <1>6, <2>2, <2>4, <2>5, <2>6, ConfirmingGoesOn DEF ConfirmingSteps
<1> QED BY <1>2, <1>3, <1>5, <1>6

(* The signature is the first under its proposal, of what was displayed,   *)
(* under the displayed policy and before the displayed expiry.             *)
LEMMA SignStep ==
  ASSUME ApprovalInv, A!SignApproved
  PROVE  ApprovalInv'
<1>0. JournalInv /\ WorkInv /\ HistoryInv /\ work.step = "sign"
  BY DEF ApprovalInv, A!SignApproved
<1>1. JournalInv' /\ Grows /\ UNCHANGED <<shown, rejected>> /\ A!EndWork(admission)
  BY <1>0, NoRow DEF A!SignApproved, A!Fail
<1>2. CASE UNCHANGED approved
  BY <1>1, <1>2, EndStep
<1> DEFINE s == [root |-> work.root, id |-> work.id, at |-> now,
                 policy |-> A!Policy, candidate |-> work.review[1].candidate]
<1>3. CASE A!Signable /\ approved' = approved \cup {s}
  <2>1. /\ s.root = work.root /\ s.id = work.id /\ s.at = now
        /\ s.policy = A!Policy /\ s.candidate = work.review[1].candidate
    OBVIOUS
  <2> HIDE DEF s
  <2>2. /\ work.id \in DOMAIN shown /\ shown[work.id] = work.review[1]
        /\ work.review[1].root = work.root /\ ReviewFits(work.review[1])
        /\ work.policy = work.review[1].policy
        /\ Entries[work.root].state = "approved"
        /\ \A t \in approved : t.root # work.root
    BY <1>0 DEF WorkInv, Confirming, ConfirmingSteps
  <2>3. work.policy = A!Policy /\ now < Entries[work.root].expires
    BY <1>3 DEF A!Signable, A!Entries, Entries
  <2>4. /\ s.id \in DOMAIN shown /\ s.root = shown[s.id].root
        /\ s.candidate = shown[s.id].candidate /\ s.policy = shown[s.id].policy
        /\ s.at < shown[s.id].expires
    BY <2>1, <2>2, <2>3 DEF ReviewFits
  <2>5. A!SignedAsShown'
    BY <1>0, <1>1, <1>3, <2>4 DEF HistoryInv, A!SignedAsShown
  <2>6. s.root \in DOMAIN Entries' /\ Entries'[s.root].state = "approved"
    BY <1>1, <2>1, <2>2 DEF Grows, ReviewFits
  <2>7. A!SignedOnce'
    BY <1>0, <1>1, <1>3, <2>1, <2>2, <2>6 DEF HistoryInv, A!SignedOnce, Grows, A!Entries, Entries
  <2>8. /\ work' = A!NoWork
        /\ DOMAIN admission' = DOMAIN admission
        /\ admission'.next = admission.next
        /\ admission'.busy = FALSE
        /\ admission'.review = admission.review
        /\ admission'.view = admission.view
        /\ admission'.closed = admission.closed
    BY <1>1, DeskFields DEF A!EndWork, ApprovalInv, DeskInv
  <2>9. HistoryInv'
    BY <1>0, <1>1, <1>3, <2>5, <2>6, <2>7, <2>8 DEF HistoryInv, Grows
  <2>10. DeskStep
    BY <2>8 DEF DeskStep, ApprovalInv, DeskInv
  <2> QED BY <1>1, <2>8, <2>9, <2>10, DeskKept, WorkEnded DEF ApprovalInv
<1> QED BY <1>2, <1>3 DEF A!SignApproved

-----------------------------------------------------------------------------
(* The queue as a whole *)

(* A ledger with a grant and a policy and nothing proposed. *)
LEMMA ApprovalInit == A!Init => ApprovalInv
<1> SUFFICES ASSUME A!Init PROVE ApprovalInv
  OBVIOUS
<1>1. proposals = [rows |-> <<[kind |-> "grant"], [kind |-> "policy"]>>, ok |-> TRUE, entries |-> << >>]
  BY DEF A!Init
<1>2. /\ Rows = <<[kind |-> "grant"], [kind |-> "policy"]>> /\ proposals.ok = TRUE /\ Entries = << >>
  BY <1>1 DEF Rows, Entries
<1>3. Rows \in Seq({[kind |-> "grant"], [kind |-> "policy"]}) /\ Len(Rows) = 2
  BY <1>2
<1>4. Rows[1].kind = "grant" /\ Rows[2].kind = "policy"
  BY <1>2
<1>5. DOMAIN Entries = {}
  BY <1>2
<1>6. RowsOf("grant") = {1} /\ RowsOf("policy") = {2}
  BY <1>3, <1>4 DEF RowsOf
<1>7. JournalInv
  <2>1. IsSeq(Rows)
    BY <1>3 DEF IsSeq
  <2>2. \A kind \in {"policy", "grant"} : \E n \in RowsOf(kind) : \A m \in RowsOf(kind) : m <= n
    BY <1>6
  <2> QED BY <1>2, <1>5, <2>1, <2>2 DEF JournalInv
<1>8. DeskInv
  BY DEF A!Init, A!NewDesk, DeskInv
<1>9. WorkInv
  BY DEF A!Init, A!NoWork, WorkInv, Preparing, Rejecting, Confirming, ConfirmingSteps
<1>10. HistoryInv
  BY DEF A!Init, HistoryInv, A!SignedOnce, A!SignedAsShown
<1> QED BY <1>7, <1>8, <1>9, <1>10 DEF ApprovalInv

(* Every operation and every step of the task keeps the invariant. *)
LEMMA ApprovalNext == ApprovalInv /\ A!Next => ApprovalInv'
<1> SUFFICES ASSUME ApprovalInv, A!Next PROVE ApprovalInv'
  OBVIOUS
<1>1. CASE A!Refresh \/ A!Reject
  BY <1>1, LaunchStep DEF A!Refresh, A!Reject
<1>2. CASE A!Prepare \/ A!Confirm \/ A!Discard \/ A!Close
  BY <1>2, PrepareStep, ConfirmStep, DropStep
<1>3. CASE A!Worker
  BY <1>3, SweepStep, ListedStep, RejectStep, PrepareReviewStep, ShowStep, AdmitStep, ClaimStep,
     DecideStep, RecordStep, FinishStep, SignStep DEF A!Worker
<1>4. CASE A!Panic \/ A!Crash
  BY <1>4, PanicStep, CrashStep
<1>5. CASE A!Mint \/ A!Sweep \/ A!ReplaceAuthority \/ A!MoveVenue \/ A!Tick \/ A!StepBack
  BY <1>5, OutsideStep
<1> QED BY <1>1, <1>2, <1>3, <1>4, <1>5 DEF A!Next

(* A part of the system that is not in focus leaves the queue alone. *)
LEMMA ApprovalStutter == ApprovalInv /\ UNCHANGED approvalVars => ApprovalInv'
<1> SUFFICES ASSUME ApprovalInv, UNCHANGED approvalVars PROVE ApprovalInv'
  OBVIOUS
<1>1. proposals' = proposals /\ UNCHANGED <<admission, work, approved, shown, rejected>>
  BY DEF approvalVars
<1>2. JournalInv' /\ Grows
  BY <1>1, NoRow DEF ApprovalInv
<1> QED BY <1>1, <1>2, OthersStep

(* The invariant of the approval queue holds beside every other part.      *)
THEOREM ApprovalInvariant == OrdersSpec => []ApprovalInv
<1>1. OrdersInit => ApprovalInv
  BY ApprovalInit DEF OrdersInit
<1>2. ApprovalInv /\ [OrdersNext]_<<focus, vars, pilotVars, approvalVars>> => ApprovalInv'
  BY ApprovalNext, ApprovalStutter DEF OrdersNext
<1> QED BY <1>1, <1>2, PTL DEF OrdersSpec

(* Whatever crashed, failed, expired or was clicked twice: a proposal is   *)
(* signed at most once and only when its approval is durable, as the       *)
(* review displayed it (price, targets, policy, expiry), and never after   *)
(* the operator was told it is rejected (operator_confirm,                 *)
(* operator_confirm_review, ApprovalQueueControl).                         *)
THEOREM OnlyApprovedIsSigned == OrdersSpec => []OnlyWhatWasApproved
<1>1. ApprovalInv => A!OnlyWhatWasApproved
  <2> SUFFICES ASSUME ApprovalInv PROVE A!OnlyWhatWasApproved
    OBVIOUS
  <2>1. A!RejectionIsFinal
    BY DEF ApprovalInv, HistoryInv, A!RejectionIsFinal, A!SignedOnce, A!Entries, Entries
  <2> QED BY <2>1 DEF ApprovalInv, HistoryInv, A!OnlyWhatWasApproved
<1>2. ApprovalInv => OnlyWhatWasApproved
  BY <1>1 DEF OnlyWhatWasApproved
<1> QED BY <1>2, ApprovalInvariant, PTL

(* No row the queue, the sweep or a mint writes, over any clock and after  *)
(* any failed commit, makes a later replay of the approval journal fail    *)
(* (ledger/approval.rs), and a closed queue retains no review.             *)
THEOREM QueueIsSound == OrdersSpec => []QueueSound
<1>1. ApprovalInv => QueueSound
  BY DEF ApprovalInv, JournalInv, DeskInv, QueueSound, A!QueueSound, A!Replayable, A!ClosedRetainsNothing
<1> QED BY <1>1, ApprovalInvariant, PTL

-----------------------------------------------------------------------------
(* The pilot's consent *)

DeskOwnerFields == {"phase", "running", "stop", "done", "review", "command", "told", "launches"}

(* The owner has not reached the ledger transaction of this launch, or was *)
(* told that it left nothing.                                              *)
NothingWritten ==
  \/ desk.phase \in {"reviewing", "gathering", "ready", "refused"}
  \/ desk.phase = "confirming" /\ desk.command \in {"confirm", "confirming", "discard"}
  \/ desk.told = "not_committed"

(* The row of the reviewed consent *)
ReviewedRow(n) ==
  /\ log[n].signed
  /\ log[n].route = desk.review.route
  /\ log[n].baseline = desk.review.baseline
  /\ log[n].at = desk.review.at

(* A launch writes at most its own consent, and only past its review; an   *)
(* owner that reports an outcome has stopped running.                      *)
ConsentInv ==
  /\ IsSeq(log)
  /\ DOMAIN desk = DeskOwnerFields
  /\ desk.launches \in Nat
  /\ \A n \in P!Authorities(log) : log[n].by \in Nat /\ log[n].by <= desk.launches
  /\ NothingWritten => P!MyRows = {}
  /\ desk.told = "not_committed" \/ desk.phase = "authorized" => desk.running = FALSE
  /\ desk.phase = "authorized" => \E n \in P!Authorities(log) : ReviewedRow(n)

(* A sequence has its length for a domain. *)
LEMMA SeqDomain ==
  ASSUME NEW s, IsSeq(s)
  PROVE  DOMAIN s = 1..Len(s) /\ Len(s) \in Nat
BY DEF IsSeq

(* A row that is no consent of a launch *)
NotMine(row) == row.kind # "authorized" \/ row.by = 0

(* The chain keeps its consents; a new one, if any, is the new row. *)
LEMMA ConsentsStay ==
  ASSUME IsSeq(log), NEW row, log' = Append(log, row)
  PROVE  /\ IsSeq(log')
         /\ \A n \in P!Authorities(log) : n \in P!Authorities(log') /\ log'[n] = log[n]
         /\ \A n \in P!Authorities(log') : n \in P!Authorities(log) \/ (n = Len(log) + 1 /\ log'[n] = row)
         /\ row.kind = "authorized" => Len(log) + 1 \in P!Authorities(log')
         /\ log'[Len(log) + 1] = row
         /\ \A n \in P!Authorities(log') : log'[n].kind = "authorized"
<1>1. /\ IsSeq(log') /\ Len(log') = Len(log) + 1 /\ Len(log) \in Nat
      /\ log'[Len(log) + 1] = row
      /\ \A i \in 1..Len(log) : log'[i] = log[i]
  BY AppendFacts
<1>2. DOMAIN log = 1..Len(log) /\ DOMAIN log' = 1..(Len(log) + 1)
  BY <1>1, SeqDomain
<1> QED BY <1>1, <1>2 DEF P!Authorities, P!Rows

(* The rows of everything else leave the consents of the launches alone. *)
LEMMA ChainStep ==
  ASSUME ConsentInv, desk' = desk, NEW row,
         log' = log \/ (log' = Append(log, row) /\ NotMine(row))
  PROVE  ConsentInv'
<1>1. CASE log' = log
  BY <1>1 DEF ConsentInv, NothingWritten, ReviewedRow, P!MyRows, P!Authorities, P!Rows
<1>2. CASE log' = Append(log, row) /\ NotMine(row)
  <2>0. IsSeq(log)
    BY DEF ConsentInv
  <2>1. /\ IsSeq(log')
        /\ \A n \in P!Authorities(log) : n \in P!Authorities(log') /\ log'[n] = log[n]
        /\ \A n \in P!Authorities(log') : n \in P!Authorities(log) \/ log'[n].by = 0
    <3>1. /\ IsSeq(log')
          /\ \A n \in P!Authorities(log) : n \in P!Authorities(log') /\ log'[n] = log[n]
      BY <1>2, <2>0, ConsentsStay
    <3>2. ASSUME NEW n \in P!Authorities(log'), n \notin P!Authorities(log)
          PROVE  log'[n].by = 0
      <4>1. log'[n] = row /\ log'[n].kind = "authorized"
        BY <1>2, <2>0, <3>2, ConsentsStay
      <4> QED BY <1>2, <4>1 DEF NotMine
    <3> QED BY <3>1, <3>2
  <2>2. \A n \in P!Authorities(log') : log'[n].by \in Nat /\ log'[n].by <= desk.launches
    BY <2>1 DEF ConsentInv
  <2>3. NothingWritten' => P!MyRows' = {}
    <3> SUFFICES ASSUME NothingWritten, NEW n \in P!MyRows' PROVE FALSE
      BY DEF NothingWritten
    <3>1. n \in P!Authorities(log') /\ log'[n].by = desk.launches /\ desk.launches > 0
      BY DEF P!MyRows
    <3>2. n \in P!Authorities(log) /\ log'[n] = log[n]
      BY <2>1, <3>1 DEF ConsentInv
    <3>3. n \in P!MyRows
      BY <3>1, <3>2 DEF P!MyRows
    <3> QED BY <3>3 DEF ConsentInv
  <2>4. desk'.phase = "authorized" => \E n \in P!Authorities(log') : ReviewedRow(n)'
    BY <2>1 DEF ConsentInv, ReviewedRow
  <2> QED BY <2>1, <2>2, <2>3, <2>4 DEF ConsentInv
<1> QED BY <1>1, <1>2

(* Orders, fills, grants, activations and a consent without this owner *)
LEMMA ChainActions ==
  ASSUME ConsentInv,
         \/ P!Authorize \/ P!ReviewLegacy \/ P!Adopt \/ P!Regrant
         \/ \E o \in Orders : P!Begin(o) \/ P!Sign(o) \/ P!Resolve(o) \/ P!Die(o)
         \/ P!Trade \/ P!Deliver \/ P!DeliverMalformed
         \/ \E kind \in {"policy", "activated", "released"} : P!OtherRow(kind)
  PROVE  ConsentInv'
<1>1. CASE P!Authorize
  <2>1. desk' = desk /\ (log' = log \/ log' = Append(log, P!Consent(P!Now, 0)))
    BY <1>1 DEF P!Authorize, P!Written
  <2>2. NotMine(P!Consent(P!Now, 0))
    BY DEF NotMine, P!Consent
  <2> QED BY <2>1, <2>2, ChainStep
<1>2. CASE P!Adopt
  <2> DEFINE row == [kind |-> "adopted", head |-> legacy.baseline, route |-> route]
  <2>1. desk' = desk /\ (log' = log \/ log' = Append(log, row))
    BY <1>2 DEF P!Adopt, P!Written
  <2>2. NotMine(row)
    BY DEF NotMine
  <2> QED BY <2>1, <2>2, ChainStep
<1>3. CASE P!Regrant
  <2> DEFINE row == [kind |-> "granted"]
  <2>1. desk' = desk /\ log' = Append(log, row)
    BY <1>3 DEF P!Regrant, P!Written
  <2>2. NotMine(row)
    BY DEF NotMine
  <2> QED BY <2>1, <2>2, ChainStep
<1>4. CASE \E o \in Orders : P!Begin(o)
  <2>1. PICK o \in Orders : P!Begin(o)
    BY <1>4
  <2> DEFINE row == [kind |-> "started", order |-> o, route |-> route]
  <2>2. desk' = desk /\ log' = Append(log, row)
    BY <2>1 DEF P!Begin, P!Written
  <2>3. NotMine(row)
    BY DEF NotMine
  <2> QED BY <2>2, <2>3, ChainStep
<1>5. CASE \E o \in Orders : P!Resolve(o)
  <2>1. PICK o \in Orders : P!Resolve(o)
    BY <1>5
  <2>2. PICK how \in {"not_sent", "rejected", "observed"} :
          log' = Append(log, [kind |-> "resolved", order |-> o, how |-> how])
    BY <2>1 DEF P!Resolve, P!Written
  <2>3. desk' = desk /\ NotMine([kind |-> "resolved", order |-> o, how |-> how])
    BY <2>1 DEF P!Resolve, NotMine
  <2> QED BY <2>2, <2>3, ChainStep
<1>6. CASE P!Deliver \/ P!DeliverMalformed
  <2>1. PICK t, named, fair : P!RecordFill(t, named, fair)
    BY <1>6 DEF P!Deliver, P!DeliverMalformed
  <2> DEFINE f == P!FillRow(t, named, fair)
             seen == P!Stored(log, t)
             stop == P!Latched(IF seen = {} THEN Append(log, f) ELSE log, f)
             filled == [f EXCEPT !.stop = stop, !.trigger = IF stop = "none" THEN 0 ELSE Len(log) + 1]
             halted == [kind |-> "halted", stop |-> stop, trigger |-> CHOOSE n \in seen : TRUE]
  <2>2. desk' = desk
    BY <2>1 DEF P!RecordFill
  <2>3. log' = log \/ log' = Append(log, filled) \/ log' = Append(log, halted)
    BY <2>1 DEF P!RecordFill, P!Written
  <2>4. NotMine(filled)
    BY DEF NotMine, P!FillRow
  <2>5. NotMine(halted)
    BY DEF NotMine
  <2> HIDE DEF filled, halted
  <2> QED BY <2>2, <2>3, <2>4, <2>5, ChainStep
<1>7. CASE \E kind \in {"policy", "activated", "released"} : P!OtherRow(kind)
  <2>1. PICK kind \in {"policy", "activated", "released"} : P!OtherRow(kind)
    BY <1>7
  <2>2. desk' = desk /\ log' = Append(log, [kind |-> kind])
    BY <2>1 DEF P!OtherRow, P!Written
  <2>3. NotMine([kind |-> kind])
    BY <2>1 DEF NotMine
  <2> QED BY <2>2, <2>3, ChainStep
<1>8. CASE \/ P!ReviewLegacy \/ P!Trade
           \/ \E o \in Orders : P!Sign(o) \/ P!Die(o)
  <2>1. desk' = desk /\ log' = log
    BY <1>8 DEF P!ReviewLegacy, P!Trade, P!Sign, P!Die
  <2> QED BY <2>1, ChainStep
<1> QED BY <1>1, <1>2, <1>3, <1>4, <1>5, <1>6, <1>7, <1>8

(* A step of the owner that reports no consent: the chain is untouched, and *)
(* a step to where nothing is written starts where nothing was.             *)
LEMMA OwnerStep ==
  ASSUME ConsentInv, log' = log,
         DOMAIN desk' = DeskOwnerFields,
         desk'.launches = desk.launches,
         NothingWritten' => NothingWritten \/ P!Authorities(log) = {},
         desk'.told = "not_committed" \/ desk'.phase = "authorized" => desk'.running = FALSE,
         desk'.phase = "authorized" => \E n \in P!Authorities(log) : ReviewedRow(n)'
  PROVE  ConsentInv'
<1>1. P!Authorities(log') = P!Authorities(log) /\ IsSeq(log')
  BY DEF ConsentInv
<1>2. P!MyRows' = P!MyRows
  BY <1>1 DEF P!MyRows
<1>3. P!Authorities(log) = {} => P!MyRows = {}
  BY DEF P!MyRows
<1> QED BY <1>1, <1>2, <1>3 DEF ConsentInv

(* A launch: no row is its own yet. *)
LEMMA LaunchOwner ==
  ASSUME ConsentInv, P!Launch
  PROVE  ConsentInv'
<1>1. /\ log' = log /\ DOMAIN desk' = DeskOwnerFields
      /\ desk'.launches = desk.launches + 1 /\ desk'.phase = "reviewing" /\ desk'.told = "none"
  BY DEF P!Launch, P!Desk, DeskOwnerFields
<1>2. \A n \in P!Authorities(log') : log'[n].by \in Nat /\ log'[n].by < desk'.launches
  BY <1>1 DEF ConsentInv
<1>3. P!MyRows' = {}
  BY <1>1, <1>2 DEF P!MyRows, ConsentInv
<1> QED BY <1>1, <1>2, <1>3 DEF ConsentInv

(* The owner's other steps that write nothing *)
LEMMA OwnerActions ==
  ASSUME ConsentInv,
         \/ P!Refuse \/ P!ShowExisting \/ P!Observe \/ P!ShowReview
         \/ \E command \in {"confirm", "discard", "reconcile"} : P!Ask(command)
         \/ P!Close \/ P!Discard \/ P!TakeConfirm \/ P!ConfirmRefused
         \/ P!StopRun \/ P!TaskDies \/ P!Teardown
  PROVE  ConsentInv'
<1>0. DOMAIN desk = DeskOwnerFields
  BY DEF ConsentInv
<1>1. CASE P!Refuse \/ P!ShowExisting \/ P!Observe \/ P!ShowReview
  <2>1. /\ log' = log /\ DOMAIN desk' = DeskOwnerFields
        /\ desk'.launches = desk.launches /\ desk'.told = desk.told
        /\ desk'.phase # "authorized"
        /\ desk.phase \in {"reviewing", "gathering"}
        /\ desk.running /\ (desk'.running = desk.running \/ desk'.running = FALSE)
    <3>1. CASE P!Refuse
      BY <1>0, <3>1 DEF P!Refuse, P!Desk, DeskOwnerFields
    <3>2. CASE P!ShowExisting
      BY <1>0, <3>2 DEF P!ShowExisting, P!Desk, DeskOwnerFields
    <3>3. CASE P!Observe
      BY <1>0, <3>3 DEF P!Observe, P!Desk, DeskOwnerFields
    <3>4. CASE P!ShowReview
      BY <1>0, <3>4 DEF P!ShowReview, P!Desk, DeskOwnerFields
    <3> QED BY <1>1, <3>1, <3>2, <3>3, <3>4
  <2> QED BY <2>1, OwnerStep DEF NothingWritten, ConsentInv
<1>2. CASE \E command \in {"confirm", "discard", "reconcile"} : P!Ask(command)
  <2>1. PICK command \in {"confirm", "discard", "reconcile"} : P!Ask(command)
    BY <1>2
  <2>2. /\ log' = log /\ DOMAIN desk' = DeskOwnerFields
        /\ desk'.launches = desk.launches /\ desk'.told = desk.told
        /\ desk'.phase = "confirming" /\ desk'.command = command
        /\ desk'.running = desk.running
        /\ command # "reconcile" => desk.phase = "ready"
    BY <1>0, <2>1 DEF P!Ask, P!Desk, DeskOwnerFields
  <2> QED BY <2>1, <2>2, OwnerStep DEF NothingWritten, ConsentInv
<1>3. CASE P!Close
  <2>1. /\ log' = log /\ DOMAIN desk' = DeskOwnerFields
        /\ desk'.launches = desk.launches /\ desk'.told = desk.told /\ desk'.phase = desk.phase
        /\ desk'.command = desk.command /\ desk'.running = desk.running /\ desk'.review = desk.review
    BY <1>0, <1>3 DEF P!Close, P!Desk, DeskOwnerFields
  <2> QED BY <2>1, OwnerStep DEF NothingWritten, ConsentInv, ReviewedRow
<1>4. CASE P!Discard \/ P!TakeConfirm \/ P!ConfirmRefused
  <2>1. /\ log' = log /\ DOMAIN desk' = DeskOwnerFields
        /\ desk'.launches = desk.launches /\ desk'.told = desk.told
        /\ desk'.phase # "authorized"
        /\ desk.phase = "confirming" /\ desk.command \in {"confirm", "confirming", "discard"}
        /\ desk.running /\ (desk'.running = desk.running \/ desk'.running = FALSE)
    <3>1. CASE P!Discard
      BY <1>0, <3>1 DEF P!Discard, P!Taken, P!Desk, DeskOwnerFields
    <3>2. CASE P!TakeConfirm
      BY <1>0, <3>2 DEF P!TakeConfirm, P!Taken, P!Desk, DeskOwnerFields
    <3>3. CASE P!ConfirmRefused
      BY <1>0, <3>3 DEF P!ConfirmRefused, P!Taken, P!Desk, DeskOwnerFields
    <3> QED BY <1>4, <3>1, <3>2, <3>3
  <2> QED BY <2>1, OwnerStep DEF NothingWritten, ConsentInv
<1>5. CASE P!StopRun \/ P!TaskDies
  <2>1. /\ log' = log /\ DOMAIN desk' = DeskOwnerFields
        /\ desk'.launches = desk.launches /\ desk'.told = desk.told
        /\ desk'.phase \in {"uncertain", "closed", "recovery"}
        /\ desk'.running = FALSE
    BY <1>0, <1>5 DEF P!StopRun, P!TaskDies, P!Desk, DeskOwnerFields
  <2> QED BY <2>1, OwnerStep DEF NothingWritten
<1>6. CASE P!Teardown
  <2>1. /\ log' = log /\ DOMAIN desk' = DeskOwnerFields
        /\ desk'.launches = desk.launches /\ desk'.told = desk.told
        /\ desk'.phase = desk.phase \/ desk'.phase = "recovery"
        /\ desk'.command = desk.command /\ desk'.running = desk.running /\ desk'.review = desk.review
    BY <1>0, <1>6 DEF P!Teardown, DeskOwnerFields
  <2> QED BY <2>1, OwnerStep DEF NothingWritten, ConsentInv, ReviewedRow
<1> QED BY <1>1, <1>2, <1>3, <1>4, <1>5, <1>6

(* The transaction: what is reported as authorized is the row written,     *)
(* which is the reviewed one on the reviewed head.                         *)
LEMMA ConfirmOwner ==
  ASSUME ConsentInv, P!ConfirmAuthorization
  PROVE  ConsentInv'
<1>0. IsSeq(log) /\ DOMAIN desk = DeskOwnerFields /\ desk.launches \in Nat
  BY DEF ConsentInv
<1> DEFINE row == [P!Consent(desk.review.at, desk.launches) EXCEPT !.baseline = desk.review.baseline]
<1>1. /\ row.kind = "authorized" /\ row.signed = TRUE /\ row.by = desk.launches
      /\ row.at = desk.review.at /\ row.route = route /\ row.baseline = desk.review.baseline
  BY DEF P!Consent
<1>2. /\ desk.running /\ desk.phase = "confirming" /\ desk.command = "confirming"
      /\ route = desk.review.route
  BY DEF P!ConfirmAuthorization, P!StillObserved
<1>3. desk.told # "not_committed"
  BY <1>2 DEF ConsentInv
<1>4. /\ log' = log \/ log' = Append(log, row)
      /\ DOMAIN desk' = DeskOwnerFields
      /\ desk'.launches = desk.launches /\ desk'.told = desk.told /\ desk'.review = desk.review
      /\ \/ desk'.phase = "uncertain"
         \/ desk'.phase = "authorized" /\ desk'.running = FALSE /\ log' = Append(log, row)
  BY <1>0 DEF P!ConfirmAuthorization, DeskOwnerFields
<1> HIDE DEF row
<1>5. CASE log' = log
  <2>1. desk'.phase = "uncertain" \/ log' = Append(log, row)
    BY <1>4
  <2>2. CASE desk'.phase = "uncertain"
    BY <1>3, <1>4, <1>5, <2>2, OwnerStep DEF NothingWritten
  <2>3. CASE log' = Append(log, row)
    BY <1>0, <1>5, <2>3, AppendFacts
  <2> QED BY <2>1, <2>2, <2>3
<1>6. CASE log' = Append(log, row)
  <2>1. /\ IsSeq(log')
        /\ \A n \in P!Authorities(log) : n \in P!Authorities(log') /\ log'[n] = log[n]
        /\ \A n \in P!Authorities(log') : n \in P!Authorities(log) \/ log'[n] = row
        /\ Len(log) + 1 \in P!Authorities(log') /\ log'[Len(log) + 1] = row
    BY <1>0, <1>1, <1>6, ConsentsStay
  <2>2. \A n \in P!Authorities(log') : log'[n].by \in Nat /\ log'[n].by <= desk.launches
    BY <1>0, <1>1, <2>1 DEF ConsentInv
  <2>3. \E n \in P!Authorities(log') : ReviewedRow(n)'
    BY <1>1, <1>2, <1>4, <2>1 DEF ReviewedRow
  <2>4. ~NothingWritten'
    BY <1>3, <1>4 DEF NothingWritten
  <2> QED BY <1>0, <1>3, <1>4, <2>1, <2>2, <2>3, <2>4 DEF ConsentInv
<1> QED BY <1>4, <1>5, <1>6

(* A reconciled outcome is read from the chain. *)
LEMMA ReconcileOwner ==
  ASSUME ConsentInv, P!Reconcile
  PROVE  ConsentInv'
<1>0. P!Outcome(desk) \in {"committed", "absent", "unknown"}
  BY DEF P!Outcome
<1>4. DOMAIN desk = DeskOwnerFields /\ desk.running /\ log' = log
  BY <1>0 DEF ConsentInv, P!Reconcile, P!Taken, P!Desk
<1>1. CASE P!Outcome(desk) = "committed"
  <2>1. /\ DOMAIN desk' = DeskOwnerFields
        /\ desk'.launches = desk.launches /\ desk'.told = desk.told /\ desk'.review = desk.review
        /\ desk'.phase = "authorized" /\ desk'.running = FALSE
    BY <1>4, <1>1 DEF P!Reconcile, P!Desk, DeskOwnerFields
  <2>2. P!Authorities(log) # {} /\ ReviewedRow(P!Authority(log))
    BY <1>1 DEF P!Outcome, ReviewedRow
  <2>3. P!Authority(log) \in P!Authorities(log)
    BY <2>2 DEF P!Authority
  <2>4. desk.told # "not_committed"
    BY <1>4 DEF ConsentInv
  <2>5. \E n \in P!Authorities(log) : ReviewedRow(n)'
    BY <1>4, <2>1, <2>2, <2>3 DEF ReviewedRow
  <2> QED BY <1>4, <2>1, <2>4, <2>5, OwnerStep DEF NothingWritten
<1>2. CASE P!Outcome(desk) = "absent"
  <2>1. /\ DOMAIN desk' = DeskOwnerFields
        /\ desk'.launches = desk.launches
        /\ desk'.phase = "refused" /\ desk'.running = FALSE
    BY <1>4, <1>2 DEF P!Reconcile, P!Desk, DeskOwnerFields
  <2>2. P!Authorities(log) = {}
    BY <1>2 DEF P!Outcome
  <2> QED BY <1>4, <2>1, <2>2, OwnerStep
<1>3. CASE P!Outcome(desk) = "unknown"
  <2>1. /\ DOMAIN desk' = DeskOwnerFields
        /\ desk'.launches = desk.launches /\ desk'.told = desk.told
        /\ desk'.phase = "uncertain"
    BY <1>4, <1>3 DEF P!Reconcile, P!Desk, DeskOwnerFields
  <2>2. desk.told # "not_committed"
    BY <1>4 DEF ConsentInv
  <2> QED BY <1>4, <2>1, <2>2, OwnerStep DEF NothingWritten
<1> QED BY <1>1, <1>2, <1>3, <1>0

(* No consent, or a legacy one that no launch wrote. *)
LEMMA ConsentInit == P!Init => ConsentInv
<1> SUFFICES ASSUME P!Init PROVE ConsentInv
  OBVIOUS
<1> DEFINE row == [kind |-> "authorized", signed |-> FALSE, at |-> 1, baseline |-> 0, route |-> 0, by |-> 0]
<1>1. log = <<>> \/ log = <<row>>
  BY DEF P!Init
<1>2. row.by = 0
  OBVIOUS
<1>3. /\ DOMAIN desk = DeskOwnerFields /\ desk.launches = 0 /\ desk.phase = "idle" /\ desk.told = "none"
  BY DEF P!Init, DeskOwnerFields
<1> HIDE DEF row
<1>4. IsSeq(log)
  <2>1. <<>> \in Seq({row}) /\ <<row>> \in Seq({row})
    OBVIOUS
  <2> QED BY <1>1, <2>1 DEF IsSeq
<1>5. \A n \in P!Authorities(log) : log[n].by = 0
  BY <1>1, <1>2 DEF P!Authorities, P!Rows
<1>6. ~NothingWritten
  BY <1>3 DEF NothingWritten
<1> QED BY <1>3, <1>4, <1>5, <1>6 DEF ConsentInv

(* Every step of the chain and of the owner keeps the invariant. *)
LEMMA ConsentNext == ConsentInv /\ P!Next => ConsentInv'
BY ChainActions, OwnerActions, LaunchOwner, ConfirmOwner, ReconcileOwner DEF P!Next

(* What the operator is told of the pilot's consent is so, whatever fails  *)
(* or stops between the review and the answer: authorized means that the   *)
(* reviewed row, on the reviewed head, is in the chain; refused means that *)
(* this owner wrote none (pilot_consent.rs, confirm_authorization,         *)
(* authorization_outcome).                                                 *)
THEOREM ConsentIsToldTruly == OrdersSpec => []ConsentIsTold
<1>1. OrdersInit => ConsentInv
  BY ConsentInit DEF OrdersInit
<1>2. ConsentInv /\ UNCHANGED pilotVars => ConsentInv'
  <2> SUFFICES ASSUME ConsentInv, UNCHANGED pilotVars PROVE ConsentInv'
    OBVIOUS
  <2>1. log' = log /\ desk' = desk
    BY DEF pilotVars
  <2> QED BY <2>1, ChainStep
<1>3. ConsentInv /\ [OrdersNext]_<<focus, vars, pilotVars, approvalVars>> => ConsentInv'
  BY <1>2, ConsentNext DEF OrdersNext
<1>4. ConsentInv => ConsentIsTold
  BY DEF ConsentInv, NothingWritten, ReviewedRow, ConsentIsTold, P!ConsentIsTold
<1> QED BY <1>1, <1>3, <1>4, PTL DEF OrdersSpec

-----------------------------------------------------------------------------
(* The pilot's durable stop *)

StopRows == {"halted", "fill"}
GateRows == {"activated", "released"}

(* A stop names its cause, and only a pilot's ledger has one. *)
StopInv ==
  /\ IsSeq(log)
  /\ \A n \in P!Rows(log, StopRows) : log[n].stop \in {"none", "unavailable", "exhausted"}
  /\ P!Stops(log) # {} => P!Authorities(log) # {}

(* A row that may follow: a stop only in the ledger of a pilot *)
MayFollow(row) ==
  row.kind \in StopRows =>
    /\ row.stop \in {"none", "unavailable", "exhausted"}
    /\ row.stop # "none" => P!Authorities(log) # {}

(* Stops are never taken back. *)
LEMMA StopsStay ==
  ASSUME StopInv, NEW row, log' = Append(log, row), MayFollow(row)
  PROVE  /\ StopInv'
         /\ P!Stops(log) \subseteq P!Stops(log')
         /\ row.kind \notin GateRows => P!Rows(log', GateRows) = P!Rows(log, GateRows)
<1>0. IsSeq(log)
  BY DEF StopInv
<1>1. /\ IsSeq(log') /\ Len(log') = Len(log) + 1 /\ Len(log) \in Nat
      /\ log'[Len(log) + 1] = row
      /\ \A i \in 1..Len(log) : log'[i] = log[i]
  BY <1>0, AppendFacts
<1>2. DOMAIN log = 1..Len(log) /\ DOMAIN log' = 1..(Len(log) + 1)
  BY <1>0, <1>1, SeqDomain
<1>3. \A kinds : P!Rows(log', kinds) =
                   P!Rows(log, kinds) \cup (IF row.kind \in kinds THEN {Len(log) + 1} ELSE {})
  BY <1>1, <1>2 DEF P!Rows
<1>4. \A kinds : \A n \in P!Rows(log, kinds) : log'[n] = log[n]
  BY <1>1, <1>2 DEF P!Rows
<1>5. P!Stops(log) \subseteq P!Stops(log')
  BY <1>3, <1>4 DEF P!Stops
<1>6. P!Authorities(log) # {} => P!Authorities(log') # {}
  BY <1>3 DEF P!Authorities
<1>7. \A n \in P!Rows(log', StopRows) : log'[n].stop \in {"none", "unavailable", "exhausted"}
  <2> TAKE n \in P!Rows(log', StopRows)
  <2>1. CASE n \in P!Rows(log, StopRows)
    BY <1>4, <2>1 DEF StopInv
  <2>2. CASE n = Len(log) + 1 /\ row.kind \in StopRows
    BY <1>1, <2>2 DEF MayFollow
  <2> QED BY <1>3, <2>1, <2>2
<1>8. P!Stops(log') # {} => P!Authorities(log') # {}
  <2> SUFFICES ASSUME NEW n \in P!Stops(log') PROVE P!Authorities(log') # {}
    OBVIOUS
  <2>1. n \in P!Rows(log', StopRows) /\ log'[n].stop # "none"
    BY DEF P!Stops, StopRows
  <2>2. CASE n \in P!Rows(log, StopRows)
    <3>1. n \in P!Stops(log)
      BY <1>4, <2>1, <2>2 DEF P!Stops, StopRows
    <3> QED BY <1>6, <3>1 DEF StopInv
  <2>3. CASE n = Len(log) + 1 /\ row.kind \in StopRows
    BY <1>1, <1>6, <2>1, <2>3 DEF MayFollow
  <2> QED BY <1>3, <2>1, <2>2, <2>3
<1> QED BY <1>1, <1>3, <1>5, <1>7, <1>8 DEF StopInv

(* A stopped pilot is halted, and not only until its fills are explained. *)
LEMMA StoppedIsHalted ==
  ASSUME StopInv, P!Stops(log) # {}
  PROVE  P!Halt(log) \notin {"none", "awaiting"} /\ P!Authorities(log) # {}
<1> DEFINE n == CHOOSE k \in P!Stops(log) : TRUE
<1>1. n \in P!Stops(log)
  OBVIOUS
<1>2. P!Halt(log) = log[n].stop
  BY DEF P!Halt
<1> HIDE DEF n
<1>3. log[n].stop \in {"unavailable", "exhausted"}
  BY <1>1 DEF P!Stops, StopInv, StopRows
<1> QED BY <1>2, <1>3 DEF StopInv

(* What a step of the pilot may not do once it is stopped. *)
StopStep == StopInv' /\ P!StopHolds

(* A step that signs nothing and writes no row, or one of another kind. *)
LEMMA QuietStep ==
  ASSUME StopInv, pilotSigned' = pilotSigned, NEW row,
         log' = log \/ (log' = Append(log, row) /\ MayFollow(row) /\ row.kind \notin GateRows)
  PROVE  StopStep
<1>1. CASE log' = log
  BY <1>1 DEF StopStep, StopInv, P!StopHolds, P!Stops, P!Authorities, P!Rows
<1>2. CASE log' = Append(log, row) /\ MayFollow(row) /\ row.kind \notin GateRows
  BY <1>2, StopsStay DEF StopStep, P!StopHolds, GateRows
<1> QED BY <1>1, <1>2

(* The stop a fill brings is one of the pilot's causes, for its ledger.    *)
LEMMA LatchedStop ==
  ASSUME NEW L, NEW f
  PROVE  /\ P!Latched(L, f) \in {"none", "unavailable", "exhausted"}
         /\ P!Latched(L, f) # "none" => P!Authorities(L) # {}
BY DEF P!Latched

(* A delivered fill, new or repeated *)
LEMMA FillStep ==
  ASSUME StopInv, NEW t, NEW named, NEW fair, P!RecordFill(t, named, fair)
  PROVE  StopStep
<1> DEFINE f == P!FillRow(t, named, fair)
           seen == P!Stored(log, t)
           tentative == IF seen = {} THEN Append(log, f) ELSE log
           stop == P!Latched(tentative, f)
           filled == [f EXCEPT !.stop = stop, !.trigger = IF stop = "none" THEN 0 ELSE Len(log) + 1]
           halted == [kind |-> "halted", stop |-> stop, trigger |-> CHOOSE n \in seen : TRUE]
<1>1. pilotSigned' = pilotSigned
  BY DEF P!RecordFill
<1>2. log' = log \/ log' = Append(log, filled) \/ log' = Append(log, halted)
  BY DEF P!RecordFill, P!Written
<1>3. filled.kind = "fill" /\ filled.stop = stop /\ halted.kind = "halted" /\ halted.stop = stop /\ f.kind = "fill"
  BY DEF P!FillRow
<1>4. stop \in {"none", "unavailable", "exhausted"} /\ (stop # "none" => P!Authorities(tentative) # {})
  BY LatchedStop
<1> HIDE DEF filled, halted, stop, f
<1>5. P!Authorities(Append(log, f)) = P!Authorities(log)
  <2>0. IsSeq(log)
    BY DEF StopInv
  <2>1. /\ IsSeq(Append(log, f)) /\ Len(Append(log, f)) = Len(log) + 1 /\ Len(log) \in Nat
        /\ Append(log, f)[Len(log) + 1] = f
        /\ \A i \in 1..Len(log) : Append(log, f)[i] = log[i]
    BY <2>0, AppendFacts
  <2>2. DOMAIN log = 1..Len(log) /\ DOMAIN Append(log, f) = 1..(Len(log) + 1)
    BY <2>0, <2>1, SeqDomain
  <2> QED BY <1>3, <2>1, <2>2 DEF P!Authorities, P!Rows
<1>6. stop # "none" => P!Authorities(log) # {}
  BY <1>4, <1>5
<1>7. MayFollow(filled) /\ MayFollow(halted) /\ filled.kind \notin GateRows /\ halted.kind \notin GateRows
  BY <1>3, <1>4, <1>6 DEF MayFollow, GateRows
<1> QED BY <1>1, <1>2, <1>7, QuietStep

(* Every step of the pilot respects its durable stop. *)
LEMMA StopNext == StopInv /\ P!Next => StopStep
<1> SUFFICES ASSUME StopInv, P!Next PROVE StopStep
  OBVIOUS
<1>1. CASE P!Authorize
  <2>1. pilotSigned' = pilotSigned /\ (log' = log \/ log' = Append(log, P!Consent(P!Now, 0)))
    BY <1>1 DEF P!Authorize, P!Written
  <2>2. P!Consent(P!Now, 0).kind = "authorized"
    BY DEF P!Consent
  <2> QED BY <2>1, <2>2, QuietStep DEF MayFollow, StopRows, GateRows
<1>2. CASE P!Adopt
  <2>1. /\ pilotSigned' = pilotSigned
        /\ log' = log \/ log' = Append(log, [kind |-> "adopted", head |-> legacy.baseline, route |-> route])
    BY <1>2 DEF P!Adopt, P!Written
  <2> QED BY <2>1, QuietStep DEF MayFollow, StopRows, GateRows
<1>3. CASE P!Regrant
  <2>1. pilotSigned' = pilotSigned /\ log' = Append(log, [kind |-> "granted"])
    BY <1>3 DEF P!Regrant, P!Written
  <2> QED BY <2>1, QuietStep DEF MayFollow, StopRows, GateRows
<1>4. CASE \E o \in Orders : P!Begin(o)
  <2>1. PICK o \in Orders : P!Begin(o)
    BY <1>4
  <2>2. pilotSigned' = pilotSigned /\ log' = Append(log, [kind |-> "started", order |-> o, route |-> route])
    BY <2>1 DEF P!Begin, P!Written
  <2> QED BY <2>2, QuietStep DEF MayFollow, StopRows, GateRows
<1>5. CASE \E o \in Orders : P!Resolve(o)
  <2>1. PICK o \in Orders : P!Resolve(o)
    BY <1>5
  <2>2. PICK how \in {"not_sent", "rejected", "observed"} :
          log' = Append(log, [kind |-> "resolved", order |-> o, how |-> how])
    BY <2>1 DEF P!Resolve, P!Written
  <2>3. pilotSigned' = pilotSigned
    BY <2>1 DEF P!Resolve
  <2> QED BY <2>2, <2>3, QuietStep DEF MayFollow, StopRows, GateRows
<1>6. CASE \E o \in Orders : P!Sign(o)
  <2>1. PICK o \in Orders : P!Sign(o)
    BY <1>6
  <2>2. log' = log
    BY <2>1 DEF P!Sign
  <2>3. P!Authorities(log) # {} => P!Halt(log) = "none"
    BY <2>1 DEF P!Sign, P!BeforeSign, P!Permitted
  <2>4. P!Stops(log) = {}
    BY <2>3, StoppedIsHalted
  <2> QED BY <2>2, <2>4 DEF StopStep, StopInv, P!StopHolds, P!Stops, P!Authorities, P!Rows
<1>7. CASE P!Deliver \/ P!DeliverMalformed
  BY <1>7, FillStep DEF P!Deliver, P!DeliverMalformed
<1>8. CASE \E kind \in {"policy", "activated", "released"} : P!OtherRow(kind)
  <2>1. PICK kind \in {"policy", "activated", "released"} : P!OtherRow(kind)
    BY <1>8
  <2>2. pilotSigned' = pilotSigned /\ log' = Append(log, [kind |-> kind])
    BY <2>1 DEF P!OtherRow, P!Written
  <2>3. CASE kind = "policy"
    BY <2>2, <2>3, QuietStep DEF MayFollow, StopRows, GateRows
  <2>4. CASE kind \in GateRows
    <3>1. P!Halt(log) \in {"none", "awaiting"}
      BY <2>1, <2>4 DEF P!OtherRow, P!Activatable, P!Releasable, P!Permitted, GateRows
    <3>2. P!Stops(log) = {}
      BY <3>1, StoppedIsHalted
    <3>3. MayFollow([kind |-> kind])
      BY <2>4 DEF MayFollow, StopRows, GateRows
    <3> QED BY <2>2, <3>2, <3>3, StopsStay DEF StopStep, P!StopHolds
  <2> QED BY <2>3, <2>4 DEF GateRows
<1>9. CASE P!ConfirmAuthorization
  <2> DEFINE row == [P!Consent(desk.review.at, desk.launches) EXCEPT !.baseline = desk.review.baseline]
  <2>1. row.kind = "authorized"
    BY DEF P!Consent
  <2>2. pilotSigned' = pilotSigned /\ (log' = log \/ log' = Append(log, row))
    BY <1>9 DEF P!ConfirmAuthorization
  <2> HIDE DEF row
  <2> QED BY <2>1, <2>2, QuietStep DEF MayFollow, StopRows, GateRows
<1>10. CASE \/ P!ReviewLegacy \/ P!Trade
            \/ \E o \in Orders : P!Die(o)
            \/ P!Launch \/ P!Refuse \/ P!ShowExisting \/ P!Observe \/ P!ShowReview
            \/ \E command \in {"confirm", "discard", "reconcile"} : P!Ask(command)
            \/ P!Close \/ P!Discard \/ P!TakeConfirm \/ P!ConfirmRefused
            \/ P!Reconcile \/ P!StopRun \/ P!TaskDies \/ P!Teardown
  <2>1. P!Outcome(desk) \in {"committed", "absent", "unknown"}
    BY DEF P!Outcome
  <2>2. P!Reconcile => pilotSigned' = pilotSigned /\ log' = log
    BY <2>1 DEF P!Reconcile, P!Desk
  <2>3. pilotSigned' = pilotSigned /\ log' = log
    BY <1>10, <2>2 DEF P!ReviewLegacy, P!Trade, P!Die, P!Launch, P!Refuse, P!ShowExisting, P!Observe,
       P!ShowReview, P!Ask, P!Close, P!Discard, P!TakeConfirm, P!ConfirmRefused, P!StopRun, P!TaskDies,
       P!Teardown, P!Desk
  <2> QED BY <2>3, QuietStep
<1> QED BY <1>1, <1>2, <1>3, <1>4, <1>5, <1>6, <1>7, <1>8, <1>9, <1>10 DEF P!Next

LEMMA StopInit == P!Init => StopInv
<1> SUFFICES ASSUME P!Init PROVE StopInv
  OBVIOUS
<1> DEFINE row == [kind |-> "authorized", signed |-> FALSE, at |-> 1, baseline |-> 0, route |-> 0, by |-> 0]
<1>1. log = <<>> \/ log = <<row>>
  BY DEF P!Init
<1>2. row.kind = "authorized"
  OBVIOUS
<1> HIDE DEF row
<1>3. IsSeq(log)
  <2>1. <<>> \in Seq({row}) /\ <<row>> \in Seq({row})
    OBVIOUS
  <2> QED BY <1>1, <2>1 DEF IsSeq
<1>4. P!Rows(log, StopRows) = {}
  BY <1>1, <1>2 DEF P!Rows, StopRows
<1> QED BY <1>3, <1>4 DEF StopInv, P!Stops, StopRows

(* Under a durable stop nothing is signed, activated or released, and the  *)
(* stop stays (ledger/pilot.rs: check_authenticated_before_sign,           *)
(* activation_state_in, release_state_in, latch_in_tx): the action part of *)
(* PilotSound, for every budget, order, trade and fault.                   *)
THEOREM DurableStopHolds == OrdersSpec => [][focus = "pilot" => P!StopHolds]_pilotVars
<1>1. OrdersInit => StopInv
  BY StopInit DEF OrdersInit
<1>2. StopInv /\ UNCHANGED pilotVars => StopInv'
  <2> SUFFICES ASSUME StopInv, UNCHANGED pilotVars PROVE StopInv'
    OBVIOUS
  <2>1. log' = log
    BY DEF pilotVars
  <2> QED BY <2>1 DEF StopInv
<1>3. StopInv /\ [OrdersNext]_<<focus, vars, pilotVars, approvalVars>> => StopInv'
  BY <1>2, StopNext DEF OrdersNext, StopStep
<1>4. StopInv /\ [OrdersNext]_<<focus, vars, pilotVars, approvalVars>>
        => [focus = "pilot" => P!StopHolds]_pilotVars
  BY StopNext DEF OrdersNext, StopStep
<1> QED BY <1>1, <1>3, <1>4, PTL DEF OrdersSpec

-----------------------------------------------------------------------------
(* The pilot's budget                                                      *)

FillRows == P!Rows(log, {"fill"})

TradeRow == [order : Orders \cup {0}, sz : {1}, px : Prices, net : Nets]

(* The venue trades what was signed, up to its size. *)
MarketHolds ==
  /\ traded \in Seq(TradeRow) /\ pilotSigned \subseteq Orders
  /\ \A i \in DOMAIN traded : traded[i].order # 0 => traded[i].order \in pilotSigned
  /\ \A o \in Orders : P!TradedOf(o) <= Size[o]

(* A fill is a trade, recorded once and behind the start of its order. *)
FillsHold ==
  \A n \in FillRows :
    /\ log[n].tid \in DOMAIN traded
    /\ log[n].order = traded[log[n].tid].order /\ log[n].sz = traded[log[n].tid].sz
    /\ log[n].px = traded[log[n].tid].px /\ log[n].net = traded[log[n].tid].net
    /\ \A k \in P!Starts(log, log[n].order) : k < n
    /\ \A m \in FillRows : log[m].tid = log[n].tid => m = n

(* What is signed was started; what is released has not traded and will not. *)
OrdersHold ==
  /\ \A o \in pilotSigned : P!Starts(log, o) # {}
  /\ \A o \in Orders : P!Released(log, o) =>
       /\ o \notin pilotSigned \ dead
       /\ \A i \in DOMAIN traded : traded[i].order # o

(* The rows a replay asks for, but for where a stop's fill is. *)
Consistent(L) ==
  /\ \A m, n \in P!Authorities(L) : m = n
  /\ \A n \in P!Authorities(L) : L[n].baseline = n - 1
  /\ P!Authorities(L) = {} => P!Adoptions(L) = {}
  /\ \A m, n \in P!Adoptions(L) : m = n
  /\ \A n \in P!Adoptions(L) : P!AdoptionLinked(L, n)

LegacyHolds == legacy # P!NoReview => P!Authorities(log) # {} /\ ~log[P!Authority(log)].signed

StopsHold ==
  /\ \A m, n \in P!Stops(log) : m = n
  /\ \A n \in P!Stops(log) :
       /\ P!Authorities(log) # {} /\ log[n].trigger \in FillRows
       /\ IF log[n].kind = "fill" THEN log[n].trigger = n /\ P!Authority(log) < n ELSE log[n].trigger < n

(* Without a stop the accounting stands, and no limit is crossed. *)
OpenHolds ==
  P!Authorities(log) # {} /\ P!Stops(log) = {} =>
    \A n \in P!Fills(log) :
      log[n].fair /\ log[n].tid >= log[P!Authority(log)].at /\ ~P!Crosses(log, n)

BudgetInv ==
  /\ StopInv /\ MarketHolds /\ FillsHold /\ OrdersHold
  /\ Consistent(log) /\ LegacyHolds /\ StopsHold /\ OpenHolds /\ P!WithinBudget

-----------------------------------------------------------------------------
(* The sums of the accounting are totals *)

FilledRows(L, o) == {n \in P!Fills(L) : P!Linked(L, n) /\ L[n].order = o}
Unreleased(L) == {o \in P!Allocated(L) : ~P!Released(L, o)}
TradesOf(T, o) == {i \in DOMAIN T : T[i].order = o}

Sizes(L) == [n \in DOMAIN L |-> L[n].sz]
Costs(L) == [n \in DOMAIN L |-> L[n].px * L[n].sz]
Gains(L) == [n \in DOMAIN L |-> L[n].net]
Open(L) == [o \in Orders |-> (Size[o] - P!FilledBy(L, o)) * Value[o]]
AtMost(T, o) == [i \in DOMAIN T |-> T[i].sz * (IF T[i].px < Value[o] THEN T[i].px ELSE Value[o])]
Exposures == [o \in Orders |-> P!Exposed(o)]

LEMMA FilledIs ==
  ASSUME NEW L, NEW o
  PROVE  P!FilledBy(L, o) = Total(Sizes(L), FilledRows(L, o))
<1> DEFINE D == FilledRows(L, o)
           Term(x) == L[x].sz
           Adds(it) == it = [T \in SUBSET D |-> IF T = {} THEN 0 ELSE Term(Pick(T)) + it[T \ {Pick(T)}]]
<1>1. P!FilledBy(L, o) = (CHOOSE it : Adds(it))[D]
  BY DEF FilledRows, P!FilledBy, P!MapThenSumSet, P!MapThenFoldSet, Pick
<1>2. ASSUME NEW it PROVE Adds(it) <=> Unrolls(it, Sizes(L), D)
  <2>1. \A T \in SUBSET D : T # {} => Sizes(L)[Pick(T)] = Term(Pick(T))
    <3> HIDE DEF D
    <3>1. \A T \in SUBSET D : T # {} => Pick(T) \in D
      BY DEF Pick
    <3> QED BY <3>1 DEF Sizes, D, FilledRows, P!Fills, P!Rows
  <2> HIDE DEF D, Term
  <2> QED BY <2>1 DEF Unrolls
<1> HIDE DEF Adds, D
<1> QED BY <1>1, <1>2 DEF Total, Sums, D

LEMMA ExecutedIs ==
  ASSUME NEW L, NEW S \in SUBSET DOMAIN L
  PROVE  P!Executed(L, S) = Total(Costs(L), S)
<1> DEFINE D == S
           Term(x) == L[x].px * L[x].sz
           Adds(it) == it = [T \in SUBSET D |-> IF T = {} THEN 0 ELSE Term(Pick(T)) + it[T \ {Pick(T)}]]
<1>1. P!Executed(L, S) = (CHOOSE it : Adds(it))[D]
  BY DEF P!Executed, P!MapThenSumSet, P!MapThenFoldSet, Pick
<1>2. ASSUME NEW it PROVE Adds(it) <=> Unrolls(it, Costs(L), D)
  <2>1. \A T \in SUBSET D : T # {} => Costs(L)[Pick(T)] = Term(Pick(T))
    <3> HIDE DEF D
    <3>1. \A T \in SUBSET D : T # {} => Pick(T) \in D
      BY DEF Pick
    <3> QED BY <3>1 DEF Costs, D
  <2> HIDE DEF D, Term
  <2> QED BY <2>1 DEF Unrolls
<1> HIDE DEF Adds, D
<1> QED BY <1>1, <1>2 DEF Total, Sums, D

LEMMA NetIs ==
  ASSUME NEW L, NEW S \in SUBSET DOMAIN L
  PROVE  P!Net(L, S) = Total(Gains(L), S)
<1> DEFINE D == S
           Term(x) == L[x].net
           Adds(it) == it = [T \in SUBSET D |-> IF T = {} THEN 0 ELSE Term(Pick(T)) + it[T \ {Pick(T)}]]
<1>1. P!Net(L, S) = (CHOOSE it : Adds(it))[D]
  BY DEF P!Net, P!MapThenSumSet, P!MapThenFoldSet, Pick
<1>2. ASSUME NEW it PROVE Adds(it) <=> Unrolls(it, Gains(L), D)
  <2>1. \A T \in SUBSET D : T # {} => Gains(L)[Pick(T)] = Term(Pick(T))
    <3> HIDE DEF D
    <3>1. \A T \in SUBSET D : T # {} => Pick(T) \in D
      BY DEF Pick
    <3> QED BY <3>1 DEF Gains, D
  <2> HIDE DEF D, Term
  <2> QED BY <2>1 DEF Unrolls
<1> HIDE DEF Adds, D
<1> QED BY <1>1, <1>2 DEF Total, Sums, D

LEMMA ReservedIs ==
  ASSUME NEW L
  PROVE  P!Reserved(L) = Total(Open(L), Unreleased(L))
<1> DEFINE D == Unreleased(L)
           Term(x) == (Size[x] - P!FilledBy(L, x)) * Value[x]
           Adds(it) == it = [T \in SUBSET D |-> IF T = {} THEN 0 ELSE Term(Pick(T)) + it[T \ {Pick(T)}]]
<1>1. P!Reserved(L) = (CHOOSE it : Adds(it))[D]
  BY DEF Unreleased, P!Reserved, P!MapThenSumSet, P!MapThenFoldSet, Pick
<1>2. ASSUME NEW it PROVE Adds(it) <=> Unrolls(it, Open(L), D)
  <2>1. \A T \in SUBSET D : T # {} => Open(L)[Pick(T)] = Term(Pick(T))
    <3> HIDE DEF D
    <3>1. \A T \in SUBSET D : T # {} => Pick(T) \in D
      BY DEF Pick
    <3> QED BY <3>1 DEF Open, D, Unreleased, P!Allocated
  <2> HIDE DEF D, Term
  <2> QED BY <2>1 DEF Unrolls
<1> HIDE DEF Adds, D
<1> QED BY <1>1, <1>2 DEF Total, Sums, D

LEMMA TradedIs ==
  ASSUME NEW o
  PROVE  P!TradedOf(o) = Total(Sizes(traded), TradesOf(traded, o))
<1> DEFINE D == TradesOf(traded, o)
           Term(x) == traded[x].sz
           Adds(it) == it = [T \in SUBSET D |-> IF T = {} THEN 0 ELSE Term(Pick(T)) + it[T \ {Pick(T)}]]
<1>1. P!TradedOf(o) = (CHOOSE it : Adds(it))[D]
  BY DEF TradesOf, P!TradedOf, P!MapThenSumSet, P!MapThenFoldSet, Pick
<1>2. ASSUME NEW it PROVE Adds(it) <=> Unrolls(it, Sizes(traded), D)
  <2>1. \A T \in SUBSET D : T # {} => Sizes(traded)[Pick(T)] = Term(Pick(T))
    <3> HIDE DEF D
    <3>1. \A T \in SUBSET D : T # {} => Pick(T) \in D
      BY DEF Pick
    <3> QED BY <3>1 DEF Sizes, D, TradesOf
  <2> HIDE DEF D, Term
  <2> QED BY <2>1 DEF Unrolls
<1> HIDE DEF Adds, D
<1> QED BY <1>1, <1>2 DEF Total, Sums, D

LEMMA TradedValueIs ==
  ASSUME NEW o
  PROVE  P!TradedValue(o) = Total(AtMost(traded, o), TradesOf(traded, o))
<1> DEFINE D == TradesOf(traded, o)
           Term(x) == traded[x].sz * (IF traded[x].px < Value[o] THEN traded[x].px ELSE Value[o])
           Adds(it) == it = [T \in SUBSET D |-> IF T = {} THEN 0 ELSE Term(Pick(T)) + it[T \ {Pick(T)}]]
<1>1. P!TradedValue(o) = (CHOOSE it : Adds(it))[D]
  BY DEF TradesOf, P!TradedValue, P!MapThenSumSet, P!MapThenFoldSet, Pick
<1>2. ASSUME NEW it PROVE Adds(it) <=> Unrolls(it, AtMost(traded, o), D)
  <2>1. \A T \in SUBSET D : T # {} => AtMost(traded, o)[Pick(T)] = Term(Pick(T))
    <3> HIDE DEF D
    <3>1. \A T \in SUBSET D : T # {} => Pick(T) \in D
      BY DEF Pick
    <3> QED BY <3>1 DEF AtMost, D, TradesOf
  <2> HIDE DEF D, Term
  <2> QED BY <2>1 DEF Unrolls
<1> HIDE DEF Adds, D
<1> QED BY <1>1, <1>2 DEF Total, Sums, D

ExposureSum == P!WithinBudget <=> Total(Exposures, P!PilotOrders) <= ExecutedLimit

LEMMA ExposureSumIs == ExposureSum
<1> DEFINE D == P!PilotOrders
           Adds(it) == it = [T \in SUBSET D |-> IF T = {} THEN 0 ELSE P!Exposed(Pick(T)) + it[T \ {Pick(T)}]]
<1>1. P!WithinBudget <=> (CHOOSE it : Adds(it))[D] <= ExecutedLimit
  BY DEF P!WithinBudget, P!MapThenSumSet, P!MapThenFoldSet, Pick
<1>2. ASSUME NEW it PROVE Adds(it) <=> Unrolls(it, Exposures, D)
  <2>1. \A T \in SUBSET D : T # {} => Exposures[Pick(T)] = P!Exposed(Pick(T))
    <3>1. D \subseteq Orders
      BY DEF P!PilotOrders, P!Allocated
    <3> HIDE DEF D
    <3>2. \A T \in SUBSET D : T # {} => Pick(T) \in Orders
      BY <3>1 DEF Pick
    <3> QED BY <3>2 DEF Exposures
  <2> HIDE DEF D
  <2> QED BY <2>1 DEF Unrolls
<1> HIDE DEF Adds, D
<1> QED BY <1>1, <1>2 DEF Total, Sums, D, ExposureSum

TradesSummed ==
  \A o : /\ P!TradedOf(o) = Total(Sizes(traded), TradesOf(traded, o))
         /\ P!TradedValue(o) = Total(AtMost(traded, o), TradesOf(traded, o))

LEMMA TradesSummedIs == TradesSummed
BY TradedIs, TradedValueIs DEF TradesSummed

LEMMA SummedNext == ExposureSum' /\ TradesSummed'
BY ExposureSumIs, TradesSummedIs, PTL

-----------------------------------------------------------------------------
(* One more row *)

(* M is L and a row behind it. *)
Follows(L, row, M) == IsSeq(L) /\ M = Append(L, row)

LEMMA Appended ==
  ASSUME NEW L, NEW row, NEW M, Follows(L, row, M)
  PROVE  /\ IsSeq(L) /\ IsSeq(M) /\ Len(L) \in Nat /\ Len(M) = Len(L) + 1
         /\ DOMAIN L = 1..Len(L) /\ DOMAIN M = 1..(Len(L) + 1)
         /\ M[Len(L) + 1] = row /\ \A n \in DOMAIN L : M[n] = L[n]
         /\ \A kinds : P!Rows(M, kinds) =
                         P!Rows(L, kinds) \cup (IF row.kind \in kinds THEN {Len(L) + 1} ELSE {})
<1>1. /\ IsSeq(M) /\ Len(M) = Len(L) + 1 /\ Len(L) \in Nat
      /\ M[Len(L) + 1] = row /\ \A i \in 1..Len(L) : M[i] = L[i]
  BY AppendFacts DEF Follows
<1>2. DOMAIN L = 1..Len(L) /\ DOMAIN M = 1..(Len(L) + 1)
  BY <1>1, SeqDomain DEF Follows
<1>3. \A kinds : P!Rows(M, kinds) = P!Rows(L, kinds) \cup (IF row.kind \in kinds THEN {Len(L) + 1} ELSE {})
  BY <1>1, <1>2 DEF P!Rows
<1> QED BY <1>1, <1>2, <1>3 DEF Follows

LEMMA RowsStay ==
  ASSUME NEW L, NEW row, NEW M, Follows(L, row, M), NEW kinds
  PROVE  /\ row.kind \notin kinds => P!Rows(M, kinds) = P!Rows(L, kinds)
         /\ row.kind \in kinds => P!Rows(M, kinds) = P!Rows(L, kinds) \cup {Len(L) + 1}
<1>1. P!Rows(M, kinds) = P!Rows(L, kinds) \cup (IF row.kind \in kinds THEN {Len(L) + 1} ELSE {})
  BY Appended
<1> QED BY <1>1

LEMMA RowsAreRows ==
  \A L, kinds : P!Rows(L, kinds) \subseteq DOMAIN L /\ \A n \in P!Rows(L, kinds) : L[n].kind \in kinds
BY DEF P!Rows

LEMMA LogFinite ==
  ASSUME NEW L, IsSeq(L)
  PROVE  IsFiniteSet(DOMAIN L) /\ \A S \in SUBSET DOMAIN L : IsFiniteSet(S)
<1>1. DOMAIN L = 1..Len(L) /\ Len(L) \in Nat
  BY SeqDomain
<1>2. IsFiniteSet(1..Len(L))
  BY <1>1, FS_Interval
<1> QED BY <1>1, <1>2, FS_Subset

(* A row that is no consent leaves the consents as they are, *)
LEMMA AuthorityStays ==
  ASSUME NEW L, NEW row, NEW M, Follows(L, row, M), row.kind # "authorized"
  PROVE  /\ P!Authorities(M) = P!Authorities(L) /\ P!Authority(M) = P!Authority(L)
         /\ P!Authorities(L) # {} => /\ P!Authority(L) \in P!Authorities(L) /\ P!Authority(L) \in DOMAIN L
                                     /\ P!Authority(L) \in 1..Len(L)
                                     /\ M[P!Authority(L)] = L[P!Authority(L)]
<1>1. P!Authorities(M) = P!Authorities(L)
  <2>1. row.kind \notin {"authorized"}
    OBVIOUS
  <2> QED BY <2>1, RowsStay DEF P!Authorities
<1>2. P!Authorities(L) # {} => P!Authority(L) \in P!Authorities(L)
  BY DEF P!Authority
<1>3. P!Authorities(L) \subseteq DOMAIN L
  BY RowsAreRows DEF P!Authorities
<1> QED BY <1>1, <1>2, <1>3, Appended DEF P!Authority

LEMMA ConsistentStays ==
  ASSUME NEW L, Consistent(L), NEW row, NEW M, Follows(L, row, M),
         row.kind \notin {"authorized", "adopted"}
  PROVE  Consistent(M)
<1>1. P!Authorities(M) = P!Authorities(L) /\ P!Authority(M) = P!Authority(L)
  BY AuthorityStays
<1>2. P!Adoptions(M) = P!Adoptions(L)
  <2>1. row.kind \notin {"adopted"}
    OBVIOUS
  <2> QED BY <2>1, RowsStay DEF P!Adoptions
<1>3. \A n \in P!Authorities(L) \cup P!Adoptions(L) : M[n] = L[n]
  BY Appended, RowsAreRows DEF P!Authorities, P!Adoptions
<1>4. P!Authorities(L) # {} => M[P!Authority(L)] = L[P!Authority(L)]
  BY AuthorityStays
<1>5. \A n \in P!Adoptions(M) : P!AdoptionLinked(M, n)
  <2> TAKE n \in P!Adoptions(M)
  <2>1. P!AdoptionLinked(L, n)
    BY <1>2 DEF Consistent
  <2> QED BY <1>1, <1>2, <1>3, <1>4, <2>1 DEF P!AdoptionLinked
<1>6. \A n \in P!Authorities(M) : M[n].baseline = n - 1
  BY <1>1, <1>3 DEF Consistent
<1> QED BY <1>1, <1>2, <1>5, <1>6 DEF Consistent

(* and the fills that count, with their sums. *)
LEMMA SumsStay ==
  ASSUME NEW L, NEW row, NEW M, Follows(L, row, M), NEW S \in SUBSET DOMAIN L
  PROVE  P!Executed(M, S) = P!Executed(L, S) /\ P!Net(M, S) = P!Net(L, S)
<1>1. IsFiniteSet(S)
  BY Appended, LogFinite
<1>2. S \in SUBSET DOMAIN M /\ \A n \in S : M[n] = L[n]
  BY Appended
<1>3. \A n \in S : Costs(M)[n] = Costs(L)[n] /\ Gains(M)[n] = Gains(L)[n]
  BY <1>2 DEF Costs, Gains
<1>4. Total(Costs(M), S) = Total(Costs(L), S) /\ Total(Gains(M), S) = Total(Gains(L), S)
  BY <1>1, <1>3, TotalAgrees
<1> QED BY <1>2, <1>4, ExecutedIs, NetIs

LEMMA CrossesStay ==
  ASSUME NEW L, NEW row, NEW M, Follows(L, row, M), row.kind \notin {"authorized", "fill"}
  PROVE  /\ P!Fills(M) = P!Fills(L)
         /\ \A n \in P!Fills(L) : M[n] = L[n] /\ (P!Crosses(M, n) <=> P!Crosses(L, n))
<1>1. P!Fills(M) = P!Fills(L)
  <2>1. P!Rows(M, {"fill"}) = P!Rows(L, {"fill"})
    <3>1. row.kind \notin {"fill"}
      OBVIOUS
    <3> QED BY <3>1, RowsStay
  <2>2. P!Authority(M) = P!Authority(L)
    BY AuthorityStays
  <2> QED BY <2>1, <2>2 DEF P!Fills
<1>2. P!Fills(L) \subseteq DOMAIN L
  BY RowsAreRows DEF P!Fills
<1>3. \A n \in P!Fills(L) : M[n] = L[n]
  BY <1>2, Appended
<1>4. \A n \in P!Fills(L) : P!Upto(M, n) = P!Upto(L, n) /\ P!Upto(L, n) \in SUBSET DOMAIN L
  BY <1>1, <1>2, <1>3 DEF P!Upto
<1>5. ASSUME NEW n \in P!Fills(L)
      PROVE  P!Executed(M, P!Upto(M, n)) = P!Executed(L, P!Upto(L, n)) /\ P!Net(M, P!Upto(M, n)) = P!Net(L, P!Upto(L, n))
  <2>1. PICK S \in SUBSET DOMAIN L : S = P!Upto(L, n) /\ S = P!Upto(M, n)
    BY <1>4
  <2>2. P!Executed(M, S) = P!Executed(L, S) /\ P!Net(M, S) = P!Net(L, S)
    BY SumsStay
  <2> QED BY <2>1, <2>2
<1> QED BY <1>1, <1>3, <1>5 DEF P!Crosses

(* What a replay accepts *)
LEMMA AtMostOne ==
  ASSUME NEW S, \A m, n \in S : m = n
  PROVE  P!Cardinality(S) <= 1
<1>1. P!Cardinality(S) = Cardinality(S)
  BY DEF P!Cardinality, Cardinality
<1>2. CASE S = {}
  BY <1>1, <1>2, FS_EmptySet
<1>3. CASE S # {}
  <2>1. PICK x : S = {x}
    BY <1>3
  <2> QED BY <1>1, <2>1, FS_Singleton
<1> QED BY <1>2, <1>3

LEMMA Replays ==
  ASSUME NEW L, Consistent(L), \A m, n \in P!Stops(L) : m = n, \A n \in P!Stops(L) : P!HaltLinked(L, n)
  PROVE  P!History(L)
BY AtMostOne DEF Consistent, P!History

(* The first consent, and an adoption *)
LEMMA ConsentAdded ==
  ASSUME NEW L, Consistent(L), NEW row, NEW M, Follows(L, row, M),
         row.kind = "authorized", P!Authorities(L) = {}, row.baseline = Len(L)
  PROVE  Consistent(M) /\ P!Authorities(M) = {Len(L) + 1} /\ P!Authority(M) = Len(L) + 1
<1>1. P!Authorities(M) = {Len(L) + 1} /\ P!Adoptions(M) = P!Adoptions(L)
  <2>1. row.kind \in {"authorized"} /\ row.kind \notin {"adopted"}
    OBVIOUS
  <2> QED BY <2>1, RowsStay DEF P!Authorities, P!Adoptions
<1>2. P!Adoptions(M) = {}
  BY <1>1 DEF Consistent
<1>3. M[Len(L) + 1] = row /\ Len(L) \in Nat
  BY Appended
<1>4. P!Authority(M) = Len(L) + 1
  BY <1>1 DEF P!Authority
<1> QED BY <1>1, <1>2, <1>3, <1>4 DEF Consistent

LEMMA AdoptionAdded ==
  ASSUME NEW L, Consistent(L), NEW row, NEW M, Follows(L, row, M),
         row.kind = "adopted", P!Adoptions(L) = {}, row.head = Len(L),
         P!Authorities(L) # {}, ~L[P!Authority(L)].signed
  PROVE  Consistent(M)
<1>1. P!Adoptions(M) = {Len(L) + 1}
  <2>1. row.kind \in {"adopted"}
    OBVIOUS
  <2> QED BY <2>1, RowsStay DEF P!Adoptions
<1>2. /\ P!Authorities(M) = P!Authorities(L) /\ P!Authority(M) = P!Authority(L)
      /\ P!Authority(L) \in 1..Len(L) /\ M[P!Authority(L)] = L[P!Authority(L)]
      /\ \A n \in P!Authorities(L) : M[n] = L[n]
  <2>1. \A n \in P!Authorities(L) : M[n] = L[n]
    BY Appended, RowsAreRows DEF P!Authorities
  <2> QED BY <2>1, AuthorityStays
<1>3. M[Len(L) + 1] = row /\ Len(L) \in Nat
  BY Appended
<1>4. P!AdoptionLinked(M, Len(L) + 1)
  BY <1>2, <1>3 DEF P!AdoptionLinked
<1>5. \A n \in P!Authorities(M) : M[n].baseline = n - 1
  BY <1>2 DEF Consistent
<1> QED BY <1>1, <1>2, <1>4, <1>5 DEF Consistent

-----------------------------------------------------------------------------
(* Stops *)

LEMMA StopsOf ==
  ASSUME NEW L, NEW row, NEW M, Follows(L, row, M)
  PROVE  /\ P!Stops(L) \subseteq P!Stops(M) /\ P!Stops(L) \subseteq DOMAIN L
         /\ \A n \in P!Stops(L) : M[n] = L[n]
         /\ P!Stops(M) \subseteq P!Stops(L) \cup {Len(L) + 1}
         /\ row.kind \notin StopRows \/ row.stop = "none" => P!Stops(M) = P!Stops(L)
         /\ row.kind \in StopRows /\ row.stop # "none" => Len(L) + 1 \in P!Stops(M)
<1>1. /\ P!Rows(M, StopRows) = P!Rows(L, StopRows) \cup (IF row.kind \in StopRows THEN {Len(L) + 1} ELSE {})
      /\ \A n \in P!Rows(L, StopRows) : M[n] = L[n]
      /\ M[Len(L) + 1] = row
      /\ P!Rows(L, StopRows) \subseteq DOMAIN L
  BY Appended, RowsAreRows
<1>2. P!Stops(L) = {n \in P!Rows(L, StopRows) : L[n].stop # "none"}
  BY DEF P!Stops, StopRows
<1>3. P!Stops(M) = {n \in P!Rows(M, StopRows) : M[n].stop # "none"}
  BY DEF P!Stops, StopRows
<1> HIDE DEF StopRows
<1> QED BY <1>1, <1>2, <1>3

LEMMA NoStopAdded ==
  ASSUME StopInv, StopsHold, NEW row, Follows(log, row, log'),
         row.kind = "authorized" => P!Authorities(log) = {},
         row.kind \in StopRows => row.stop = "none"
  PROVE  StopsHold' /\ P!Stops(log') = P!Stops(log)
<1>1. P!Stops(log') = P!Stops(log) /\ \A n \in P!Stops(log) : log'[n] = log[n]
  <2>1. row.kind \notin StopRows \/ row.stop = "none"
    OBVIOUS
  <2> HIDE DEF StopRows
  <2> QED BY <2>1, StopsOf
<1>2. CASE P!Stops(log) = {}
  BY <1>1, <1>2 DEF StopsHold
<1>3. CASE P!Stops(log) # {}
  <2>1. P!Authorities(log) # {}
    BY <1>3 DEF StopInv
  <2>2. P!Authorities(log') = P!Authorities(log) /\ P!Authority(log') = P!Authority(log)
    BY <2>1, AuthorityStays
  <2>3. FillRows \subseteq FillRows'
    BY Appended DEF FillRows
  <2> QED BY <1>1, <2>1, <2>2, <2>3 DEF StopsHold
<1> QED BY <1>2, <1>3

LEMMA StopAdded ==
  ASSUME StopInv, P!Stops(log) = {}, P!Authorities(log) # {}, NEW row, Follows(log, row, log'),
         \/ row.kind = "fill" /\ row.trigger = Len(log) + 1
         \/ row.kind = "halted" /\ row.trigger \in FillRows
  PROVE  StopsHold'
<1>1. P!Stops(log') \subseteq {Len(log) + 1} /\ log'[Len(log) + 1] = row /\ Len(log) \in Nat
  BY StopsOf, Appended
<1>2. /\ P!Authorities(log') = P!Authorities(log) /\ P!Authority(log') = P!Authority(log)
      /\ P!Authority(log) \in 1..Len(log)
  BY AuthorityStays
<1>3. /\ row.kind = "fill" => Len(log) + 1 \in FillRows'
      /\ FillRows \subseteq FillRows' /\ FillRows \subseteq 1..Len(log)
  BY Appended, RowsAreRows DEF FillRows
<1>4. row.trigger \in FillRows'
  BY <1>3
<1>5. CASE row.kind = "fill" /\ row.trigger = Len(log) + 1
  BY <1>1, <1>2, <1>4, <1>5 DEF StopsHold
<1>6. CASE row.kind = "halted" /\ row.trigger \in FillRows
  <2>1. row.trigger \in 1..Len(log) /\ row.kind # "fill"
    BY <1>3, <1>6
  <2>2. row.trigger < Len(log) + 1
    BY <1>1, <2>1
  <2> QED BY <1>1, <1>2, <1>4, <2>1, <2>2 DEF StopsHold
<1> QED BY <1>5, <1>6

-----------------------------------------------------------------------------
(* Without a stop *)

LEMMA OpenStays ==
  ASSUME OpenHolds, NEW row, Follows(log, row, log'), row.kind \notin {"authorized", "fill"}
  PROVE  OpenHolds'
<1> SUFFICES ASSUME P!Authorities(log') # {}, P!Stops(log') = {}, NEW n \in P!Fills(log')
             PROVE  log'[n].fair /\ log'[n].tid >= log'[P!Authority(log')].at /\ ~P!Crosses(log', n)
  BY DEF OpenHolds
<1>1. P!Authorities(log) # {} /\ P!Stops(log) = {}
  BY AuthorityStays, StopsOf
<1>2. n \in P!Fills(log) /\ log'[n] = log[n] /\ (P!Crosses(log', n) <=> P!Crosses(log, n))
  BY CrossesStay
<1>3. log'[P!Authority(log')].at = log[P!Authority(log)].at
  BY <1>1, AuthorityStays
<1> QED BY <1>1, <1>2, <1>3 DEF OpenHolds

LEMMA OpenBegins ==
  ASSUME P!Authorities(log) = {}, NEW row, Follows(log, row, log'), row.kind = "authorized",
         P!Authority(log') = Len(log) + 1
  PROVE  OpenHolds'
<1>1. P!Rows(log', {"fill"}) = P!Rows(log, {"fill"})
  <2>1. row.kind \notin {"fill"}
    OBVIOUS
  <2> QED BY <2>1, RowsStay
<1>2. P!Rows(log, {"fill"}) \subseteq 1..Len(log) /\ Len(log) \in Nat
  BY RowsAreRows, Appended
<1>3. P!Fills(log') = {}
  BY <1>1, <1>2 DEF P!Fills
<1> QED BY <1>3 DEF OpenHolds

(* A fill that brings no stop crosses no limit and contradicts nothing. *)
LEMMA OpenAfterFill ==
  ASSUME Consistent(log'), P!Stops(log') = {}, NEW f, P!Latched(log', f) = "none"
  PROVE  OpenHolds'
<1> SUFFICES ASSUME P!Authorities(log') # {}, NEW n \in P!Fills(log')
             PROVE  log'[n].fair /\ log'[n].tid >= log'[P!Authority(log')].at /\ ~P!Crosses(log', n)
  BY DEF OpenHolds
<1>1. P!History(log')
  BY Replays
<1>2. P!Projects(log') /\ P!Halt(log') # "exhausted"
  BY <1>1 DEF P!Latched
<1>3. ~P!Crosses(log', n)
  BY <1>2 DEF P!Halt
<1> QED BY <1>2, <1>3 DEF P!Projects, P!FillStands

-----------------------------------------------------------------------------
(* Orders, trades and fills *)

LEMMA StartsStay ==
  ASSUME NEW L, NEW row, NEW M, Follows(L, row, M), NEW o
  PROVE  /\ P!Starts(L, o) \subseteq P!Starts(M, o) /\ P!Starts(L, o) \subseteq 1..Len(L)
         /\ row.kind # "started" \/ row.order # o => P!Starts(M, o) = P!Starts(L, o)
         /\ P!Starts(M, o) \subseteq P!Starts(L, o) \cup {Len(L) + 1}
<1>1. /\ P!Rows(M, {"started"}) \subseteq P!Rows(L, {"started"}) \cup {Len(L) + 1}
      /\ P!Rows(L, {"started"}) \subseteq P!Rows(M, {"started"})
      /\ row.kind # "started" => P!Rows(M, {"started"}) = P!Rows(L, {"started"})
  <2>1. P!Rows(M, {"started"}) = P!Rows(L, {"started"}) \cup (IF row.kind \in {"started"} THEN {Len(L) + 1} ELSE {})
    BY Appended
  <2> QED BY <2>1
<1>2. /\ \A n \in P!Rows(L, {"started"}) : M[n] = L[n]
      /\ M[Len(L) + 1] = row
      /\ P!Rows(L, {"started"}) \subseteq 1..Len(L)
  BY Appended, RowsAreRows
<1> QED BY <1>1, <1>2 DEF P!Starts

LEMMA ReleasedStays ==
  ASSUME NEW L, NEW row, NEW M, Follows(L, row, M), NEW o, P!Released(M, o)
  PROVE  P!Released(L, o) \/ (row.kind = "resolved" /\ row.order = o /\ row.how \in {"not_sent", "rejected"})
<1>1. P!Rows(M, {"resolved"}) = P!Rows(L, {"resolved"}) \cup (IF row.kind \in {"resolved"} THEN {Len(L) + 1} ELSE {})
  BY Appended
<1>2. /\ \A n \in P!Rows(L, {"resolved"}) : M[n] = L[n]
      /\ M[Len(L) + 1] = row
  BY Appended, RowsAreRows
<1>3. PICK n \in P!Rows(M, {"resolved"}) : M[n].order = o /\ M[n].how \in {"not_sent", "rejected"}
  BY DEF P!Released, P!Resolutions
<1>4. CASE n \in P!Rows(L, {"resolved"})
  BY <1>2, <1>3, <1>4 DEF P!Released, P!Resolutions
<1>5. CASE n = Len(L) + 1 /\ row.kind = "resolved"
  BY <1>2, <1>3, <1>5
<1> QED BY <1>1, <1>3, <1>4, <1>5

(* The orders the budget is about change with a consent only. *)
LEMMA PilotOrdersStay ==
  ASSUME NEW row, Follows(log, row, log'), row.kind # "authorized", pilotSigned' = pilotSigned,
         row.kind = "started" => row.order \notin pilotSigned
  PROVE  P!PilotOrders' = P!PilotOrders
<1>1. P!Authorities(log') = P!Authorities(log) /\ P!Authority(log') = P!Authority(log)
  BY AuthorityStays
<1>2. \A o \in pilotSigned : P!Starts(log', o) = P!Starts(log, o)
  BY StartsStay
<1> QED BY <1>1, <1>2 DEF P!PilotOrders, P!Allocated

LEMMA NoPilotOrders ==
  ASSUME NEW row, Follows(log, row, log'), row.kind = "authorized", P!Authority(log') = Len(log) + 1
  PROVE  P!PilotOrders' = {}
<1>1. \A o : P!Starts(log', o) \subseteq 1..Len(log) /\ Len(log) \in Nat
  <2> TAKE o
  <2>1. P!Starts(log', o) = P!Starts(log, o) /\ P!Starts(log, o) \subseteq 1..Len(log)
    BY StartsStay
  <2> QED BY <2>1, Appended
<1> QED BY <1>1 DEF P!PilotOrders, P!Allocated

(* One more row that is no fill, with the trades as they are or one more *)
TradesStay == \A i \in DOMAIN traded : i \in DOMAIN traded' /\ traded'[i] = traded[i]

LEMMA FillsStay ==
  ASSUME FillsHold, NEW row, Follows(log, row, log'), row.kind \notin {"fill"}, TradesStay,
         row.kind = "started" => \A n \in FillRows : log[n].order # row.order
  PROVE  FillsHold'
<1>1. FillRows' = FillRows
  BY RowsStay DEF FillRows
<1>2. \A n \in FillRows : log'[n] = log[n]
  BY Appended, RowsAreRows DEF FillRows
<1>3. \A n \in FillRows : P!Starts(log', log[n].order) = P!Starts(log, log[n].order)
  BY StartsStay
<1> QED BY <1>1, <1>2, <1>3 DEF FillsHold, TradesStay

LEMMA FillAdded ==
  ASSUME FillsHold, NEW row, Follows(log, row, log'), row.kind = "fill", traded' = traded,
         row.tid \in DOMAIN traded, P!Stored(log, row.tid) = {},
         row.order = traded[row.tid].order, row.sz = traded[row.tid].sz,
         row.px = traded[row.tid].px, row.net = traded[row.tid].net
  PROVE  FillsHold'
<1>1. FillRows' = FillRows \cup {Len(log) + 1}
  <2>1. row.kind \in {"fill"}
    OBVIOUS
  <2> QED BY <2>1, RowsStay DEF FillRows
<1>2. /\ \A n \in FillRows : log'[n] = log[n]
      /\ log'[Len(log) + 1] = row /\ Len(log) \in Nat
      /\ FillRows \subseteq 1..Len(log)
  BY Appended, RowsAreRows DEF FillRows
<1>3. \A o : P!Starts(log', o) = P!Starts(log, o) /\ P!Starts(log, o) \subseteq 1..Len(log)
  BY StartsStay
<1>4. \A n \in FillRows : log[n].tid # row.tid
  BY DEF P!Stored, FillRows
<1> SUFFICES ASSUME NEW n \in FillRows'
             PROVE  /\ log'[n].tid \in DOMAIN traded
                    /\ log'[n].order = traded[log'[n].tid].order /\ log'[n].sz = traded[log'[n].tid].sz
                    /\ log'[n].px = traded[log'[n].tid].px /\ log'[n].net = traded[log'[n].tid].net
                    /\ \A k \in P!Starts(log', log'[n].order) : k < n
                    /\ \A m \in FillRows' : log'[m].tid = log'[n].tid => m = n
  BY DEF FillsHold
<1>5. CASE n \in FillRows
  <2>1. \A m \in FillRows' : log'[m].tid = log'[n].tid => m = n
    BY <1>1, <1>2, <1>4, <1>5 DEF FillsHold
  <2>2. \A k \in P!Starts(log', log'[n].order) : k < n
    BY <1>2, <1>3, <1>5 DEF FillsHold
  <2> QED BY <1>2, <1>5, <2>1, <2>2 DEF FillsHold
<1>6. CASE n = Len(log) + 1
  <2>1. \A m \in FillRows' : log'[m].tid = log'[n].tid => m = n
    BY <1>1, <1>2, <1>4, <1>6
  <2>2. \A k \in P!Starts(log', log'[n].order) : k < n
    BY <1>2, <1>3, <1>6
  <2> QED BY <1>2, <1>6, <2>1, <2>2
<1> QED BY <1>1, <1>5, <1>6

LEMMA OrdersStay ==
  ASSUME OrdersHold, NEW row, Follows(log, row, log'), traded' = traded, pilotSigned' = pilotSigned,
         dead \subseteq dead',
         row.kind = "resolved" /\ row.how \in {"not_sent", "rejected"} =>
           /\ row.order \notin pilotSigned \ dead'
           /\ \A i \in DOMAIN traded : traded[i].order # row.order
  PROVE  OrdersHold'
<1>1. \A o \in pilotSigned : P!Starts(log', o) # {}
  BY StartsStay DEF OrdersHold
<1>2. ASSUME NEW o \in Orders, P!Released(log', o)
      PROVE  o \notin pilotSigned \ dead' /\ \A i \in DOMAIN traded : traded[i].order # o
  <2>1. CASE P!Released(log, o)
    BY <2>1 DEF OrdersHold
  <2>2. CASE row.kind = "resolved" /\ row.order = o /\ row.how \in {"not_sent", "rejected"}
    BY <2>2
  <2> QED BY <1>2, <2>1, <2>2, ReleasedStays
<1> QED BY <1>1, <1>2 DEF OrdersHold

(* An order of which something traded was signed, so it was started. *)
LEMMA FilledWasStarted ==
  ASSUME MarketHolds, FillsHold, OrdersHold, NEW o \in Orders, P!Starts(log, o) = {}
  PROVE  o \notin pilotSigned /\ \A n \in FillRows : log[n].order # o
<1>1. o \notin pilotSigned
  BY DEF OrdersHold
<1>2. o # 0
  BY PilotAssumption
<1> QED BY <1>1, <1>2 DEF FillsHold, MarketHolds

-----------------------------------------------------------------------------
(* The market, and what it may still cost *)

LEMMA AllocatedIsFinite ==
  ASSUME NEW L, IsSeq(L)
  PROVE  IsFiniteSet(P!Allocated(L))
<1> DEFINE order == [n \in DOMAIN L |-> L[n].order]
<1>1. IsFiniteSet({order[n] : n \in DOMAIN L})
  <2>1. IsFiniteSet(DOMAIN L)
    BY LogFinite
  <2> HIDE DEF order
  <2> QED BY <2>1, ValuesAreFinite
<1>2. P!Allocated(L) \subseteq {order[n] : n \in DOMAIN L}
  BY DEF P!Allocated, P!Starts, P!Rows
<1> QED BY <1>1, <1>2, FS_Subset

LEMMA PilotOrdersAreFinite ==
  ASSUME IsSeq(log)
  PROVE  IsFiniteSet(P!PilotOrders) /\ P!PilotOrders \subseteq Orders
<1>1. IsFiniteSet(P!Allocated(log))
  BY AllocatedIsFinite
<1>2. P!PilotOrders \subseteq P!Allocated(log) /\ P!Allocated(log) \subseteq Orders
  BY DEF P!PilotOrders, P!Allocated
<1> QED BY <1>1, <1>2, FS_Subset

LEMMA ProductIsNat == \A a, b \in Nat : a * b \in Nat
OBVIOUS

LEMMA ProductOrder == \A a, b, c \in Nat : a <= b => a * c <= b * c
OBVIOUS

(* A trade costs its order no more than the price it was reserved at. *)
LEMMA TradeTerms ==
  ASSUME NEW T \in Seq(TradeRow), NEW o \in Orders
  PROVE  /\ IsFiniteSet(TradesOf(T, o))
         /\ \A i \in DOMAIN T :
              /\ T[i].sz = 1 /\ T[i].px \in Nat /\ T[i].net \in Int /\ T[i].order \in Orders \cup {0}
              /\ Sizes(T)[i] = 1
              /\ AtMost(T, o)[i] \in Nat /\ AtMost(T, o)[i] <= Value[o] /\ AtMost(T, o)[i] <= T[i].px
<1>1. IsSeq(T) /\ DOMAIN T = 1..Len(T)
  BY DEF IsSeq
<1>2. IsFiniteSet(TradesOf(T, o))
  <2>1. TradesOf(T, o) \in SUBSET DOMAIN T
    BY DEF TradesOf
  <2> QED BY <1>1, <2>1, LogFinite
<1>3. ASSUME NEW i \in DOMAIN T
      PROVE  /\ T[i].sz = 1 /\ T[i].px \in Nat /\ T[i].net \in Int /\ T[i].order \in Orders \cup {0}
             /\ Sizes(T)[i] = 1
             /\ AtMost(T, o)[i] \in Nat /\ AtMost(T, o)[i] <= Value[o] /\ AtMost(T, o)[i] <= T[i].px
  <2>1. T[i] \in TradeRow
    BY <1>1
  <2>2. T[i].sz = 1 /\ T[i].px \in Nat /\ T[i].net \in Int /\ T[i].order \in Orders \cup {0}
    BY <2>1, PilotAssumption DEF TradeRow
  <2>3. Value[o] \in Nat
    BY PilotAssumption
  <2>4. AtMost(T, o)[i] = T[i].sz * (IF T[i].px < Value[o] THEN T[i].px ELSE Value[o]) /\ Sizes(T)[i] = T[i].sz
    BY DEF AtMost, Sizes
  <2>5. AtMost(T, o)[i] = (IF T[i].px < Value[o] THEN T[i].px ELSE Value[o])
    BY <2>2, <2>3, <2>4
  <2> QED BY <2>2, <2>3, <2>4, <2>5
<1> QED BY <1>2, <1>3

LEMMA TradeSums ==
  ASSUME NEW T \in Seq(TradeRow), NEW o \in Orders
  PROVE  /\ Total(Sizes(T), TradesOf(T, o)) \in Nat
         /\ Total(AtMost(T, o), TradesOf(T, o)) \in Nat
         /\ Total(AtMost(T, o), TradesOf(T, o)) <= Value[o] * Total(Sizes(T), TradesOf(T, o))
<1>1. TradesOf(T, o) \subseteq DOMAIN T
  BY DEF TradesOf
<1>2. IsFiniteSet(TradesOf(T, o)) /\ \A i \in TradesOf(T, o) :
        /\ Sizes(T)[i] = 1 /\ AtMost(T, o)[i] \in Nat /\ AtMost(T, o)[i] <= Value[o]
  BY <1>1, TradeTerms
<1>3. Total(Sizes(T), TradesOf(T, o)) \in Nat /\ Total(AtMost(T, o), TradesOf(T, o)) \in Nat
  BY <1>2, TotalIsNat
<1> DEFINE S == TradesOf(T, o)
           worth == [i \in S |-> Value[o]]
<1>4. Value[o] \in Nat
  BY PilotAssumption
<1>5. Total(worth, S) = Value[o] * Total(Sizes(T), S)
  <2>1. Scales(S, Value[o], Sizes(T), worth)
    BY <1>2, <1>4 DEF Scales
  <2> HIDE DEF worth, S
  <2> QED BY <1>2, <2>1, TotalScales DEF S
<1>6. Total(AtMost(T, o), S) <= Total(worth, S)
  <2>1. \A i \in S : AtMost(T, o)[i] \in Int /\ worth[i] \in Int /\ AtMost(T, o)[i] <= worth[i]
    BY <1>2, <1>4
  <2> HIDE DEF worth, S
  <2> QED BY <1>2, <2>1, TotalLeq DEF S
<1> QED BY <1>3, <1>5, <1>6

LEMMA TradeAdded ==
  ASSUME NEW T \in Seq(TradeRow), NEW t \in TradeRow, NEW M, Follows(T, t, M), NEW o \in Orders
  PROVE  /\ M \in Seq(TradeRow)
         /\ t.order # o => /\ Total(Sizes(M), TradesOf(M, o)) = Total(Sizes(T), TradesOf(T, o))
                           /\ Total(AtMost(M, o), TradesOf(M, o)) = Total(AtMost(T, o), TradesOf(T, o))
         /\ t.order = o => /\ Total(Sizes(M), TradesOf(M, o)) = Total(Sizes(T), TradesOf(T, o)) + 1
                           /\ Total(AtMost(M, o), TradesOf(M, o)) <= Total(AtMost(T, o), TradesOf(T, o)) + Value[o]
<1>1. M \in Seq(TradeRow)
  BY DEF Follows
<1> DEFINE S == TradesOf(T, o)
           U == TradesOf(M, o)
           x == Len(T) + 1
<1>2. /\ DOMAIN T = 1..Len(T) /\ DOMAIN M = 1..(Len(T) + 1) /\ Len(T) \in Nat
      /\ M[Len(T) + 1] = t /\ \A n \in DOMAIN T : M[n] = T[n]
  BY Appended
<1>3. S \subseteq DOMAIN T /\ U \subseteq DOMAIN M
  BY DEF TradesOf
<1>4. IsFiniteSet(S) /\ IsFiniteSet(U)
  BY <1>1, TradeTerms
<1>5. \A i \in S : Sizes(M)[i] = Sizes(T)[i] /\ AtMost(M, o)[i] = AtMost(T, o)[i]
  BY <1>2, <1>3 DEF Sizes, AtMost
<1>6. /\ Total(Sizes(M), S) = Total(Sizes(T), S)
      /\ Total(AtMost(M, o), S) = Total(AtMost(T, o), S)
  <2> HIDE DEF S
  <2> QED BY <1>4, <1>5, TotalAgrees
<1>7. CASE t.order # o
  <2>1. U = S
    BY <1>2, <1>7 DEF TradesOf
  <2> QED BY <1>1, <1>6, <1>7, <2>1
<1>8. CASE t.order = o
  <2>1. x \in U /\ U \ {x} = S
    BY <1>2, <1>8 DEF TradesOf
  <2>2. \A i \in U : /\ Sizes(M)[i] = 1
                     /\ AtMost(M, o)[i] \in Int /\ AtMost(M, o)[i] <= Value[o]
    BY <1>1, <1>3, TradeTerms
  <2> HIDE DEF U, S, x
  <2>3. /\ Total(Sizes(M), U) = Sizes(M)[x] + Total(Sizes(M), U \ {x})
        /\ Total(AtMost(M, o), U) = AtMost(M, o)[x] + Total(AtMost(M, o), U \ {x})
    BY <1>4, <2>1, <2>2, TotalTakes
  <2>4. Total(Sizes(T), S) \in Nat /\ Total(AtMost(T, o), S) \in Nat /\ Value[o] \in Nat
    BY TradeSums, PilotAssumption DEF S
  <2>5. /\ Total(Sizes(M), U) = Sizes(M)[x] + Total(Sizes(T), S)
        /\ Total(AtMost(M, o), U) = AtMost(M, o)[x] + Total(AtMost(T, o), S)
    BY <1>6, <2>1, <2>3
  <2>6. Sizes(M)[x] = 1 /\ AtMost(M, o)[x] \in Int /\ AtMost(M, o)[x] <= Value[o]
    BY <2>1, <2>2
  <2>7. /\ Total(Sizes(M), U) = Total(Sizes(T), S) + 1
        /\ Total(AtMost(M, o), U) <= Total(AtMost(T, o), S) + Value[o]
    BY <2>4, <2>5, <2>6
  <2> QED BY <1>1, <1>8, <2>7 DEF U, S
<1> QED BY <1>7, <1>8

-----------------------------------------------------------------------------
(* Nothing but a signature raises what the orders may cost *)

Remaining(o) == (Size[o] - P!TradedOf(o)) * Value[o]

ExposedTyped ==
  MarketHolds => \A o \in Orders :
    /\ P!TradedOf(o) \in Nat /\ P!TradedValue(o) \in Nat /\ P!TradedOf(o) <= Size[o]
    /\ Remaining(o) \in Nat
    /\ P!Exposed(o) = P!TradedValue(o) + (IF o \in pilotSigned \ dead THEN Remaining(o) ELSE 0)
    /\ P!Exposed(o) \in Nat

LEMMA ExposedIs == ExposedTyped
<1> SUFFICES ASSUME MarketHolds, NEW o \in Orders
             PROVE  /\ P!TradedOf(o) \in Nat /\ P!TradedValue(o) \in Nat /\ P!TradedOf(o) <= Size[o]
                    /\ Remaining(o) \in Nat
                    /\ P!Exposed(o) = P!TradedValue(o) + (IF o \in pilotSigned \ dead THEN Remaining(o) ELSE 0)
                    /\ P!Exposed(o) \in Nat
  BY DEF ExposedTyped
<1>1. P!TradedOf(o) \in Nat /\ P!TradedValue(o) \in Nat /\ P!TradedOf(o) <= Size[o]
  <2>1. PICK T \in Seq(TradeRow) : T = traded
    BY DEF MarketHolds
  <2>2. Total(Sizes(T), TradesOf(T, o)) \in Nat /\ Total(AtMost(T, o), TradesOf(T, o)) \in Nat
    BY TradeSums
  <2>3. P!TradedOf(o) <= Size[o]
    BY DEF MarketHolds
  <2> QED BY <2>1, <2>2, <2>3, TradesSummedIs DEF TradesSummed
<1>2. Size[o] - P!TradedOf(o) \in Nat /\ Value[o] \in Nat
  BY <1>1, PilotAssumption
<1>3. Remaining(o) \in Nat
  BY <1>2, ProductIsNat DEF Remaining
<1>4. P!Exposed(o) = P!TradedValue(o) + (IF o \in pilotSigned \ dead THEN Remaining(o) ELSE 0)
  BY DEF P!Exposed, Remaining
<1> QED BY <1>1, <1>3, <1>4

LEMMA ExposedNext == ExposedTyped'
BY ExposedIs, PTL

LEMMA BudgetStays ==
  ASSUME IsSeq(log), P!WithinBudget, MarketHolds, MarketHolds', P!PilotOrders' = P!PilotOrders,
         \A o \in P!PilotOrders : P!Exposed(o)' <= P!Exposed(o)
  PROVE  P!WithinBudget'
<1>1. PICK S \in SUBSET Orders : S = P!PilotOrders /\ IsFiniteSet(S)
  BY PilotOrdersAreFinite
<1>2. \A o \in S : Exposures[o] = P!Exposed(o) /\ Exposures'[o] = P!Exposed(o)'
  BY DEF Exposures
<1>3. \A o \in S : P!Exposed(o) \in Int /\ P!Exposed(o)' \in Int
  <2>1. \A o \in Orders : P!Exposed(o) \in Nat
    BY ExposedIs DEF ExposedTyped
  <2>2. \A o \in Orders : P!Exposed(o)' \in Nat
    BY ExposedNext DEF ExposedTyped
  <2> QED BY <2>1, <2>2
<1>4. PICK F, G : F = Exposures' /\ G = Exposures
  OBVIOUS
<1>5. \A o \in S : F[o] \in Int /\ G[o] \in Int /\ F[o] <= G[o]
  BY <1>1, <1>2, <1>3, <1>4
<1>6. Total(F, S) <= Total(G, S) /\ Total(F, S) \in Int /\ Total(G, S) \in Int
  BY <1>1, <1>5, TotalLeq, TotalIsInt
<1>7. Total(G, S) <= ExecutedLimit
  BY <1>1, <1>4, ExposureSumIs DEF ExposureSum
<1>8. Total(F, S) <= ExecutedLimit
  BY <1>6, <1>7, PilotAssumption
<1> QED BY <1>1, <1>4, <1>8, SummedNext DEF ExposureSum

LEMMA MarketStays ==
  ASSUME MarketHolds, traded' = traded, pilotSigned' \subseteq Orders, pilotSigned \subseteq pilotSigned'
  PROVE  MarketHolds' /\ \A o : P!TradedOf(o)' = P!TradedOf(o) /\ P!TradedValue(o)' = P!TradedValue(o)
<1>1. \A o : P!TradedOf(o)' = P!TradedOf(o) /\ P!TradedValue(o)' = P!TradedValue(o)
  BY SummedNext, TradesSummedIs DEF TradesSummed
<1> QED BY <1>1 DEF MarketHolds

LEMMA ExposuresStay ==
  ASSUME MarketHolds, traded' = traded, pilotSigned' = pilotSigned, dead \subseteq dead'
  PROVE  MarketHolds' /\ \A o \in Orders : P!Exposed(o)' <= P!Exposed(o)
<1>1. MarketHolds'
  BY MarketStays DEF MarketHolds
<1>2. \A o \in Orders : P!TradedOf(o)' = P!TradedOf(o) /\ P!TradedValue(o)' = P!TradedValue(o)
  BY MarketStays DEF MarketHolds
<1> SUFFICES ASSUME NEW o \in Orders PROVE P!Exposed(o)' <= P!Exposed(o)
  BY <1>1
<1>3. Remaining(o)' = Remaining(o)
  BY <1>2 DEF Remaining
<1>4. P!Exposed(o)' = P!TradedValue(o)' + (IF o \in pilotSigned' \ dead' THEN Remaining(o)' ELSE 0)
  BY <1>1, ExposedNext DEF ExposedTyped
<1>5. /\ P!Exposed(o) = P!TradedValue(o) + (IF o \in pilotSigned \ dead THEN Remaining(o) ELSE 0)
      /\ P!TradedValue(o) \in Nat /\ Remaining(o) \in Nat
  BY ExposedIs DEF ExposedTyped
<1> QED BY <1>2, <1>3, <1>4, <1>5

LEMMA OneMore == \A a, b \in Int : (a + 1) * b = a * b + b
OBVIOUS

(* A trade takes what it costs from what remains. *)
LEMMA TradeStep ==
  ASSUME BudgetInv, P!Trade
  PROVE  BudgetInv'
<1>1. PICK o \in (pilotSigned \ dead) \cup {0}, px \in Prices, net \in Nets :
        /\ o # 0 => P!TradedOf(o) < Size[o]
        /\ traded' = Append(traded, [order |-> o, sz |-> 1, px |-> px, net |-> net])
  BY DEF P!Trade
<1>2. UNCHANGED <<log, pilotSigned, dead, legacy>>
  BY DEF P!Trade
<1>3. PICK t \in TradeRow : t = [order |-> o, sz |-> 1, px |-> px, net |-> net]
  BY DEF BudgetInv, MarketHolds, TradeRow
<1>4. t.order = o /\ Follows(traded, t, traded') /\ traded \in Seq(TradeRow)
  BY <1>1, <1>3 DEF Follows, IsSeq, BudgetInv, MarketHolds
<1>5. ASSUME NEW p \in Orders
      PROVE  /\ traded' \in Seq(TradeRow)
             /\ o # p => P!TradedOf(p)' = P!TradedOf(p) /\ P!TradedValue(p)' = P!TradedValue(p)
             /\ o = p => /\ P!TradedOf(p)' = P!TradedOf(p) + 1
                         /\ P!TradedValue(p)' <= P!TradedValue(p) + Value[p]
  <2>0. PICK T \in Seq(TradeRow) : T = traded
    BY <1>4
  <2>1. PICK M : T = traded /\ M = traded' /\ Follows(T, t, M)
    BY <1>4, <2>0
  <2>2. /\ M \in Seq(TradeRow)
        /\ o # p => /\ Total(Sizes(M), TradesOf(M, p)) = Total(Sizes(T), TradesOf(T, p))
                    /\ Total(AtMost(M, p), TradesOf(M, p)) = Total(AtMost(T, p), TradesOf(T, p))
        /\ o = p => /\ Total(Sizes(M), TradesOf(M, p)) = Total(Sizes(T), TradesOf(T, p)) + 1
                    /\ Total(AtMost(M, p), TradesOf(M, p)) <= Total(AtMost(T, p), TradesOf(T, p)) + Value[p]
    BY <1>4, <2>1, TradeAdded
  <2>3. P!TradedOf(p) = Total(Sizes(T), TradesOf(T, p)) /\ P!TradedValue(p) = Total(AtMost(T, p), TradesOf(T, p))
    BY <2>1, TradesSummedIs DEF TradesSummed
  <2>4. P!TradedOf(p)' = Total(Sizes(M), TradesOf(M, p)) /\ P!TradedValue(p)' = Total(AtMost(M, p), TradesOf(M, p))
    BY <2>1, SummedNext DEF TradesSummed
  <2> QED BY <2>1, <2>2, <2>3, <2>4
<1>6. \A p \in Orders : P!TradedOf(p) \in Nat /\ P!TradedValue(p) \in Nat /\ P!TradedOf(p) <= Size[p]
  BY ExposedIs DEF ExposedTyped, BudgetInv
<1>7. \A p \in Orders : Size[p] \in Nat /\ Value[p] \in Nat
  BY PilotAssumption
<1>8. /\ TradesStay
      /\ DOMAIN traded' = DOMAIN traded \cup {Len(traded) + 1} /\ traded'[Len(traded) + 1] = t
  <2>1. /\ DOMAIN traded = 1..Len(traded) /\ DOMAIN traded' = 1..(Len(traded) + 1) /\ Len(traded) \in Nat
        /\ traded'[Len(traded) + 1] = t /\ \A n \in DOMAIN traded : traded'[n] = traded[n]
    BY <1>4, Appended
  <2> QED BY <2>1 DEF TradesStay
<1>9. pilotSigned \subseteq Orders
  BY DEF BudgetInv, MarketHolds
<1>10. MarketHolds'
  <2>1. traded' \in Seq(TradeRow)
    <3>1. CASE Orders = {}
      <4>1. t \in TradeRow /\ traded \in Seq(TradeRow) /\ traded' = Append(traded, t)
        BY <1>4 DEF Follows
      <4> QED BY <4>1
    <3> QED BY <1>5, <3>1
  <2>2. \A i \in DOMAIN traded' : traded'[i].order # 0 => traded'[i].order \in pilotSigned
    BY <1>1, <1>4, <1>8 DEF TradesStay, BudgetInv, MarketHolds
  <2>3. \A p \in Orders : P!TradedOf(p)' <= Size[p]
    <3> TAKE p \in Orders
    <3>1. CASE o # p
      BY <1>5, <1>6, <3>1
    <3>2. CASE o = p
      <4>1. P!TradedOf(p) < Size[p]
        BY <1>1, <3>2, PilotAssumption
      <4> QED BY <1>5, <1>6, <1>7, <3>2, <4>1
    <3> QED BY <3>1, <3>2
  <2> QED BY <1>2, <1>9, <2>1, <2>2, <2>3 DEF MarketHolds
<1>11. ASSUME NEW p \in Orders PROVE P!Exposed(p)' <= P!Exposed(p)
  <2>1. P!Exposed(p) = P!TradedValue(p) + (IF p \in pilotSigned \ dead THEN Remaining(p) ELSE 0) /\ Remaining(p) \in Nat
    BY ExposedIs DEF ExposedTyped, BudgetInv
  <2>2. P!Exposed(p)' = P!TradedValue(p)' + (IF p \in pilotSigned \ dead THEN Remaining(p)' ELSE 0)
        /\ Remaining(p)' \in Nat /\ P!TradedValue(p)' \in Nat
    BY <1>2, <1>10, ExposedNext DEF ExposedTyped
  <2>3. CASE o # p
    <3>1. Remaining(p)' = Remaining(p) /\ P!TradedValue(p)' = P!TradedValue(p)
      BY <1>5, <2>3 DEF Remaining
    <3> QED BY <1>6, <2>1, <2>2, <3>1
  <2>4. CASE o = p
    <3>1. p \in pilotSigned \ dead
      BY <2>4, PilotAssumption
    <3>2. Remaining(p)' + Value[p] = Remaining(p)
      <4>1. P!TradedOf(p)' = P!TradedOf(p) + 1
        BY <1>5, <2>4
      <4>2. PICK n \in Nat, s \in Nat, v \in Nat : n = P!TradedOf(p) /\ s = Size[p] /\ v = Value[p]
        BY <1>6, <1>7
      <4>3. (s - n) * v = (s - (n + 1)) * v + v
        <5>1. s - (n + 1) \in Int /\ s - n = (s - (n + 1)) + 1
          BY <4>2
        <5> QED BY <4>2, <5>1, OneMore
      <4> QED BY <4>1, <4>2, <4>3 DEF Remaining
    <3>3. P!TradedValue(p)' <= P!TradedValue(p) + Value[p]
      BY <1>5, <2>4
    <3> QED BY <1>6, <1>7, <2>1, <2>2, <3>1, <3>2, <3>3
  <2> QED BY <2>3, <2>4
<1>12. P!WithinBudget'
  <2>1. P!PilotOrders' = P!PilotOrders
    BY <1>2 DEF P!PilotOrders
  <2>2. P!PilotOrders \subseteq Orders /\ IsSeq(log) /\ P!WithinBudget /\ MarketHolds
    BY DEF P!PilotOrders, P!Allocated, BudgetInv, StopInv
  <2> QED BY <1>10, <1>11, <2>1, <2>2, BudgetStays
<1>13. FillsHold'
  BY <1>2, <1>8 DEF BudgetInv, FillsHold, FillRows, TradesStay
<1>14. OrdersHold'
  <2>1. \A p \in Orders : P!Released(log, p) => o # p
    BY PilotAssumption DEF BudgetInv, OrdersHold
  <2> QED BY <1>2, <1>4, <1>8, <2>1 DEF BudgetInv, OrdersHold, TradesStay
<1>15. StopInv' /\ Consistent(log') /\ LegacyHolds' /\ StopsHold' /\ OpenHolds'
  BY <1>2 DEF BudgetInv, StopInv, LegacyHolds, StopsHold, OpenHolds, FillRows
<1> QED BY <1>10, <1>12, <1>13, <1>14, <1>15 DEF BudgetInv

-----------------------------------------------------------------------------
(* The steps *)

(* Nothing written, signed or traded *)
LEMMA StillStep ==
  ASSUME BudgetInv, UNCHANGED <<log, pilotSigned, traded>>, dead \subseteq dead', LegacyHolds'
  PROVE  BudgetInv'
<1>1. MarketHolds' /\ \A o \in Orders : P!Exposed(o)' <= P!Exposed(o)
  BY ExposuresStay DEF BudgetInv
<1>2. P!WithinBudget'
  <2>1. P!PilotOrders' = P!PilotOrders
    BY DEF P!PilotOrders
  <2>2. P!PilotOrders \subseteq Orders /\ IsSeq(log) /\ P!WithinBudget /\ MarketHolds
    BY DEF P!PilotOrders, P!Allocated, BudgetInv, StopInv
  <2> QED BY <1>1, <2>1, <2>2, BudgetStays
<1>3. FillsHold' /\ OrdersHold'
  BY DEF BudgetInv, FillsHold, OrdersHold, FillRows
<1>4. StopInv' /\ Consistent(log') /\ StopsHold' /\ OpenHolds'
  BY DEF BudgetInv, StopInv, StopsHold, OpenHolds, FillRows
<1> QED BY <1>1, <1>2, <1>3, <1>4 DEF BudgetInv

LEMMA LegacyStays ==
  ASSUME LegacyHolds, legacy' = legacy, NEW row, Follows(log, row, log'),
         row.kind = "authorized" => P!Authorities(log) = {}
  PROVE  LegacyHolds'
<1> SUFFICES ASSUME legacy # P!NoReview
             PROVE  P!Authorities(log') # {} /\ ~log'[P!Authority(log')].signed
  BY DEF LegacyHolds
<1>1. P!Authorities(log) # {} /\ ~log[P!Authority(log)].signed
  BY DEF LegacyHolds
<1> QED BY <1>1, AuthorityStays

(* A row that is no consent and no fill, with its order's fate *)
RowMayFollow(row) ==
  /\ row.kind = "started" =>
       row.order \notin pilotSigned /\ \A n \in FillRows : log[n].order # row.order
  /\ row.kind = "resolved" /\ row.how \in {"not_sent", "rejected"} =>
       /\ row.order \notin pilotSigned \ dead'
       /\ \A i \in DOMAIN traded : traded[i].order # row.order

LEMMA RowStep ==
  ASSUME BudgetInv, StopInv', UNCHANGED <<traded, pilotSigned, legacy>>, dead \subseteq dead',
         NEW row, Follows(log, row, log'), RowMayFollow(row),
         row.kind \notin {"authorized", "fill"}, row.kind = "adopted" => Consistent(log'),
         row.kind = "halted" => StopsHold'
  PROVE  BudgetInv'
<1>1. MarketHolds' /\ \A o \in Orders : P!Exposed(o)' <= P!Exposed(o)
  BY ExposuresStay DEF BudgetInv
<1>2. P!WithinBudget'
  <2>1. P!PilotOrders' = P!PilotOrders
    BY PilotOrdersStay DEF RowMayFollow
  <2>2. P!PilotOrders \subseteq Orders /\ IsSeq(log) /\ P!WithinBudget /\ MarketHolds
    BY DEF P!PilotOrders, P!Allocated, BudgetInv, StopInv
  <2> QED BY <1>1, <2>1, <2>2, BudgetStays
<1>3. FillsHold'
  BY FillsStay DEF RowMayFollow, BudgetInv, TradesStay
<1>4. OrdersHold'
  BY OrdersStay DEF RowMayFollow, BudgetInv
<1>5. Consistent(log')
  BY ConsistentStays DEF BudgetInv
<1>6. LegacyHolds' /\ OpenHolds'
  BY LegacyStays, OpenStays DEF BudgetInv
<1>7. StopsHold'
  <2>1. CASE row.kind = "halted"
    BY <2>1
  <2>2. CASE row.kind \notin StopRows
    BY <2>2, NoStopAdded DEF BudgetInv
  <2> QED BY <2>1, <2>2 DEF StopRows
<1> QED BY <1>1, <1>2, <1>3, <1>4, <1>5, <1>6, <1>7 DEF BudgetInv

(* The first consent *)
LEMMA ConsentStep ==
  ASSUME BudgetInv, StopInv', UNCHANGED <<traded, pilotSigned, legacy, dead>>,
         NEW row, Follows(log, row, log'), row.kind = "authorized", row.baseline = Len(log),
         P!Authorities(log) = {}
  PROVE  BudgetInv'
<1>1. MarketHolds'
  BY ExposuresStay DEF BudgetInv
<1>2. Consistent(log') /\ P!Authority(log') = Len(log) + 1
  BY ConsentAdded DEF BudgetInv
<1>3. P!WithinBudget'
  <2>1. P!PilotOrders' = {}
    BY <1>2, NoPilotOrders
  <2> QED BY <2>1, SummedNext, TotalOfNone, PilotAssumption DEF ExposureSum
<1>4. FillsHold'
  BY FillsStay DEF BudgetInv, TradesStay
<1>5. OrdersHold'
  BY OrdersStay DEF BudgetInv
<1>6. LegacyHolds' /\ OpenHolds'
  BY <1>2, LegacyStays, OpenBegins DEF BudgetInv
<1>7. StopsHold'
  BY NoStopAdded DEF BudgetInv, StopRows
<1> QED BY <1>1, <1>2, <1>3, <1>4, <1>5, <1>6, <1>7 DEF BudgetInv

(* A new fill, with the stop it brings *)
LEMMA FillRowStep ==
  ASSUME BudgetInv, StopInv', UNCHANGED <<traded, pilotSigned, legacy, dead>>,
         NEW row, Follows(log, row, log'), row.kind = "fill",
         row.tid \in DOMAIN traded, P!Stored(log, row.tid) = {},
         row.order = traded[row.tid].order, row.sz = traded[row.tid].sz,
         row.px = traded[row.tid].px, row.net = traded[row.tid].net,
         StopsHold', OpenHolds'
  PROVE  BudgetInv'
<1>1. MarketHolds' /\ \A o \in Orders : P!Exposed(o)' <= P!Exposed(o)
  BY ExposuresStay DEF BudgetInv
<1>2. P!WithinBudget'
  <2>1. P!PilotOrders' = P!PilotOrders
    BY PilotOrdersStay
  <2>2. P!PilotOrders \subseteq Orders /\ IsSeq(log) /\ P!WithinBudget /\ MarketHolds
    BY DEF P!PilotOrders, P!Allocated, BudgetInv, StopInv
  <2> QED BY <1>1, <2>1, <2>2, BudgetStays
<1>3. FillsHold'
  BY FillAdded DEF BudgetInv
<1>4. OrdersHold'
  BY OrdersStay DEF BudgetInv
<1>5. Consistent(log')
  BY ConsistentStays DEF BudgetInv
<1>6. LegacyHolds'
  BY LegacyStays DEF BudgetInv
<1> QED BY <1>1, <1>2, <1>3, <1>4, <1>5, <1>6 DEF BudgetInv

(* Writing a field its own value changes nothing. *)
LEMMA SameField ==
  ASSUME NEW f, f = [x \in DOMAIN f |-> f[x]], NEW a, NEW v, f[a] = v
  PROVE  [f EXCEPT ![a] = v] = f
<1> DEFINE D == DOMAIN f
           g == [f EXCEPT ![a] = v]
<1>1. g = [x \in D |-> IF x = a THEN v ELSE f[x]]
  OBVIOUS
<1>2. \A x \in D : g[x] = f[x]
  BY <1>1
<1>3. g = [x \in D |-> g[x]]
  BY <1>1
<1>4. f = [x \in D |-> f[x]]
  OBVIOUS
<1> HIDE DEF g, D
<1>5. g = f
  BY <1>2, <1>3, <1>4
<1> QED BY <1>5 DEF g

LEMMA RecordFillStep ==
  ASSUME BudgetInv, StopInv', NEW t \in DOMAIN traded, NEW named, NEW fair, P!RecordFill(t, named, fair)
  PROVE  BudgetInv'
<1> DEFINE f == P!FillRow(t, named, fair)
           seen == P!Stored(log, t)
           tentative == IF seen = {} THEN Append(log, f) ELSE log
           stop == P!Latched(tentative, f)
           filled == [f EXCEPT !.stop = stop, !.trigger = IF stop = "none" THEN 0 ELSE Len(log) + 1]
           halted == [kind |-> "halted", stop |-> stop, trigger |-> CHOOSE n \in seen : TRUE]
<1>0. IsSeq(log)
  BY DEF BudgetInv, StopInv
<1>1. UNCHANGED <<traded, pilotSigned, legacy, dead>>
  BY DEF P!RecordFill
<1>2. \/ seen = {} /\ log' = Append(log, filled)
      \/ seen # {} /\ stop # "none" /\ log' = Append(log, halted)
      \/ log' = log
  BY DEF P!RecordFill, P!Written
<1>3. /\ filled.kind = "fill" /\ filled.stop = stop /\ f.kind = "fill"
      /\ filled.tid = t /\ filled.order = traded[t].order /\ filled.sz = traded[t].sz
      /\ filled.px = traded[t].px /\ filled.net = traded[t].net
      /\ filled.trigger = IF stop = "none" THEN 0 ELSE Len(log) + 1
      /\ halted.kind = "halted" /\ halted.stop = stop /\ halted.trigger = CHOOSE n \in seen : TRUE
  BY DEF P!FillRow
<1>4. stop = "none" => filled = f
  <2>1. f = [x \in DOMAIN f |-> f[x]] /\ f.stop = "none" /\ f.trigger = 0
    BY DEF P!FillRow
  <2> HIDE DEF f, stop
  <2>2. [f EXCEPT !.stop = "none"] = f /\ [f EXCEPT !.trigger = 0] = f
    BY <2>1, SameField
  <2>3. [f EXCEPT !.stop = "none", !.trigger = 0] = f
    BY <2>2
  <2> QED BY <2>3
<1>5. stop # "none" => P!Stops(tentative) = {} /\ P!Authorities(tentative) # {}
  BY DEF P!Latched
<1>6. stop # "none" => P!Stops(log) = {} /\ P!Authorities(log) # {}
  <2>1. CASE seen = {}
    <3>1. Follows(log, f, tentative)
      BY <1>0, <2>1 DEF Follows
    <3> HIDE DEF f, tentative, stop
    <3>2. P!Stops(log) \subseteq P!Stops(tentative) /\ P!Authorities(tentative) = P!Authorities(log)
      BY <1>3, <3>1, StopsOf, AuthorityStays
    <3> QED BY <1>5, <3>2
  <2>2. CASE seen # {}
    BY <1>5, <2>2
  <2> QED BY <2>1, <2>2
<1>7. seen = {} => P!Stored(log, filled.tid) = {}
  BY <1>3
<1>8. CASE seen = {} /\ log' = Append(log, filled)
  <2>1. Follows(log, filled, log')
    BY <1>0, <1>8 DEF Follows
  <2>2. CASE stop = "none"
    <3>1. P!Latched(log', f) = "none"
      BY <1>4, <1>8, <2>2
    <3> HIDE DEF f, stop, filled, seen, tentative
    <3>2. StopsHold'
      BY <1>3, <2>1, <2>2, NoStopAdded DEF BudgetInv
    <3>3. OpenHolds'
      <4>1. CASE P!Stops(log') = {}
        <5>1. Consistent(log')
          BY <1>3, <2>1, ConsistentStays DEF BudgetInv
        <5> QED BY <3>1, <4>1, <5>1, OpenAfterFill
      <4>2. CASE P!Stops(log') # {}
        BY <4>2 DEF OpenHolds
      <4> QED BY <4>1, <4>2
    <3> QED BY <1>1, <1>3, <1>7, <1>8, <2>1, <3>2, <3>3, FillRowStep
  <2>3. CASE stop # "none"
    <3> HIDE DEF f, stop, filled, seen, tentative
    <3>1. StopsHold'
      BY <1>3, <1>6, <2>1, <2>3, StopAdded DEF BudgetInv
    <3>2. Len(log) + 1 \in P!Stops(log')
      BY <1>3, <2>1, <2>3, StopsOf DEF StopRows
    <3>3. OpenHolds'
      BY <3>2 DEF OpenHolds
    <3> QED BY <1>1, <1>3, <1>7, <1>8, <2>1, <3>1, <3>3, FillRowStep
  <2> QED BY <2>2, <2>3
<1>9. CASE seen # {} /\ stop # "none" /\ log' = Append(log, halted)
  <2>1. Follows(log, halted, log')
    BY <1>0, <1>9 DEF Follows
  <2>2. halted.trigger \in FillRows
    BY <1>9 DEF P!Stored, FillRows
  <2> HIDE DEF f, stop, halted, seen, tentative
  <2>3. StopsHold'
    BY <1>3, <1>6, <1>9, <2>1, <2>2, StopAdded DEF BudgetInv
  <2>4. RowMayFollow(halted)
    BY <1>3 DEF RowMayFollow
  <2> QED BY <1>1, <1>3, <2>1, <2>3, <2>4, RowStep
<1>10. CASE log' = log
  <2>1. LegacyHolds'
    BY <1>1, <1>10 DEF BudgetInv, LegacyHolds
  <2> QED BY <1>1, <1>10, <2>1, StillStep
<1> QED BY <1>2, <1>8, <1>9, <1>10

LEMMA ConsentActions ==
  ASSUME BudgetInv, StopInv', P!Authorize \/ P!ReviewLegacy \/ P!Adopt \/ P!ConfirmAuthorization
  PROVE  BudgetInv'
<1>0. IsSeq(log)
  BY DEF BudgetInv, StopInv
<1>1. CASE log' = log /\ UNCHANGED <<pilotSigned, traded, dead, legacy>>
  <2>1. LegacyHolds'
    BY <1>1 DEF BudgetInv, LegacyHolds
  <2> QED BY <1>1, <2>1, StillStep
<1>2. ASSUME NEW row, log' = Append(log, row), row.kind = "authorized", row.baseline = Len(log),
             P!Authorities(log) = {}, UNCHANGED <<traded, pilotSigned, legacy, dead>>
      PROVE  BudgetInv'
  <2>1. Follows(log, row, log')
    BY <1>0, <1>2 DEF Follows
  <2> QED BY <1>2, <2>1, ConsentStep
<1>3. CASE P!Authorize
  <2>1. UNCHANGED <<traded, pilotSigned, legacy, dead>>
    BY <1>3 DEF P!Authorize
  <2>2. log' = log \/ (P!Authorities(log) = {} /\ log' = Append(log, P!Consent(P!Now, 0)))
    BY <1>3 DEF P!Authorize, P!Written
  <2>3. P!Consent(P!Now, 0).kind = "authorized" /\ P!Consent(P!Now, 0).baseline = Len(log)
    BY DEF P!Consent
  <2> QED BY <1>1, <1>2, <2>1, <2>2, <2>3
<1>4. CASE P!ReviewLegacy
  <2>1. UNCHANGED <<log, traded, pilotSigned, dead>>
    BY <1>4 DEF P!ReviewLegacy
  <2>2. P!Authorities(log) # {} /\ P!ConsentRows(log) = {}
    BY <1>4 DEF P!ReviewLegacy
  <2>3. ~log[P!Authority(log)].signed
    BY <2>2 DEF P!ConsentRows, P!Authority
  <2>4. LegacyHolds'
    BY <2>1, <2>2, <2>3 DEF LegacyHolds
  <2> QED BY <2>1, <2>4, StillStep
<1>5. CASE P!Adopt
  <2> DEFINE row == [kind |-> "adopted", head |-> legacy.baseline, route |-> route]
  <2>1. UNCHANGED <<traded, pilotSigned, legacy, dead>>
    BY <1>5 DEF P!Adopt
  <2>2. \/ log' = log
        \/ P!Adoptions(log) = {} /\ legacy.baseline = Len(log) /\ log' = Append(log, row)
    BY <1>5 DEF P!Adopt, P!Written
  <2>3. P!Authorities(log) # {} /\ ~log[P!Authority(log)].signed
    BY <1>5 DEF P!Adopt, BudgetInv, LegacyHolds
  <2>4. row.kind = "adopted" /\ row.head = legacy.baseline
    OBVIOUS
  <2> HIDE DEF row
  <2>5. CASE P!Adoptions(log) = {} /\ legacy.baseline = Len(log) /\ log' = Append(log, row)
    <3>1. Follows(log, row, log')
      BY <1>0, <2>5 DEF Follows
    <3>2. Consistent(log')
      BY <2>3, <2>4, <2>5, <3>1, AdoptionAdded DEF BudgetInv
    <3>3. RowMayFollow(row)
      BY <2>4 DEF RowMayFollow
    <3> QED BY <2>1, <2>4, <3>1, <3>2, <3>3, RowStep
  <2> QED BY <1>1, <2>1, <2>2, <2>5
<1>6. CASE P!ConfirmAuthorization
  <2> DEFINE row == [P!Consent(desk.review.at, desk.launches) EXCEPT !.baseline = desk.review.baseline]
  <2>1. UNCHANGED <<traded, pilotSigned, legacy, dead>>
    BY <1>6 DEF P!ConfirmAuthorization
  <2>2. log' = log \/ log' = Append(log, row)
    BY <1>6 DEF P!ConfirmAuthorization
  <2>3. P!Authorities(log) = {} /\ Len(log) = desk.review.baseline
    BY <1>6 DEF P!ConfirmAuthorization, P!StillObserved, P!Unused
  <2>4. row.kind = "authorized" /\ row.baseline = desk.review.baseline
    BY DEF P!Consent
  <2> HIDE DEF row
  <2> QED BY <1>1, <1>2, <2>1, <2>2, <2>3, <2>4
<1> QED BY <1>3, <1>4, <1>5, <1>6

LEMMA OrderActions ==
  ASSUME BudgetInv, StopInv',
         \/ P!Regrant
         \/ \E o \in Orders : P!Begin(o) \/ P!Resolve(o) \/ P!Die(o)
         \/ \E kind \in {"policy", "activated", "released"} : P!OtherRow(kind)
  PROVE  BudgetInv'
<1>0. IsSeq(log)
  BY DEF BudgetInv, StopInv
<1>1. ASSUME NEW row, log' = Append(log, row), UNCHANGED <<traded, pilotSigned, legacy>>, dead \subseteq dead',
             row.kind \notin {"authorized", "adopted", "fill", "halted"}, RowMayFollow(row)
      PROVE  BudgetInv'
  <2>1. Follows(log, row, log')
    BY <1>0, <1>1 DEF Follows
  <2> QED BY <1>1, <2>1, RowStep
<1>2. CASE P!Regrant
  <2>1. UNCHANGED <<traded, pilotSigned, legacy, dead>> /\ log' = Append(log, [kind |-> "granted"])
    BY <1>2 DEF P!Regrant, P!Written
  <2>2. RowMayFollow([kind |-> "granted"])
    BY DEF RowMayFollow
  <2> QED BY <1>1, <2>1, <2>2
<1>3. ASSUME NEW o \in Orders, P!Begin(o) PROVE BudgetInv'
  <2> DEFINE row == [kind |-> "started", order |-> o, route |-> route]
  <2>1. UNCHANGED <<traded, pilotSigned, legacy, dead>> /\ log' = Append(log, row) /\ P!Starts(log, o) = {}
    BY <1>3 DEF P!Begin, P!Written
  <2>2. RowMayFollow(row)
    BY <2>1, FilledWasStarted DEF RowMayFollow, BudgetInv
  <2> QED BY <1>1, <2>1, <2>2
<1>4. ASSUME NEW o \in Orders, P!Resolve(o) PROVE BudgetInv'
  <2>1. PICK how \in {"not_sent", "rejected", "observed"} :
          /\ how = "not_sent" <=> o \notin pilotSigned
          /\ how = "rejected" => o \in dead /\ \A i \in DOMAIN traded : traded[i].order # o
          /\ dead' = IF how = "not_sent" THEN dead \cup {o} ELSE dead
          /\ log' = Append(log, [kind |-> "resolved", order |-> o, how |-> how])
    BY <1>4 DEF P!Resolve, P!Written
  <2>2. UNCHANGED <<traded, pilotSigned, legacy>> /\ dead \subseteq dead'
    BY <1>4, <2>1 DEF P!Resolve
  <2>3. o # 0 /\ \A i \in DOMAIN traded : traded[i].order # 0 => traded[i].order \in pilotSigned
    BY PilotAssumption DEF BudgetInv, MarketHolds
  <2>4. RowMayFollow([kind |-> "resolved", order |-> o, how |-> how])
    BY <2>1, <2>3 DEF RowMayFollow
  <2> QED BY <1>1, <2>1, <2>2, <2>4
<1>5. ASSUME NEW o \in Orders, P!Die(o) PROVE BudgetInv'
  <2>1. UNCHANGED <<log, pilotSigned, traded, legacy>> /\ dead \subseteq dead'
    BY <1>5 DEF P!Die
  <2>2. LegacyHolds'
    BY <2>1 DEF BudgetInv, LegacyHolds
  <2> QED BY <2>1, <2>2, StillStep
<1>6. ASSUME NEW kind \in {"policy", "activated", "released"}, P!OtherRow(kind) PROVE BudgetInv'
  <2>1. UNCHANGED <<traded, pilotSigned, legacy, dead>> /\ log' = Append(log, [kind |-> kind])
    BY <1>6 DEF P!OtherRow, P!Written
  <2>2. RowMayFollow([kind |-> kind])
    BY DEF RowMayFollow
  <2> QED BY <1>1, <2>1, <2>2
<1> QED BY <1>2, <1>3, <1>4, <1>5, <1>6

-----------------------------------------------------------------------------
(* A signature *)

FillsOf(p) == {n \in P!Fills(log) : log[n].order = p}
Tids == [n \in DOMAIN log |-> log[n].tid]

LEMMA FillTerms ==
  ASSUME MarketHolds, FillsHold, NEW n \in P!Fills(log)
  PROVE  /\ n \in DOMAIN log /\ n \in FillRows
         /\ log[n].tid \in DOMAIN traded /\ Tids[n] = log[n].tid
         /\ log[n].order = traded[log[n].tid].order
         /\ Sizes(log)[n] = 1 /\ Costs(log)[n] \in Nat
         /\ Costs(log)[n] = traded[log[n].tid].px
<1>1. n \in DOMAIN log /\ n \in FillRows
  BY DEF P!Fills, P!Rows, FillRows
<1>2. PICK i \in DOMAIN traded : i = log[n].tid
  BY <1>1 DEF FillsHold
<1>3. /\ log[n].order = traded[i].order /\ log[n].sz = traded[i].sz /\ log[n].px = traded[i].px
  BY <1>1, <1>2 DEF FillsHold
<1>4. traded[i] \in TradeRow
  BY <1>2 DEF MarketHolds
<1>5. traded[i].sz = 1 /\ traded[i].px \in Nat
  BY <1>4, PilotAssumption DEF TradeRow
<1>6. Costs(log)[n] = log[n].px * log[n].sz /\ Sizes(log)[n] = log[n].sz /\ Tids[n] = log[n].tid
  BY <1>1 DEF Costs, Sizes, Tids
<1> QED BY <1>1, <1>2, <1>3, <1>5, <1>6

(* What was traded and not yet recorded is covered by what is reserved. *)
LEMMA TradedWithinRecorded ==
  ASSUME IsSeq(log), MarketHolds, FillsHold, NEW p \in Orders
  PROVE  /\ IsFiniteSet(FillsOf(p))
         /\ Total(Costs(log), FillsOf(p)) \in Nat /\ Total(Sizes(log), FillsOf(p)) \in Nat
         /\ Total(Sizes(log), FillsOf(p)) <= P!TradedOf(p)
         /\ P!TradedValue(p) + Value[p] * Total(Sizes(log), FillsOf(p))
              <= Total(Costs(log), FillsOf(p)) + Value[p] * P!TradedOf(p)
<1>1. PICK T \in Seq(TradeRow) : T = traded
  BY DEF MarketHolds
<1>2. PICK v \in Nat : v = Value[p]
  BY PilotAssumption
<1> DEFINE rows == FillsOf(p)
           deals == TradesOf(T, p)
           cost == Costs(log)
           size == Sizes(log)
           mark == AtMost(T, p)
           unit == Sizes(T)
           saved == [n \in rows |-> v - cost[n]]
           spared == [i \in deals |-> v - mark[i]]
           full == [n \in rows |-> v]
           whole == [i \in deals |-> v]
<1>3. rows \subseteq P!Fills(log) /\ rows \in SUBSET DOMAIN log
  BY DEF FillsOf, P!Fills, P!Rows
<1>4. IsFiniteSet(rows) /\ IsFiniteSet(deals)
  BY <1>3, LogFinite, TradeTerms
<1>5. \A n \in rows : /\ size[n] = 1 /\ cost[n] \in Nat
                   /\ Tids[n] \in deals /\ cost[n] = T[Tids[n]].px
  <2> TAKE n \in rows
  <2>1. n \in P!Fills(log) /\ log[n].order = p
    BY DEF FillsOf
  <2> QED BY <1>1, <2>1, FillTerms DEF TradesOf
<1>6. \A i \in deals : unit[i] = 1 /\ mark[i] \in Nat /\ mark[i] <= v /\ mark[i] <= T[i].px
  <2>1. deals \subseteq DOMAIN T
    BY DEF TradesOf
  <2> QED BY <1>2, <2>1, TradeTerms
<1>7. \A r, s \in rows : r # s => Tids[r] # Tids[s]
  <2>1. \A n \in rows : n \in FillRows /\ Tids[n] = log[n].tid
    BY <1>3, FillTerms
  <2> QED BY <2>1 DEF FillsHold
<1>8. P!TradedOf(p) = Total(unit, deals) /\ P!TradedValue(p) = Total(mark, deals)
  BY <1>1, TradesSummedIs DEF TradesSummed
<1> HIDE DEF rows, deals, cost, size, mark, unit
<1>9. /\ Total(cost, rows) \in Nat /\ Total(size, rows) \in Nat
      /\ Total(mark, deals) \in Nat /\ Total(unit, deals) \in Nat
  BY <1>4, <1>5, <1>6, TotalIsNat
<1>10. Total(size, rows) <= Total(unit, deals)
  <2>1. \A n \in rows : size[n] \in Int /\ (size[n] <= 0 \/ (Tids[n] \in deals /\ size[n] <= unit[Tids[n]]))
    BY <1>5, <1>6
  <2>2. \A i \in deals : unit[i] \in Nat
    BY <1>6
  <2> QED BY <1>4, <1>7, <2>1, <2>2, TotalWithin
<1>11. Total(saved, rows) <= Total(spared, deals)
  <2>1. \A n \in rows : saved[n] \in Int /\ (saved[n] <= 0 \/ (Tids[n] \in deals /\ saved[n] <= spared[Tids[n]]))
    BY <1>5, <1>6
  <2>2. \A i \in deals : spared[i] \in Nat
    BY <1>6
  <2> HIDE DEF saved, spared
  <2> QED BY <1>4, <1>7, <2>1, <2>2, TotalWithin
<1>12. Total(full, rows) = Total(saved, rows) + Total(cost, rows) /\ Total(saved, rows) \in Int
  <2>1. \A n \in rows : saved[n] \in Int /\ cost[n] \in Int /\ full[n] = saved[n] + cost[n]
    BY <1>5
  <2> HIDE DEF saved, full
  <2> QED BY <1>4, <2>1, TotalAdds, TotalIsInt
<1>13. Total(whole, deals) = Total(spared, deals) + Total(mark, deals) /\ Total(spared, deals) \in Int
  <2>1. \A i \in deals : spared[i] \in Int /\ mark[i] \in Int /\ whole[i] = spared[i] + mark[i]
    BY <1>6
  <2> HIDE DEF spared, whole
  <2> QED BY <1>4, <2>1, TotalAdds, TotalIsInt
<1>14. Total(full, rows) = v * Total(size, rows)
  <2>1. Scales(rows, v, size, full)
    BY <1>5 DEF Scales
  <2> HIDE DEF full
  <2> QED BY <1>4, <2>1, TotalScales
<1>15. Total(whole, deals) = v * Total(unit, deals)
  <2>1. Scales(deals, v, unit, whole)
    BY <1>6 DEF Scales
  <2> HIDE DEF whole
  <2> QED BY <1>4, <2>1, TotalScales
<1>16. Total(mark, deals) + v * Total(size, rows) <= Total(cost, rows) + v * Total(unit, deals)
  <2> HIDE DEF saved, spared, full, whole
  <2>1. v * Total(size, rows) = Total(saved, rows) + Total(cost, rows)
    BY <1>12, <1>14
  <2>2. v * Total(unit, deals) = Total(spared, deals) + Total(mark, deals)
    BY <1>13, <1>15
  <2> QED BY <1>9, <1>11, <1>12, <1>13, <2>1, <2>2
<1> QED BY <1>2, <1>4, <1>8, <1>9, <1>10, <1>16 DEF rows, cost, size

LEMMA Spread == \A a, b, c \in Nat : (a - b) * c = c * a - c * b
OBVIOUS

(* What is permitted covers every order of the pilot, and the one signed. *)
LEMMA PermittedIsWithin ==
  ASSUME BudgetInv, MarketHolds', P!Authorities(log) # {}, P!Halt(log) = "none",
         P!Executed(log, P!Fills(log)) + P!Reserved(log) + 0 <= ExecutedLimit,
         NEW o \in Orders, ~P!Released(log, o),
         UNCHANGED <<log, traded, dead>>, pilotSigned' = pilotSigned \cup {o}
  PROVE  P!WithinBudget'
<1> DEFINE Reserve(p) == IF P!Released(log, p) THEN 0 ELSE Open(log)[p]
<1>0. IsSeq(log) /\ StopInv /\ MarketHolds /\ FillsHold /\ OrdersHold
  BY DEF BudgetInv, StopInv
<1>1. \A n \in P!Fills(log) : P!Linked(log, n)
  <2>1. P!Stops(log) = {}
    BY <1>0, StoppedIsHalted
  <2> QED BY <2>1 DEF P!Halt
<1>2. PICK K \in SUBSET Orders : K = P!Allocated(log) /\ IsFiniteSet(K)
  BY <1>0, AllocatedIsFinite DEF P!Allocated
<1>3. PICK S : S = P!Fills(log) /\ IsFiniteSet(S) /\ S \in SUBSET DOMAIN log
  BY <1>0, LogFinite, RowsAreRows DEF P!Fills
<1>4. \A n \in S : log[n].order \in K /\ Costs(log)[n] \in Nat
  BY <1>0, <1>1, <1>2, <1>3, FillTerms DEF P!Linked
<1>5. PICK X : X = [p \in K |-> Total(Costs(log), FillsOf(p))]
  OBVIOUS
<1>6. PICK R : R = [p \in K |-> Reserve(p)]
  OBVIOUS
<1>7. \A p \in K : /\ P!FilledBy(log, p) = Total(Sizes(log), FillsOf(p))
                   /\ P!FilledBy(log, p) \in Nat /\ P!TradedOf(p) \in Nat /\ P!TradedValue(p) \in Nat
                   /\ P!FilledBy(log, p) <= P!TradedOf(p) /\ P!TradedOf(p) <= Size[p]
                   /\ Size[p] \in Nat /\ Value[p] \in Nat /\ X[p] \in Nat
                   /\ P!TradedValue(p) + Value[p] * P!FilledBy(log, p) <= X[p] + Value[p] * P!TradedOf(p)
  <2> TAKE p \in K
  <2>1. FilledRows(log, p) = FillsOf(p)
    BY <1>1 DEF FilledRows, FillsOf
  <2>2. P!FilledBy(log, p) = Total(Sizes(log), FillsOf(p))
    BY <2>1, FilledIs
  <2>3. P!TradedOf(p) \in Nat /\ P!TradedValue(p) \in Nat /\ P!TradedOf(p) <= Size[p]
    BY <1>0, ExposedIs DEF ExposedTyped
  <2>4. X[p] = Total(Costs(log), FillsOf(p))
    BY <1>5
  <2> QED BY <1>0, <2>2, <2>3, <2>4, TradedWithinRecorded, PilotAssumption
<1>8. \A p \in K : Open(log)[p] = (Size[p] - P!FilledBy(log, p)) * Value[p] /\ Open(log)[p] \in Nat
  <2> TAKE p \in K
  <2>1. Open(log)[p] = (Size[p] - P!FilledBy(log, p)) * Value[p]
    BY DEF Open
  <2>2. Size[p] - P!FilledBy(log, p) \in Nat /\ Value[p] \in Nat
    BY <1>7
  <2> QED BY <2>1, <2>2, ProductIsNat
<1>9. Total(X, K) = P!Executed(log, P!Fills(log))
  <2>1. PICK f : f = Costs(log)
    OBVIOUS
  <2>2. PICK G : G = [p \in K |-> FillsOf(p)]
    OBVIOUS
  <2>3. \A p \in K : X[p] = Total(f, G[p]) /\ G[p] = {n \in S : log[n].order = p}
    BY <1>3, <1>5, <2>1, <2>2 DEF FillsOf
  <2>4. Divides(G, K, S)
    BY <1>4, <2>3 DEF Divides
  <2>5. Total(X, K) = Total(f, S)
    <3>1. \A n \in S : f[n] \in Int
      BY <1>4, <2>1
    <3>2. \A p \in K : X[p] = Total(f, G[p])
      BY <2>3
    <3> QED BY <1>2, <1>3, <2>4, <3>1, <3>2, TotalByKey
  <2>6. P!Executed(log, S) = Total(Costs(log), S)
    BY <1>3, ExecutedIs
  <2> QED BY <1>3, <2>1, <2>5, <2>6
<1>10. \A p \in K : R[p] \in Nat /\ R[p] = Reserve(p)
  BY <1>6, <1>8
<1>11. Total(R, K) <= P!Reserved(log) /\ P!Reserved(log) \in Nat
  <2>1. PICK U \in SUBSET K : U = Unreleased(log)
    BY <1>2 DEF Unreleased
  <2>2. PICK g : g = Open(log)
    OBVIOUS
  <2>3. PICK b : b = [p \in K |-> p]
    OBVIOUS
  <2>4. IsFiniteSet(U)
    BY <1>2, FS_Subset
  <2>5. \A p \in U : g[p] \in Nat
    BY <1>8, <2>2
  <2>6. \A p \in K : R[p] \in Int /\ (R[p] <= 0 \/ (b[p] \in U /\ R[p] <= g[b[p]]))
    BY <1>2, <1>8, <1>10, <2>1, <2>2, <2>3 DEF Unreleased
  <2>7. \A p, q \in K : p # q => b[p] # b[q]
    BY <2>3
  <2>8. Total(R, K) <= Total(g, U)
    BY <1>2, <2>4, <2>5, <2>6, <2>7, TotalWithin
  <2>9. Total(g, U) \in Nat
    BY <2>4, <2>5, TotalIsNat
  <2>10. P!Reserved(log) = Total(g, U)
    BY <2>1, <2>2, ReservedIs
  <2> QED BY <2>8, <2>9, <2>10
<1>12. PICK h : h = [p \in K |-> X[p] + R[p]]
  OBVIOUS
<1>13. Total(h, K) = Total(X, K) + Total(R, K) /\ Total(h, K) \in Nat /\ Total(X, K) \in Nat /\ Total(R, K) \in Nat
  <2>1. \A p \in K : X[p] \in Int /\ R[p] \in Int /\ h[p] = X[p] + R[p]
    BY <1>7, <1>10, <1>12
  <2>2. \A p \in K : X[p] \in Nat /\ R[p] \in Nat /\ h[p] \in Nat
    BY <1>7, <1>10, <1>12
  <2> QED BY <1>2, <2>1, <2>2, TotalAdds, TotalIsNat
<1>14. PICK E : E = Exposures'
  OBVIOUS
<1>15. PICK S2 : S2 = P!PilotOrders' /\ S2 \subseteq K
  BY <1>2 DEF P!PilotOrders
<1>16. ASSUME NEW p \in S2 PROVE E[p] \in Nat /\ E[p] <= h[p]
  <2>1. p \in K /\ p \in Orders /\ p \in pilotSigned'
    BY <1>2, <1>15 DEF P!PilotOrders
  <2>2. E[p] = P!Exposed(p)'
    BY <1>14, <2>1 DEF Exposures
  <2>3. /\ P!Exposed(p)' = P!TradedValue(p)' + (IF p \in pilotSigned' \ dead' THEN Remaining(p)' ELSE 0)
        /\ P!Exposed(p)' \in Nat /\ Remaining(p)' \in Nat
    BY <2>1, ExposedNext DEF ExposedTyped
  <2>4. P!TradedValue(p)' = P!TradedValue(p) /\ P!TradedOf(p)' = P!TradedOf(p)
    BY SummedNext, TradesSummedIs DEF TradesSummed
  <2>5. CASE P!Released(log, p)
    <3>1. p \notin pilotSigned' \ dead'
      BY <1>0, <2>1, <2>5 DEF OrdersHold
    <3>2. TradesOf(traded, p) = {}
      BY <1>0, <2>1, <2>5 DEF OrdersHold, TradesOf
    <3>3. P!TradedValue(p) = 0
      BY <3>2, TradesSummedIs, TotalOfNone DEF TradesSummed
    <3>4. h[p] \in Nat
      BY <1>7, <1>10, <1>12, <2>1
    <3> QED BY <2>2, <2>3, <2>4, <3>1, <3>3, <3>4
  <2>6. CASE ~P!Released(log, p)
    <3>1. PICK s \in Nat, v \in Nat, n \in Nat, k \in Nat, x \in Nat, w \in Nat :
             /\ s = Size[p] /\ v = Value[p] /\ n = P!TradedOf(p) /\ k = P!FilledBy(log, p)
             /\ x = X[p] /\ w = P!TradedValue(p)
      BY <1>7, <2>1
    <3>2. k <= n /\ n <= s /\ w + v * k <= x + v * n
      BY <1>7, <2>1, <3>1
    <3>3. Remaining(p)' = (s - n) * v /\ R[p] = (s - k) * v /\ h[p] = x + R[p]
      BY <1>8, <1>10, <1>12, <2>1, <2>4, <2>6, <3>1 DEF Remaining
    <3>4. w + (s - n) * v <= x + (s - k) * v
      <4>1. (s - n) * v = v * s - v * n /\ (s - k) * v = v * s - v * k
        BY Spread
      <4>2. v * s \in Nat /\ v * n \in Nat /\ v * k \in Nat
        BY ProductIsNat
      <4> QED BY <3>2, <4>1, <4>2
    <3>5. E[p] <= w + (s - n) * v
      BY <2>2, <2>3, <2>4, <3>1, <3>3
    <3>6. (s - n) * v \in Int /\ (s - k) * v \in Int
      BY Distributes
    <3> QED BY <2>2, <2>3, <3>3, <3>4, <3>5, <3>6
  <2> QED BY <2>5, <2>6
<1>17. Total(E, S2) <= Total(h, K) /\ Total(E, S2) \in Nat
  <2>1. IsFiniteSet(S2)
    BY <1>2, <1>15, FS_Subset
  <2>2. PICK b : b = [p \in K |-> p]
    OBVIOUS
  <2>3. \A p \in S2 : E[p] \in Int /\ (E[p] <= 0 \/ (b[p] \in K /\ E[p] <= h[b[p]]))
    BY <1>15, <1>16, <2>2
  <2>4. \A p \in K : h[p] \in Nat
    BY <1>7, <1>10, <1>12
  <2>5. \A p, q \in S2 : p # q => b[p] # b[q]
    BY <1>15, <2>2
  <2>6. Total(E, S2) <= Total(h, K)
    BY <1>2, <2>1, <2>3, <2>4, <2>5, TotalWithin
  <2> QED BY <1>16, <2>1, <2>6, TotalIsNat
<1>18. Total(E, S2) <= ExecutedLimit
  BY <1>9, <1>11, <1>13, <1>17, PilotAssumption
<1> QED BY <1>14, <1>15, <1>18, SummedNext DEF ExposureSum

LEMMA BudgetSignStep ==
  ASSUME BudgetInv, StopInv', NEW o \in Orders, P!Sign(o)
  PROVE  BudgetInv'
<1>1. /\ UNCHANGED <<log, traded, dead, legacy>> /\ pilotSigned' = pilotSigned \cup {o}
      /\ P!Pending(log, o) /\ \E n \in P!Starts(log, o) : P!BeforeSign(o, log[n].route)
  BY DEF P!Sign
<1>2. P!Starts(log, o) # {} /\ ~P!Released(log, o)
  BY <1>1 DEF P!Pending, P!Released
<1>3. MarketHolds'
  <2>1. pilotSigned \subseteq Orders
    BY DEF BudgetInv, MarketHolds
  <2> QED BY <1>1, <2>1, MarketStays DEF BudgetInv
<1>4. P!WithinBudget'
  <2>1. CASE P!Authorities(log) = {}
    <3>1. P!PilotOrders' = {}
      BY <1>1, <2>1 DEF P!PilotOrders
    <3> QED BY <3>1, SummedNext, TotalOfNone, PilotAssumption DEF ExposureSum
  <2>2. CASE P!Authorities(log) # {}
    <3>1. P!Permitted(log, 0)
      BY <1>1, <2>2 DEF P!BeforeSign
    <3> QED BY <1>1, <1>2, <1>3, <2>2, <3>1, PermittedIsWithin DEF P!Permitted
  <2> QED BY <2>1, <2>2
<1>5. OrdersHold'
  BY <1>1, <1>2 DEF BudgetInv, OrdersHold
<1>6. FillsHold' /\ Consistent(log') /\ LegacyHolds' /\ StopsHold' /\ OpenHolds'
  BY <1>1 DEF BudgetInv, FillsHold, LegacyHolds, StopsHold, OpenHolds, FillRows
<1> QED BY <1>3, <1>4, <1>5, <1>6 DEF BudgetInv

LEMMA BudgetInit == P!Init => BudgetInv
<1> SUFFICES ASSUME P!Init PROVE BudgetInv
  OBVIOUS
<1> DEFINE row == [kind |-> "authorized", signed |-> FALSE, at |-> 1, baseline |-> 0, route |-> 0, by |-> 0]
<1>1. /\ log = <<>> \/ log = <<row>>
      /\ pilotSigned = {} /\ traded = <<>> /\ legacy = P!NoReview
  BY DEF P!Init
<1>2. row.kind = "authorized" /\ row.baseline = 0
  OBVIOUS
<1> HIDE DEF row
<1>3. DOMAIN log \subseteq {1} /\ (1 \in DOMAIN log => log[1] = row)
  BY <1>1
<1>4. \A kinds : "authorized" \notin kinds => P!Rows(log, kinds) = {}
  BY <1>2, <1>3 DEF P!Rows
<1>5. /\ FillRows = {} /\ P!Rows(log, {"resolved"}) = {} /\ P!Adoptions(log) = {}
      /\ P!Rows(log, {"halted", "fill"}) = {} /\ P!Rows(log, {"fill"}) = {}
      /\ P!Rows(log, {"started"}) = {}
  BY <1>4 DEF FillRows, P!Adoptions
<1>6. \A n \in P!Authorities(log) : n = 1 /\ log[n].baseline = n - 1
  BY <1>2, <1>3 DEF P!Authorities, P!Rows
<1>7. MarketHolds
  <2>1. \A o : TradesOf(traded, o) = {}
    BY <1>1 DEF TradesOf
  <2>2. \A o \in Orders : P!TradedOf(o) = 0 /\ 0 <= Size[o]
    BY <2>1, TradesSummedIs, TotalOfNone, PilotAssumption DEF TradesSummed
  <2> QED BY <1>1, <2>2 DEF MarketHolds
<1>8. FillsHold /\ OrdersHold
  BY <1>1, <1>5 DEF FillsHold, OrdersHold, P!Released, P!Resolutions
<1>9. Consistent(log) /\ LegacyHolds
  BY <1>1, <1>5, <1>6 DEF Consistent, LegacyHolds
<1>10. StopsHold /\ OpenHolds
  BY <1>5 DEF StopsHold, OpenHolds, P!Stops, P!Fills
<1>11. P!WithinBudget
  <2>1. P!PilotOrders = {}
    BY <1>1 DEF P!PilotOrders
  <2> QED BY <2>1, ExposureSumIs, TotalOfNone, PilotAssumption DEF ExposureSum
<1> QED BY <1>7, <1>8, <1>9, <1>10, <1>11, StopInit DEF BudgetInv

LEMMA BudgetNext == BudgetInv /\ P!Next => BudgetInv'
<1> SUFFICES ASSUME BudgetInv, P!Next PROVE BudgetInv'
  OBVIOUS
<1>0. StopInv'
  BY StopNext DEF BudgetInv, StopStep
<1>1. CASE P!Authorize \/ P!ReviewLegacy \/ P!Adopt \/ P!ConfirmAuthorization
  BY <1>0, <1>1, ConsentActions
<1>2. CASE \/ P!Regrant
           \/ \E o \in Orders : P!Begin(o) \/ P!Resolve(o) \/ P!Die(o)
           \/ \E kind \in {"policy", "activated", "released"} : P!OtherRow(kind)
  BY <1>0, <1>2, OrderActions
<1>3. CASE \E o \in Orders : P!Sign(o)
  <2>1. PICK o \in Orders : P!Sign(o)
    BY <1>3
  <2> QED BY <1>0, <2>1, BudgetSignStep
<1>4. CASE P!Trade
  BY <1>4, TradeStep
<1>5. CASE P!Deliver \/ P!DeliverMalformed
  <2>1. PICK t \in DOMAIN traded : \E named, fair \in BOOLEAN : P!RecordFill(t, named, fair)
    BY <1>5 DEF P!Deliver, P!DeliverMalformed
  <2> QED BY <1>0, <2>1, RecordFillStep
<1>6. CASE \/ P!Launch \/ P!Refuse \/ P!ShowExisting \/ P!Observe \/ P!ShowReview
           \/ \E command \in {"confirm", "discard", "reconcile"} : P!Ask(command)
           \/ P!Close \/ P!Discard \/ P!TakeConfirm \/ P!ConfirmRefused
           \/ P!Reconcile \/ P!StopRun \/ P!TaskDies \/ P!Teardown
  <2>1. P!Outcome(desk) \in {"committed", "absent", "unknown"}
    BY DEF P!Outcome
  <2>2. P!Reconcile => UNCHANGED <<log, pilotSigned, traded, dead, legacy>>
    BY <2>1 DEF P!Reconcile, P!Desk
  <2>3. UNCHANGED <<log, pilotSigned, traded, dead, legacy>>
    BY <1>6, <2>2 DEF P!Launch, P!Refuse, P!ShowExisting, P!Observe, P!ShowReview, P!Ask, P!Close,
       P!Discard, P!TakeConfirm, P!ConfirmRefused, P!StopRun, P!TaskDies, P!Teardown, P!Desk
  <2>4. LegacyHolds'
    BY <2>3 DEF BudgetInv, LegacyHolds
  <2> QED BY <2>3, <2>4, StillStep
<1> QED BY <1>1, <1>2, <1>3, <1>4, <1>5, <1>6 DEF P!Next

LEMMA BudgetStutter == BudgetInv /\ UNCHANGED pilotVars => BudgetInv'
<1> SUFFICES ASSUME BudgetInv, UNCHANGED pilotVars PROVE BudgetInv'
  OBVIOUS
<1>1. UNCHANGED <<log, pilotSigned, traded, dead, legacy>>
  BY DEF pilotVars
<1>2. LegacyHolds'
  BY <1>1 DEF BudgetInv, LegacyHolds
<1> QED BY <1>1, <1>2, StillStep

(* The pilot's journal, reservations and trades stay consistent through    *)
(* every order, late or repeated fill, consent, stop and crash: the ledger *)
(* admits a start only within what is left of the authorised budget        *)
(* (check_admission, check_authenticated_before_sign) and latches in the   *)
(* transaction that crosses a limit (latch_in_tx, ledger/pilot.rs), and    *)
(* each order's reservation covers what it may still trade and what of it  *)
(* is not yet recorded.                                                    *)
THEOREM BudgetInvariant == OrdersSpec => []BudgetInv
<1>1. OrdersInit => BudgetInv
  BY BudgetInit DEF OrdersInit
<1>2. BudgetInv /\ [OrdersNext]_<<focus, vars, pilotVars, approvalVars>> => BudgetInv'
  BY BudgetNext, BudgetStutter DEF OrdersNext
<1> QED BY <1>1, <1>2, PTL DEF OrdersSpec

(* A fill that crosses a limit is covered by a stop (latch_in_tx).         *)
LEMMA LatchFollows == BudgetInv => P!CrossingIsLatched
<1> SUFFICES ASSUME BudgetInv, P!Authorities(log) # {}, P!Halt(log) = "exhausted", P!Stops(log) = {}
             PROVE  FALSE
  BY DEF P!CrossingIsLatched
<1>1. \A n \in P!Fills(log) : ~P!Crosses(log, n)
  BY DEF BudgetInv, OpenHolds
<1> QED BY <1>1 DEF P!Halt

(* What was written under one authority is what a replay accepts (history, *)
(* ledger/pilot/authority.rs).                                             *)
LEMMA ReplayFollows == BudgetInv => P!HistoryReplays
<1> SUFFICES ASSUME BudgetInv, \A n \in P!Authorities(log), k \in P!Rows(log, {"fill"}) : k > n
             PROVE  P!History(log)
  BY DEF P!HistoryReplays
<1>1. ASSUME NEW n \in P!Stops(log) PROVE P!HaltLinked(log, n)
  <2>1. /\ P!Authorities(log) # {} /\ log[n].trigger \in FillRows
        /\ IF log[n].kind = "fill" THEN log[n].trigger = n ELSE log[n].trigger < n
    BY DEF BudgetInv, StopsHold
  <2>2. P!Authority(log) \in P!Authorities(log)
    BY <2>1 DEF P!Authority
  <2> QED BY <2>1, <2>2 DEF P!HaltLinked, FillRows
<1>2. Consistent(log) /\ \A m, n \in P!Stops(log) : m = n
  BY DEF BudgetInv, StopsHold
<1> QED BY <1>1, <1>2, Replays

(* For any limits, orders, prices, trades and faults: what the pilot's     *)
(* orders can have traded at the venue stays within the authorised budget, *)
(* recorded or not; a crossed limit is latched with the fill that crossed  *)
(* it; the pilot's rows replay; and under a durable stop nothing is        *)
(* signed, activated or released (ledger/pilot.rs, ledger/pilot/).         *)
THEOREM PilotIsSound == OrdersSpec => PilotSound
<1>1. BudgetInv => (focus = "pilot" => P!WithinBudget /\ P!CrossingIsLatched /\ P!HistoryReplays)
  BY LatchFollows, ReplayFollows DEF BudgetInv
<1> QED BY <1>1, BudgetInvariant, DurableStopHolds, PTL DEF PilotSound
=============================================================================
