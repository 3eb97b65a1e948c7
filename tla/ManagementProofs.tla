-------------------------- MODULE ManagementProofs --------------------------
(***************************************************************************)
(* Theorems about the management side.  ManagementGate: every number of    *)
(* clients, sources and slots, every rate and burst, every set of          *)
(* requests.  AuthReload: every set of documents, secret files, reloads,   *)
(* requests and sessions.                                                  *)
(***************************************************************************)
EXTENDS ManagementGate, AuthReload, FiniteSetTheorems, TLAPS

-----------------------------------------------------------------------------
(* The gates.                                                              *)

PCs == {"idle", "slot", "route", "auth", "compat", "mcp", "mcprate", "mcpauth", "handle"}

\* Requests past the gate, and those past MCP's own.
Past == {c \in Clients : req[c].pc \notin {"idle", "slot"}}
PastMcp == {c \in Clients : \/ req[c].pc \in {"mcprate", "mcpauth"}
                            \/ req[c].pc = "handle" /\ req[c].call.kind \in Mcp}

\* A request comes to MCP's gates only if it is one of MCP's.
Sorted(c) ==
    /\ req[c].pc \in {"mcp", "mcprate", "mcpauth"} => req[c].call.kind \in Mcp
    /\ req[c].pc \in {"auth", "compat"} => req[c].call.kind \notin Mcp

AllSorted == \A c \in Clients : Sorted(c)

\* Who holds a slot, and that there are not too many.
Slots ==
    /\ slots = Past /\ mcpSlots = PastMcp
    /\ IsFiniteSet(slots) /\ Cardinality(slots) <= MaxConcurrent

\* The inductive invariant.
GateInv == TypeOK /\ AllSorted /\ Slots

-----------------------------------------------------------------------------
(* Minima.                                                                 *)

LEMMA MinIs ==
    ASSUME NEW S \in SUBSET Nat, NEW m \in S, \A y \in S : m <= y
    PROVE  Min(S) \in S /\ \A y \in S : Min(S) <= y
  BY DEF Min

LEMMA MinPair ==
    ASSUME NEW a \in Nat, NEW b \in Nat
    PROVE  Min({a, b}) \in Nat /\ Min({a, b}) <= a /\ Min({a, b}) <= b
<1>1. CASE a <= b
  BY <1>1, MinIs
<1>2. CASE b <= a
  BY <1>2, MinIs
<1>3. QED
  BY <1>1, <1>2

LEMMA BudgetType ==
    ASSUME NEW left \in Nat \cup {Forever}
    PROVE  WaitBudget(left) \in Nat
<1>1. Asked \in Nat /\ MaxWait \in Nat /\ Forever \notin Nat
  BY GateAssumption
<1>2. CASE left = Forever
  <2>1. WaitBudget(left) = Min({Asked, MaxWait})
    BY <1>2, Zenon DEF WaitBudget
  <2>2. QED
    BY <1>1, <2>1, MinPair
<1>3. CASE left # Forever
  <2> DEFINE S == {Asked, MaxWait, left}
  <2>1. WaitBudget(left) = Min(S) /\ S \in SUBSET Nat
    BY <1>1, <1>3 DEF WaitBudget
  <2>2. \E m \in S : \A y \in S : m <= y
    BY <1>1, <1>3
  <2>3. Min(S) \in S
    BY <2>1, <2>2, MinIs
  <2>4. QED
    BY <2>1, <2>3
<1>4. QED
  BY <1>2, <1>3

-----------------------------------------------------------------------------
(* Requests.                                                               *)

LEMMA Fields ==
    ASSUME NEW r \in Requests
    PROVE  /\ r.pc \in PCs /\ r.call \in Calls /\ r.left \in Nat \cup {Forever}
           /\ r.ran \in Nat /\ r.reply \in {"none", "timeout"}
           /\ r.call.src \in Sources /\ r.call.kind \in Kinds
  BY DEF Requests, Calls, PCs

LEMMA SetPc ==
    ASSUME NEW r \in Requests, NEW p \in PCs
    PROVE  /\ [r EXCEPT !.pc = p] \in Requests
           /\ [r EXCEPT !.pc = p].pc = p /\ [r EXCEPT !.pc = p].call = r.call
  BY DEF Requests, PCs

LEMMA SetPcLeft ==
    ASSUME NEW r \in Requests, NEW p \in PCs, NEW n \in Nat \cup {Forever}
    PROVE  /\ [r EXCEPT !.pc = p, !.left = n] \in Requests
           /\ [r EXCEPT !.pc = p, !.left = n].pc = p
           /\ [r EXCEPT !.pc = p, !.left = n].call = r.call
  BY DEF Requests, PCs

LEMMA SetTimes ==
    ASSUME NEW r \in Requests, NEW n \in Nat \cup {Forever}, NEW m \in Nat
    PROVE  /\ [r EXCEPT !.left = n, !.ran = m] \in Requests
           /\ [r EXCEPT !.left = n, !.ran = m].pc = r.pc
           /\ [r EXCEPT !.left = n, !.ran = m].call = r.call
  BY DEF Requests, PCs

LEMMA IdleType == Idle \in Requests /\ Idle.pc = "idle"
<1>1. NoCall \in Calls
  BY GateAssumption DEF NoCall, Calls, Kinds
<1>2. QED
  BY <1>1 DEF Idle, Requests

LEMMA ArriveType ==
    ASSUME NEW call \in Calls
    PROVE  /\ [Idle EXCEPT !.pc = "slot", !.call = call] \in Requests
           /\ [Idle EXCEPT !.pc = "slot", !.call = call].pc = "slot"
  BY IdleType DEF Requests

LEMMA OverType ==
    ASSUME TypeOK, NEW c \in Clients, NEW reply
    PROVE  Over(c, reply) \in Requests /\ Over(c, reply).pc = "idle"
<1>1. req[c] \in Requests
  BY DEF TypeOK
<1>2. CASE reply = "timeout"
  BY <1>1, <1>2 DEF Over, Requests
<1>3. CASE reply # "timeout"
  BY <1>3, IdleType DEF Over
<1>4. QED
  BY <1>2, <1>3

LEMMA CallsOK == TypeOK => load.calls \subseteq Calls
  BY GateAssumption DEF TypeOK

-----------------------------------------------------------------------------
(* What a step of the request of c does to req: the other requests stay,   *)
(* and c goes to p.                                                        *)

Goes(c, p) ==
    /\ req' \in [Clients -> Requests]
    /\ \A d \in Clients : d # c => req'[d] = req[d]
    /\ req'[c].pc = p
    /\ p # "idle" => req'[c].call = req[c].call

LEMMA EndGoes ==
    ASSUME TypeOK, NEW c \in Clients, NEW reply, End(c, reply)
    PROVE  Goes(c, "idle")
<1>1. Over(c, reply) \in Requests /\ Over(c, reply).pc = "idle"
  BY OverType
<1>2. req \in [Clients -> Requests] /\ req' = [req EXCEPT ![c] = Over(c, reply)]
  BY DEF TypeOK, End
<1>3. QED
  BY <1>1, <1>2, Zenon DEF Goes

LEMMA AdvanceGoes ==
    ASSUME TypeOK, NEW c \in Clients, NEW p \in PCs, req' = [req EXCEPT ![c].pc = p]
    PROVE  Goes(c, p)
<1> DEFINE q == [req[c] EXCEPT !.pc = p]
<1>1. req \in [Clients -> Requests] /\ req[c] \in Requests
  BY DEF TypeOK
<1>2. q \in Requests /\ q.pc = p /\ q.call = req[c].call
  BY <1>1, SetPc
<1>3. req' = [req EXCEPT ![c] = q]
  OBVIOUS
<1> HIDE DEF q
<1>4. QED
  BY <1>1, <1>2, <1>3, Zenon DEF Goes

\* The end of a handler's preparation: an expired deadline ends the request.
LEMMA HandleGoes ==
    ASSUME TypeOK, NEW c \in Clients, Handle(c)
    PROVE  End(c, "error") \/ (Goes(c, "handle") /\ UNCHANGED <<slots, mcpSlots>>)
<1>1. CASE req[c].left = 0
  BY <1>1 DEF Handle
<1>2. CASE req[c].left # 0
  <2> DEFINE n == CASE req[c].call.kind \in {"wait", "mcpwait"} -> WaitBudget(req[c].left)
                    [] req[c].call.kind \in {"stream", "listen"} -> req[c].left
                    [] OTHER -> 0
             q == [req[c] EXCEPT !.pc = "handle", !.left = n]
  <2>1. req \in [Clients -> Requests] /\ req[c] \in Requests /\ "handle" \in PCs
    BY DEF TypeOK, PCs
  <2>2. n \in Nat \cup {Forever}
    <3>1. req[c].left \in Nat \cup {Forever} /\ WaitBudget(req[c].left) \in Nat
      BY <2>1, Fields, BudgetType
    <3>2. CASE req[c].call.kind \in {"wait", "mcpwait"}
      BY <3>1, <3>2
    <3>3. CASE req[c].call.kind \in {"stream", "listen"}
      BY <3>1, <3>3
    <3>4. QED
      BY <3>2, <3>3
  <2>3. req' = [req EXCEPT ![c] = q] /\ UNCHANGED <<slots, mcpSlots>>
    BY <1>2 DEF Handle
  <2> HIDE DEF n
  <2>4. q \in Requests /\ q.pc = "handle" /\ q.call = req[c].call
    BY <2>1, <2>2 DEF Requests, PCs
  <2> HIDE DEF q
  <2>5. QED
    BY <2>1, <2>3, <2>4, Zenon DEF Goes
<1>3. QED
  BY <1>1, <1>2

LEMMA SlotGoes ==
    ASSUME TypeOK, NEW c \in Clients, NEW n \in Nat \cup {Forever},
           req' = [req EXCEPT ![c].pc = "route", ![c].left = n]
    PROVE  Goes(c, "route")
<1> DEFINE q == [req[c] EXCEPT !.pc = "route", !.left = n]
<1>1. req \in [Clients -> Requests] /\ req[c] \in Requests /\ "route" \in PCs
  BY DEF TypeOK, PCs
<1>2. q \in Requests /\ q.pc = "route" /\ q.call = req[c].call
  BY <1>1 DEF Requests, PCs
<1>3. req' = [req EXCEPT ![c] = q]
  BY <1>1
<1> HIDE DEF q
<1>4. QED
  BY <1>1, <1>2, <1>3, Zenon DEF Goes

-----------------------------------------------------------------------------
(* Buckets.                                                                *)

LEMMA KeptType ==
    ASSUME TypeOK, NEW g \in {"rest", "mcp"}
    PROVE  Kept(g) \in [Sources -> {NoBucket} \cup Buckets]
  BY DEF TypeOK, Kept

LEMMA TokensType ==
    ASSUME TypeOK, NEW g \in {"rest", "mcp"}, NEW s \in Sources
    PROVE  Tokens(g, s) \in 0..Burst
<1>1. Burst \in Nat /\ Rate \in Nat /\ AgeCap \in Nat
  BY GateAssumption DEF AgeCap
<1>2. CASE Kept(g)[s] = NoBucket
  BY <1>1, <1>2 DEF Tokens
<1>3. CASE Kept(g)[s] # NoBucket
  <2> DEFINE b == Kept(g)[s]
  <2>1. b \in Buckets
    BY <1>3, KeptType
  <2>2. b.tokens \in Nat /\ b.age \in Nat
    BY <1>1, <2>1 DEF Buckets
  <2> HIDE DEF b
  <2>3. b.tokens + b.age * Rate \in Nat
    BY <1>1, <2>2
  <2>4. Min({Burst, b.tokens + b.age * Rate}) \in Nat
        /\ Min({Burst, b.tokens + b.age * Rate}) <= Burst
    BY <1>1, <2>3, MinPair
  <2>5. Tokens(g, s) = Min({Burst, b.tokens + b.age * Rate})
    BY <1>3 DEF Tokens, b
  <2>6. QED
    BY <1>1, <2>4, <2>5
<1>4. QED
  BY <1>2, <1>3

LEMMA ChargeType ==
    ASSUME TypeOK, NEW g \in {"rest", "mcp"}, NEW s \in Sources, Charge(g, s)
    PROVE  buckets' \in [{"rest", "mcp"} -> [Sources -> {NoBucket} \cup Buckets]]
<1>1. CASE ~load.limited
  BY <1>1 DEF Charge, TypeOK
<1>2. CASE ~~load.limited
  <2> DEFINE n == Tokens(g, s) - (IF Allowed(g, s) THEN 1 ELSE 0)
             b == [tokens |-> n, age |-> 0]
             k == [Kept(g) EXCEPT ![s] = b]
  <2>1. n \in 0..Burst /\ 0 \in 0..AgeCap
    BY <1>2, TokensType, GateAssumption DEF Allowed, AgeCap
  <2>2. buckets' = [buckets EXCEPT ![g] = k]
    BY <1>2 DEF Charge
  <2> HIDE DEF n
  <2>3. b \in Buckets
    BY <2>1 DEF Buckets
  <2> HIDE DEF b
  <2>4. k \in [Sources -> {NoBucket} \cup Buckets]
    BY <2>3, KeptType
  <2> HIDE DEF k
  <2>5. QED
    BY <2>2, <2>4 DEF TypeOK
<1>3. QED
  BY <1>1, <1>2

-----------------------------------------------------------------------------
(* Types.                                                                  *)

LEMMA GateInitTypes == Init => TypeOK
<1> SUFFICES ASSUME Init PROVE TypeOK
  OBVIOUS
<1>1. req \in [Clients -> Requests]
  BY IdleType DEF Init
<1>2. QED
  BY <1>1 DEF Init, TypeOK

LEMMA LimitedStep ==
    ASSUME TypeOK, NEW c \in Clients, NEW g \in {"rest", "mcp"}, NEW p \in PCs,
           Limited(c, g, p)
    PROVE  /\ buckets' \in [{"rest", "mcp"} -> [Sources -> {NoBucket} \cup Buckets]]
           /\ End(c, "refused") \/ (Goes(c, p) /\ UNCHANGED <<slots, mcpSlots>>)
<1>1. req[c].call.src \in Sources
  BY Fields DEF TypeOK
<1>2. buckets' \in [{"rest", "mcp"} -> [Sources -> {NoBucket} \cup Buckets]]
  BY <1>1, ChargeType DEF Limited
<1>3. End(c, "refused") \/ Advance(c, p)
  BY DEF Limited
<1>4. QED
  BY <1>2, <1>3, AdvanceGoes DEF Advance

LEMMA Increment ==
    ASSUME NEW I, NEW f \in [I -> Nat]
    PROVE  [i \in I |-> f[i] + 1] \in [I -> Nat]
  OBVIOUS

LEMMA AdmitIs ==
    ASSUME TypeOK, NEW c \in Clients, Admit(c)
    PROVE  LET s == req[c].call.src
               on == load.limited /\ ~IsHealth(req[c].call.kind) /\ req'[c].pc # "idle"
           IN  /\ admitted' \in [Sources -> [0..Window -> Nat]]
               /\ \A q \in Sources : q # s \/ ~on => admitted'[q] = admitted[q]
               /\ on => \A t \in 0..Window : admitted'[s][t] = admitted[s][t] + 1
<1> DEFINE s == req[c].call.src
           on == load.limited /\ ~IsHealth(req[c].call.kind) /\ req'[c].pc # "idle"
           row == [t \in 0..Window |-> admitted[s][t] + 1]
<1>1. s \in Sources
  BY Fields DEF TypeOK
<1>2. admitted \in [Sources -> [0..Window -> Nat]]
  BY DEF TypeOK
<1>3. admitted' = IF on THEN [admitted EXCEPT ![s] = row] ELSE admitted
  BY DEF Admit
<1> HIDE DEF s, on
<1>4. row \in [0..Window -> Nat] /\ \A t \in 0..Window : row[t] = admitted[s][t] + 1
  <2>1. admitted[s] \in [0..Window -> Nat]
    BY <1>1, <1>2
  <2>2. QED
    BY <2>1, Increment
<1> HIDE DEF row
<1>5. /\ admitted' \in [Sources -> [0..Window -> Nat]]
      /\ \A q \in Sources : q # s \/ ~on => admitted'[q] = admitted[q]
      /\ on => \A t \in 0..Window : admitted'[s][t] = admitted[s][t] + 1
  BY <1>1, <1>2, <1>3, <1>4
<1>6. QED
  BY <1>5 DEF s, on

LEMMA StopPC == \A kind : Stop(kind) \in PCs
  BY DEF Stop, PCs

-----------------------------------------------------------------------------
(* The steps of a request.                                                 *)

\* A step of c that ends it, takes it to p with its slots as they are, or takes it past a
\* gate with a new slot.
Ends(c) == Goes(c, "idle") /\ slots' = slots \ {c} /\ mcpSlots' = mcpSlots \ {c}
Passes(c, p) == Goes(c, p) /\ UNCHANGED <<slots, mcpSlots>>
Takes(c) ==
    \/ /\ req[c].pc = "slot" /\ Goes(c, "route")
       /\ Cardinality(slots) < MaxConcurrent
       /\ slots' = slots \cup {c} /\ UNCHANGED mcpSlots
    \/ /\ req[c].pc = "mcp" /\ Goes(c, "mcprate")
       /\ mcpSlots' = mcpSlots \cup {c} /\ UNCHANGED slots

\* Where a step without a new slot may lead from where c is.
Onward(c, p) ==
    \/ req[c].pc = "route" /\ p = Stop(req[c].call.kind)
    \/ req[c].pc \in {"auth", "compat"} /\ p = "handle"
    \/ req[c].pc = "mcprate" /\ p = "mcpauth"
    \/ req[c].pc = "mcpauth" /\ p = "handle"

LEMMA EndEnds ==
    ASSUME TypeOK, NEW c \in Clients, NEW reply, End(c, reply)
    PROVE  Ends(c)
  BY EndGoes DEF End, Ends

LEMMA StepKinds ==
    ASSUME TypeOK, NEW c \in Clients, Step(c)
    PROVE  Ends(c) \/ (\E p \in PCs : Onward(c, p) /\ Passes(c, p)) \/ Takes(c)
<1>1. CASE AcquireSlot(c)
  <2>1. Deadline(req[c].call.kind) \in Nat \cup {Forever}
    BY GateAssumption DEF Deadline
  <2>2. CASE Cardinality(slots) < MaxConcurrent
    BY <1>1, <2>1, <2>2, SlotGoes DEF AcquireSlot, Takes
  <2>3. CASE ~(Cardinality(slots) < MaxConcurrent)
    BY <1>1, <2>3, EndEnds DEF AcquireSlot
  <2>4. QED
    BY <2>2, <2>3
<1>2. CASE Route(c)
  <2> DEFINE p == Stop(req[c].call.kind)
  <2>1. p \in PCs /\ req[c].pc = "route"
    BY <1>2, StopPC DEF Route
  <2>2. End(c, "refused") \/ Advance(c, p) \/ Limited(c, "rest", p)
    BY <1>2 DEF Route
  <2>3. End(c, "refused") \/ Passes(c, p)
    BY <2>1, <2>2, AdvanceGoes, LimitedStep DEF Advance, Passes
  <2>4. QED
    BY <2>1, <2>3, EndEnds DEF Onward
<1>3. CASE Auth(c) \/ CompatGate(c) \/ McpAuth(c)
  <2>1. req[c].pc \in {"auth", "compat", "mcpauth"} /\ (Handle(c) \/ End(c, "refused"))
    BY <1>3 DEF Auth, CompatGate, McpAuth
  <2>2. "handle" \in PCs
    BY DEF PCs
  <2>3. QED
    BY <2>1, <2>2, HandleGoes, EndEnds DEF Onward, Passes
<1>4. CASE McpGate(c)
  <2>1. "mcprate" \in PCs
    BY DEF PCs
  <2>2. QED
    BY <1>4, <2>1, AdvanceGoes, EndEnds DEF McpGate, Takes
<1>5. CASE McpRate(c)
  <2>1. "mcpauth" \in PCs /\ req[c].pc = "mcprate" /\ Limited(c, "mcp", "mcpauth")
    BY <1>5 DEF McpRate, PCs
  <2>2. QED
    BY <2>1, LimitedStep, EndEnds DEF Onward, Passes
<1>6. QED
  BY <1>1, <1>2, <1>3, <1>4, <1>5 DEF Step


LEMMA EndsKeeps ==
    ASSUME TypeOK, AllSorted, Slots, NEW c \in Clients, Ends(c)
    PROVE  AllSorted' /\ Slots'
<1>1. AllSorted'
  BY DEF Ends, Goes, AllSorted, Sorted
<1>2. slots' = Past' /\ mcpSlots' = PastMcp'
  BY DEF Ends, Goes, Slots, Past, PastMcp
<1>3. IsFiniteSet(slots') /\ Cardinality(slots') <= Cardinality(slots)
  BY FS_Subset DEF Ends, Slots
<1>4. Cardinality(slots) \in Nat /\ Cardinality(slots') \in Nat /\ MaxConcurrent \in Nat
  BY <1>3, FS_CardinalityType, GateAssumption DEF Slots
<1>5. QED
  BY <1>1, <1>2, <1>3, <1>4 DEF Slots

LEMMA PassesKeeps ==
    ASSUME TypeOK, AllSorted, Slots, NEW c \in Clients, NEW p \in PCs, Onward(c, p), Passes(c, p)
    PROVE  AllSorted' /\ Slots'
<1>1. /\ req[c].pc \notin {"idle", "slot"} /\ p \notin {"idle", "slot"}
      /\ req'[c].pc = p /\ req'[c].call = req[c].call
      /\ \A d \in Clients : d # c => req'[d] = req[d]
  BY DEF Onward, Passes, Goes, Stop
<1>2. Sorted(c)'
  BY <1>1 DEF Onward, Stop, Sorted, AllSorted, Compat, Mcp
<1>3. AllSorted'
  BY <1>1, <1>2 DEF AllSorted, Sorted
<1>4. Past' = Past
  BY <1>1 DEF Past
<1>5. c \in PastMcp' <=> c \in PastMcp
  BY <1>1 DEF Onward, Stop, Sorted, AllSorted, Compat, Mcp, PastMcp
<1>6. PastMcp' = PastMcp
  BY <1>1, <1>5 DEF PastMcp
<1>7. QED
  BY <1>3, <1>4, <1>6 DEF Slots, Passes

LEMMA TakesKeeps ==
    ASSUME TypeOK, AllSorted, Slots, NEW c \in Clients, Takes(c)
    PROVE  AllSorted' /\ Slots'
<1>1. AllSorted'
  BY DEF Takes, Goes, AllSorted, Sorted
<1>2. slots' = Past' /\ mcpSlots' = PastMcp'
  BY DEF Takes, Goes, Slots, Past, PastMcp
<1>3. CASE slots' = slots
  BY <1>1, <1>2, <1>3 DEF Slots
<1>4. CASE slots' = slots \cup {c} /\ Cardinality(slots) < MaxConcurrent
  <2>1. /\ IsFiniteSet(slots') /\ Cardinality(slots) \in Nat /\ MaxConcurrent \in Nat
        /\ Cardinality(slots') = Cardinality(slots) \/ Cardinality(slots') = Cardinality(slots) + 1
    BY <1>4, FS_AddElement, FS_CardinalityType, GateAssumption DEF Slots
  <2>2. QED
    BY <1>1, <1>2, <1>4, <2>1 DEF Slots
<1>5. QED
  BY <1>3, <1>4 DEF Takes

\* The kinds and places of all requests are as they were.
LEMMA SamePlaces ==
    ASSUME AllSorted, Slots, slots' = slots, mcpSlots' = mcpSlots,
           \A c \in Clients : req'[c].pc = req[c].pc /\ req'[c].call = req[c].call
    PROVE  AllSorted' /\ Slots'
<1>1. AllSorted'
  BY DEF AllSorted, Sorted
<1>2. Past' = Past /\ PastMcp' = PastMcp
  BY DEF Past, PastMcp
<1>3. QED
  BY <1>1, <1>2 DEF Slots

\* A request that arrives is not yet past the gate.
LEMMA ArriveKeeps ==
    ASSUME TypeOK, AllSorted, Slots, NEW c \in Clients, req[c].pc = "idle",
           req'[c].pc \in {"idle", "slot"}, slots' = slots, mcpSlots' = mcpSlots,
           \A d \in Clients : d # c => req'[d] = req[d]
    PROVE  AllSorted' /\ Slots'
<1>1. AllSorted'
  BY DEF AllSorted, Sorted
<1>2. Past' = Past /\ PastMcp' = PastMcp
  BY DEF Past, PastMcp
<1>3. QED
  BY <1>1, <1>2 DEF Slots

LEMMA ArriveStep ==
    ASSUME TypeOK, NEW c \in Clients, NEW call \in load.calls, Arrive(c, call) \/ Refuse(c, call)
    PROVE  /\ req' \in [Clients -> Requests]
           /\ req[c].pc = "idle" /\ req'[c].pc \in {"idle", "slot"}
           /\ \A d \in Clients : d # c => req'[d] = req[d]
<1> DEFINE q == [Idle EXCEPT !.pc = "slot", !.call = call]
<1>1. q \in Requests /\ q.pc = "slot" /\ Idle \in Requests /\ Idle.pc = "idle"
  BY ArriveType, IdleType, CallsOK
<1>2. req' = [req EXCEPT ![c] = q] \/ req' = [req EXCEPT ![c] = Idle]
  BY DEF Arrive, Refuse
<1> HIDE DEF q
<1>3. req \in [Clients -> Requests] /\ req[c].pc = "idle"
  BY DEF TypeOK, Arrive, Refuse
<1>4. QED
  BY <1>1, <1>2, <1>3

LEMMA TickStep ==
    ASSUME TypeOK, Tick
    PROVE  /\ TypeOK'
           /\ \A c \in Clients : req'[c].pc = req[c].pc /\ req'[c].call = req[c].call
<1> DEFINE new(c) == [req[c] EXCEPT !.left = Down(@),
                         !.ran = IF req[c].pc = "handle" /\ req[c].call.kind \in {"wait", "mcpwait"}
                                 THEN Min({@ + 1, Asked + MaxWait}) ELSE @]
<1>1. ASSUME NEW c \in Clients
      PROVE  new(c) \in Requests /\ new(c).pc = req[c].pc /\ new(c).call = req[c].call
  <2> DEFINE n == Down(req[c].left)
             m == IF req[c].pc = "handle" /\ req[c].call.kind \in {"wait", "mcpwait"}
                  THEN Min({req[c].ran + 1, Asked + MaxWait}) ELSE req[c].ran
  <2>1. req[c] \in Requests /\ req[c].left \in Nat \cup {Forever} /\ req[c].ran \in Nat
    BY Fields DEF TypeOK
  <2>2. n \in Nat \cup {Forever}
    BY <2>1 DEF Down
  <2>3. m \in Nat
    <3>1. req[c].ran + 1 \in Nat /\ Asked + MaxWait \in Nat
      BY <2>1, GateAssumption
    <3>2. Min({req[c].ran + 1, Asked + MaxWait}) \in Nat
      BY <3>1, MinPair
    <3>3. QED
      BY <2>1, <3>2
  <2>4. new(c) = [req[c] EXCEPT !.left = n, !.ran = m]
    BY <2>1 DEF Requests
  <2> HIDE DEF n, m
  <2>5. QED
    BY <2>1, <2>2, <2>3, <2>4 DEF Requests
<1>2. req' = [c \in Clients |-> IF req[c].pc = "idle" THEN req[c] ELSE new(c)]
  BY DEF Tick
<1> HIDE DEF new
<1>3. req \in [Clients -> Requests]
  BY DEF TypeOK
<1>4. /\ req' \in [Clients -> Requests]
      /\ \A c \in Clients : req'[c].pc = req[c].pc /\ req'[c].call = req[c].call
  BY <1>1, <1>2, <1>3
<1>5. buckets' \in [{"rest", "mcp"} -> [Sources -> {NoBucket} \cup Buckets]]
  <2> DEFINE old(b) == [b EXCEPT !.age = Min({@ + 1, AgeCap})]
  <2>1. ASSUME NEW b \in Buckets PROVE old(b) \in Buckets
    <3>1. b.age \in Nat /\ b.tokens \in 0..Burst /\ AgeCap \in Nat
      BY GateAssumption DEF Buckets, AgeCap
    <3>2. Min({b.age + 1, AgeCap}) \in 0..AgeCap
      BY <3>1, MinPair
    <3> HIDE DEF AgeCap
    <3>3. QED
      BY <3>2 DEF Buckets
  <2>2. ASSUME NEW g \in {"rest", "mcp"}, NEW s \in Sources
        PROVE  buckets[g][s] = NoBucket \/ buckets[g][s] \in Buckets
    BY DEF TypeOK
  <2>3. buckets' = [g \in {"rest", "mcp"} |-> [s \in Sources |->
                      IF buckets[g][s] = NoBucket THEN NoBucket ELSE old(buckets[g][s])]]
    BY DEF Tick, TypeOK
  <2> HIDE DEF old
  <2>4. QED
    BY <2>1, <2>2, <2>3
<1>6. admitted' \in [Sources -> [0..Window -> Nat]]
  <2>1. ASSUME NEW s \in Sources, NEW t \in 0..Window
        PROVE  (IF t = 0 THEN 0 ELSE admitted[s][t - 1]) \in Nat
    <3>1. admitted[s] \in [0..Window -> Nat] /\ Window \in Nat
      BY GateAssumption DEF TypeOK
    <3>2. t = 0 \/ t - 1 \in 0..Window
      BY <3>1
    <3>3. QED
      BY <3>1, <3>2
  <2>2. QED
    BY <2>1 DEF Tick
<1>7. drain' \in Nat
  <2>1. drain \in Nat /\ drain' = Down(drain)
    BY DEF Tick, TypeOK
  <2>2. drain' = drain \/ (drain # 0 /\ drain' = drain - 1)
    BY <2>1 DEF Down
  <2>3. QED
    BY <2>1, <2>2
<1>8. QED
  BY <1>4, <1>5, <1>6, <1>7 DEF Tick, TypeOK

LEMMA RequestTypes ==
    ASSUME TypeOK, NEW c \in Clients,
           Step(c) \/ Return(c) \/ TimesOut(c) \/ Disconnect(c) \/ Panic(c)
    PROVE  TypeOK'
<1>1. req' \in [Clients -> Requests]
  <2>1. CASE Step(c)
    BY <2>1, StepKinds DEF Ends, Passes, Takes, Goes
  <2>2. QED
    BY <2>1, EndGoes DEF Goes, Return, TimesOut, Disconnect, Panic
<1>2. buckets' \in [{"rest", "mcp"} -> [Sources -> {NoBucket} \cup Buckets]]
  <2>1. CASE Route(c)
    BY <2>1, StopPC, LimitedStep DEF Route, TypeOK
  <2>2. CASE McpRate(c)
    <3>1. "mcpauth" \in PCs
      BY DEF PCs
    <3>2. QED
      BY <2>2, <3>1, LimitedStep DEF McpRate
  <2>3. QED
    BY <2>1, <2>2 DEF Step, AcquireSlot, Auth, CompatGate, McpGate, McpAuth, Return, TimesOut,
                      Disconnect, Panic, TypeOK
<1>3. admitted' \in [Sources -> [0..Window -> Nat]]
  <2>1. CASE Route(c)
    BY <2>1, AdmitIs DEF Route
  <2>2. QED
    BY <2>1 DEF Step, AcquireSlot, Auth, CompatGate, McpGate, McpRate, McpAuth, Return,
                TimesOut, Disconnect, Panic, TypeOK
<1>4. load' = load /\ settings' = settings /\ phase' = phase /\ drain' = drain
  BY DEF Step, AcquireSlot, Route, Auth, CompatGate, McpGate, McpRate, McpAuth, Return, TimesOut,
         Disconnect, Panic
<1>5. QED
  BY <1>1, <1>2, <1>3, <1>4 DEF TypeOK

\* A handler that is held up, or goes on, holds what it held.
LEMMA StickStep ==
    ASSUME TypeOK, NEW c \in Clients, Stick(c)
    PROVE  /\ TypeOK'
           /\ \A d \in Clients : req'[d].pc = req[d].pc /\ req'[d].call = req[d].call
<1> DEFINE q == [req[c] EXCEPT !.stuck = ~@]
<1>1. req \in [Clients -> Requests] /\ req[c] \in Requests
  BY DEF TypeOK
<1>2. q.pc = req[c].pc /\ q.call = req[c].call /\ q \in Requests
  BY <1>1 DEF Requests
<1>3. req' = [req EXCEPT ![c] = q]
  BY DEF Stick
<1> HIDE DEF q
<1>4. /\ req' \in [Clients -> Requests]
      /\ \A d \in Clients : req'[d].pc = req[d].pc /\ req'[d].call = req[d].call
  BY <1>1, <1>2, <1>3
<1>5. QED
  BY <1>4 DEF Stick, TypeOK

LEMMA TypeStep ==
    ASSUME TypeOK, [Next]_vars
    PROVE  TypeOK'
<1>1. CASE \E c \in Clients : \E call \in load.calls : Arrive(c, call) \/ Refuse(c, call)
  BY <1>1, ArriveStep DEF Arrive, Refuse, TypeOK
<1>2. CASE \E c \in Clients : Step(c) \/ Return(c) \/ TimesOut(c) \/ Disconnect(c) \/ Panic(c)
  BY <1>2, RequestTypes
<1>3. CASE \E s \in load.settings : Reconfigure(s)
  BY <1>3 DEF Reconfigure, TypeOK
<1>4. CASE Shutdown \/ ShutdownEnds
  BY <1>4, GateAssumption DEF Shutdown, ShutdownEnds, TypeOK
<1>5. CASE Tick
  BY <1>5, TickStep
<1>6. CASE UNCHANGED vars
  BY <1>6 DEF vars, TypeOK
<1>7. CASE \E c \in Clients : Stick(c)
  BY <1>7, StickStep
<1>8. QED
  BY <1>1, <1>2, <1>3, <1>4, <1>5, <1>6, <1>7 DEF Next

LEMMA SlotsStep ==
    ASSUME TypeOK, AllSorted, Slots, [Next]_vars
    PROVE  AllSorted' /\ Slots'
<1>1. CASE \E c \in Clients : \E call \in load.calls : Arrive(c, call) \/ Refuse(c, call)
  BY <1>1, ArriveStep, ArriveKeeps DEF Arrive, Refuse
<1>2. CASE \E c \in Clients : Step(c)
  BY <1>2, StepKinds, EndsKeeps, PassesKeeps, TakesKeeps
<1>3. CASE \E c \in Clients : Return(c) \/ TimesOut(c) \/ Disconnect(c) \/ Panic(c)
  BY <1>3, EndEnds, EndsKeeps DEF Return, TimesOut, Disconnect, Panic
<1>4. CASE \E s \in load.settings : Reconfigure(s)
  BY <1>4, SamePlaces DEF Reconfigure
<1>5. CASE Shutdown \/ ShutdownEnds
  BY <1>5, SamePlaces DEF Shutdown, ShutdownEnds
<1>6. CASE Tick
  BY <1>6, TickStep, SamePlaces DEF Tick
<1>7. CASE UNCHANGED vars
  BY <1>7, SamePlaces DEF vars
<1>8. CASE \E c \in Clients : Stick(c)
  BY <1>8, StickStep, SamePlaces DEF Stick
<1>9. QED
  BY <1>1, <1>2, <1>3, <1>4, <1>5, <1>6, <1>7, <1>8 DEF Next

-----------------------------------------------------------------------------
(* The theorems.                                                           *)

LEMMA GateInit == Init => GateInv
<1> SUFFICES ASSUME Init PROVE GateInv
  OBVIOUS
<1>1. \A c \in Clients : req[c].pc = "idle"
  BY IdleType DEF Init
<1>2. slots = Past /\ mcpSlots = PastMcp
  BY <1>1 DEF Init, Past, PastMcp
<1>3. \A c \in Clients : Sorted(c)
  BY <1>1 DEF Sorted
<1>4. IsFiniteSet(slots) /\ Cardinality(slots) <= MaxConcurrent
  BY FS_EmptySet, GateAssumption DEF Init
<1>5. QED
  BY <1>2, <1>3, <1>4, GateInitTypes DEF GateInv, AllSorted, Slots

LEMMA GateNext == GateInv /\ [Next]_vars => GateInv'
  BY TypeStep, SlotsStep DEF GateInv

\* Types, and who holds which slot, in every reachable state.
THEOREM GateInvariant == Spec => []GateInv
  BY GateInit, GateNext, PTL DEF Spec

\* A request on its way to MCP's gate holds a REST slot and none of MCP's: one is free.
LEMMA McpHasRoom ==
    ASSUME GateInv, NEW c \in Clients, req[c].pc = "mcp"
    PROVE  Cardinality(mcpSlots) < MaxConcurrent
<1>1. mcpSlots \subseteq slots \ {c} /\ c \in slots
  BY DEF GateInv, Slots, Past, PastMcp
<1>2. /\ IsFiniteSet(slots) /\ IsFiniteSet(slots \ {c})
      /\ Cardinality(slots \ {c}) = Cardinality(slots) - 1
  BY <1>1, FS_RemoveElement DEF GateInv, Slots
<1>3. IsFiniteSet(mcpSlots) /\ Cardinality(mcpSlots) <= Cardinality(slots \ {c})
  BY <1>1, <1>2, FS_Subset
<1>4. /\ Cardinality(mcpSlots) \in Nat /\ Cardinality(slots) \in Nat /\ MaxConcurrent \in Nat
      /\ Cardinality(slots) <= MaxConcurrent
  BY <1>2, <1>3, FS_CardinalityType, GateAssumption DEF GateInv, Slots
<1>5. QED
  BY <1>2, <1>3, <1>4

\* serveHTTP's slots are exactly the requests past the gate, at most MaxConcurrent, on every
\* way out, and MCP's own gate never refuses for want of a slot.
THEOREM SlotsAlwaysExact == Spec => []SlotsExact
<1>1. GateInv => SlotsExact
  BY McpHasRoom DEF GateInv, Slots, SlotsExact, Past, PastMcp
<1>2. QED
  BY <1>1, GateInvariant, PTL

\* No bucket of limiter.allow holds more than its burst or less than nothing.
THEOREM GateTypeCorrect == Spec => []TypeOK
<1>1. GateInv => TypeOK
  BY DEF GateInv
<1>2. QED
  BY <1>1, GateInvariant, PTL

-----------------------------------------------------------------------------
(* The rate.                                                               *)

\* What was let through in the last j ticks, together with what the source may still ask
\* for, is within the burst and the rate; and so is every earlier stretch.
Earned(s) ==
    \A j \in 0..Window : admitted[s][j] + Tokens("rest", s) <= Burst + Rate * j
Spaced(s) ==
    \A i, j \in 0..Window :
        i < j => admitted[s][j] - admitted[s][i] <= Burst + Rate * (j - (i + 1))

RateInv == \A s \in Sources : Earned(s) /\ Spaced(s)

LEMMA BucketParts ==
    ASSUME NEW b \in Buckets
    PROVE  /\ b.tokens \in 0..Burst /\ b.tokens \in Nat /\ b.age \in Nat
           /\ b # NoBucket /\ b.tokens + b.age * Rate \in Nat
<1>1. Burst \in Nat /\ Rate \in Nat /\ AgeCap \in Nat /\ NoBucket \notin [tokens : Nat, age : Nat]
  BY GateAssumption DEF AgeCap
<1>2. b.tokens \in 0..Burst /\ b.age \in 0..AgeCap /\ b = [tokens |-> b.tokens, age |-> b.age]
  BY DEF Buckets
<1> HIDE DEF AgeCap
<1>3. b.tokens \in Nat /\ b.age \in Nat
  BY <1>1, <1>2
<1>4. b \in [tokens : Nat, age : Nat]
  BY <1>2, <1>3
<1>5. b.age * Rate \in Nat
  BY <1>1, <1>3
<1>6. QED
  BY <1>1, <1>2, <1>3, <1>4, <1>5

LEMMA MinOf ==
    ASSUME NEW a \in Nat, NEW b \in Nat
    PROVE  Min({a, b}) = IF a <= b THEN a ELSE b
<1>1. CASE a <= b
  BY <1>1, MinIs
<1>2. CASE ~(a <= b)
  BY <1>2, MinIs
<1>3. QED
  BY <1>1, <1>2

\* What a source may still ask for, by the bucket it has.
LEMMA TokensAre ==
    ASSUME TypeOK, NEW g \in {"rest", "mcp"}, NEW s \in Sources
    PROVE  LET b == buckets[g][s]
           IN  /\ b \notin Buckets \/ IdleBucket(b) => Tokens(g, s) = Burst
               /\ b \in Buckets /\ ~IdleBucket(b) =>
                      Tokens(g, s) = Min({Burst, b.tokens + b.age * Rate})
<1>1. buckets[g][s] \in {NoBucket} \cup Buckets
  BY DEF TypeOK
<1>2. Kept(g)[s] = IF IdleBucket(buckets[g][s]) THEN NoBucket ELSE buckets[g][s]
  BY DEF Kept
<1>3. buckets[g][s] \in Buckets => buckets[g][s] # NoBucket
  BY BucketParts
<1>4. QED
  BY <1>1, <1>2, <1>3 DEF Tokens

\* The same bucket: as many tokens.
LEMMA SameTokens ==
    ASSUME NEW g \in {"rest", "mcp"}, NEW s \in Sources, buckets'[g][s] = buckets[g][s]
    PROVE  Tokens(g, s)' = Tokens(g, s)
<1>1. Kept(g)'[s] = Kept(g)[s]
  BY DEF Kept
<1>2. QED
  BY <1>1 DEF Tokens

\* A charge takes one token of its source if there is one; sweeping the buckets of idle
\* sources leaves what they may ask for.
LEMMA ChargeTakes ==
    ASSUME TypeOK, load.limited, NEW s \in Sources, Charge("rest", s)
    PROVE  /\ Tokens("rest", s)' = Tokens("rest", s) - (IF Allowed("rest", s) THEN 1 ELSE 0)
           /\ \A q \in Sources : q # s => Tokens("rest", q)' = Tokens("rest", q)
<1> DEFINE n == Tokens("rest", s) - (IF Allowed("rest", s) THEN 1 ELSE 0)
           b == [tokens |-> n, age |-> 0]
<1>1. n \in 0..Burst /\ n \in Nat /\ Burst \in Nat /\ Rate \in Nat /\ IdleFloor \in Nat
      /\ 0 \in 0..AgeCap
  BY TokensType, GateAssumption DEF Allowed, AgeCap
<1>2. buckets' = [buckets EXCEPT !["rest"] = [Kept("rest") EXCEPT ![s] = b]]
  BY DEF Charge
<1> HIDE DEF n
<1>3. b \in Buckets /\ b.tokens = n /\ b.age = 0
  BY <1>1 DEF Buckets
<1> HIDE DEF b
<1>4. /\ buckets'["rest"][s] = b
      /\ \A q \in Sources : q # s => buckets'["rest"][q] = Kept("rest")[q]
  BY <1>2, KeptType DEF TypeOK
<1>5. ~IdleBucket(b)
  BY <1>1, <1>3 DEF IdleBucket
<1>6. Min({Burst, b.tokens + b.age * Rate}) = n
  <2>1. b.tokens + b.age * Rate = n
    BY <1>1, <1>3
  <2>2. QED
    BY <1>1, <2>1, MinOf
<1>7. Tokens("rest", s)' = n
  <2>1. Kept("rest")'[s] = b /\ b # NoBucket
    BY <1>3, <1>4, <1>5, BucketParts DEF Kept
  <2>2. QED
    BY <1>6, <2>1 DEF Tokens
<1>8. ASSUME NEW q \in Sources, q # s
      PROVE  Tokens("rest", q)' = Tokens("rest", q)
  <2>1. buckets'["rest"][q] = Kept("rest")[q]
    BY <1>4, <1>8
  <2>2. Kept("rest")'[q] = Kept("rest")[q]
    BY <2>1 DEF Kept, IdleBucket
  <2>3. QED
    BY <2>2 DEF Tokens
<1>9. QED
  BY <1>7, <1>8 DEF n

\* A tick earns a source at most the rate, although its bucket may then be forgotten: it
\* would be full.
LEMMA TickEarns ==
    ASSUME TypeOK, Tick, NEW s \in Sources
    PROVE  /\ Tokens("rest", s)' \in 0..Burst
           /\ Tokens("rest", s)' <= Tokens("rest", s) + Rate
<1> DEFINE b == buckets["rest"][s]
           a == Min({b.age + 1, AgeCap})
           d == [b EXCEPT !.age = a]
           x == b.tokens + b.age * Rate
           y == b.tokens + a * Rate
<1>1. /\ Burst \in Nat /\ Rate \in Nat /\ AgeCap \in Nat /\ IdleFloor \in Nat
      /\ Tokens("rest", s) \in 0..Burst
  BY TokensType, GateAssumption DEF AgeCap
<1>2. buckets'["rest"][s] = IF b = NoBucket THEN NoBucket ELSE d
  BY DEF Tick, TypeOK
<1>3. Kept("rest")'[s] = IF IdleBucket(buckets'["rest"][s]) THEN NoBucket ELSE buckets'["rest"][s]
  BY DEF Kept
<1>4. CASE b = NoBucket
  <2>1. Tokens("rest", s) = Burst
    BY <1>4, BucketParts, TokensAre
  <2>2. Tokens("rest", s)' = Burst
    BY <1>2, <1>3, <1>4 DEF Tokens
  <2>3. QED
    BY <1>1, <2>1, <2>2
<1>5. CASE b # NoBucket
  <2>1. b \in Buckets
    BY <1>5 DEF TypeOK
  <2>2. b.tokens \in Nat /\ b.age \in Nat /\ x \in Nat
    BY <2>1, BucketParts
  <2>3. a \in Nat /\ a <= b.age + 1 /\ a <= AgeCap
    <3>1. b.age + 1 \in Nat
      BY <2>2
    <3> HIDE DEF b
    <3>2. QED
      BY <1>1, <3>1, MinPair
  <2>4. y \in Nat /\ y <= x + Rate /\ a * Rate \in Nat /\ a * Rate <= x + Rate
    <3> HIDE DEF a, b
    <3>1. a * Rate \in Nat /\ b.age * Rate \in Nat /\ a * Rate <= (b.age + 1) * Rate
      BY <1>1, <2>2, <2>3
    <3>2. (b.age + 1) * Rate = b.age * Rate + Rate
      BY <1>1, <2>2
    <3>3. QED
      BY <1>1, <2>2, <3>1, <3>2
  <2>5. d.tokens = b.tokens /\ d.age = a /\ d # NoBucket
    <3>1. a \in 0..AgeCap
      BY <1>1, <2>3
    <3> HIDE DEF a, b
    <3>2. d \in Buckets /\ d.tokens = b.tokens /\ d.age = a
      BY <2>1, <3>1 DEF Buckets
    <3>3. QED
      BY <3>2, BucketParts
  <2>6. Tokens("rest", s) = Burst \/ Tokens("rest", s) = Min({Burst, x})
    BY <2>1, TokensAre
  <2>7. Tokens("rest", s) = Burst \/ Tokens("rest", s) = x
    BY <1>1, <2>2, <2>6, MinOf
  <2> HIDE DEF x, y, a, b
  <2>8. CASE IdleBucket(d)
    <3> SUFFICES Burst <= x + Rate /\ Tokens("rest", s)' = Burst
      BY <1>1, <2>2, <2>7
    <3>1. Tokens("rest", s)' = Burst
      BY <1>2, <1>3, <1>5, <2>8 DEF Tokens
    <3>2. a * Rate > 4 * Burst
      BY <2>5, <2>8 DEF IdleBucket
    <3>3. QED
      BY <1>1, <2>2, <2>4, <3>1, <3>2
  <2>9. CASE ~IdleBucket(d)
    <3>1. Tokens("rest", s)' = Min({Burst, y})
      BY <1>2, <1>3, <1>5, <2>5, <2>9 DEF Tokens, y
    <3>2. Tokens("rest", s)' = IF Burst <= y THEN Burst ELSE y
      BY <1>1, <2>4, <3>1, MinOf
    <3>3. QED
      BY <1>1, <2>2, <2>4, <2>7, <3>2
  <2>10. QED
    BY <2>8, <2>9
<1>6. QED
  BY <1>4, <1>5

LEMMA RateInit == Init => RateInv
<1> SUFFICES ASSUME Init, NEW s \in Sources
             PROVE  Earned(s) /\ Spaced(s)
  BY DEF RateInv
<1>1. Burst \in Nat /\ Rate \in Nat /\ Window \in Nat
  BY GateAssumption
<1>2. \A t \in 0..Window : admitted[s][t] = 0
  BY DEF Init
<1>3. Tokens("rest", s) = Burst
  <2>1. buckets["rest"][s] = NoBucket
    BY DEF Init
  <2>2. QED
    BY <2>1 DEF Tokens, Kept, IdleBucket
<1>4. \A j \in Nat : Rate * j \in Nat
  BY <1>1
<1>5. Earned(s)
  BY <1>1, <1>2, <1>3, <1>4 DEF Earned
<1>6. Spaced(s)
  <2> SUFFICES ASSUME NEW i \in 0..Window, NEW j \in 0..Window, i < j
               PROVE  admitted[s][j] - admitted[s][i] <= Burst + Rate * (j - (i + 1))
    BY DEF Spaced
  <2>1. j - (i + 1) \in Nat
    BY <1>1
  <2>2. QED
    BY <1>1, <1>2, <1>4, <2>1
<1>7. QED
  BY <1>5, <1>6

\* A step that lets nobody through and leaves the buckets of the REST limiter.
LEMMA RateSame ==
    ASSUME RateInv, admitted' = admitted, \A s \in Sources : buckets'["rest"][s] = buckets["rest"][s]
    PROVE  RateInv'
<1> SUFFICES ASSUME NEW s \in Sources
             PROVE  Earned(s)' /\ Spaced(s)'
  BY DEF RateInv
<1>1. Tokens("rest", s)' = Tokens("rest", s)
  BY SameTokens
<1>2. QED
  BY <1>1 DEF RateInv, Earned, Spaced

\* Whoever is let through pays for it.
LEMMA RouteRate ==
    ASSUME TypeOK, RateInv, NEW c \in Clients, Route(c)
    PROVE  RateInv'
<1> DEFINE kind == req[c].call.kind
           on == load.limited /\ ~IsHealth(kind) /\ req'[c].pc # "idle"
<1>1. PICK s \in Sources : s = req[c].call.src
  BY Fields DEF TypeOK
<1>2. /\ admitted' \in [Sources -> [0..Window -> Nat]]
      /\ \A q \in Sources : q # s \/ ~on => admitted'[q] = admitted[q]
      /\ on => \A t \in 0..Window : admitted'[s][t] = admitted[s][t] + 1
  BY <1>1, AdmitIs DEF Route
<1>3. admitted \in [Sources -> [0..Window -> Nat]]
  BY DEF TypeOK
<1>4. CASE ~on /\ buckets' = buckets
  <2>1. admitted' = admitted
    BY <1>2, <1>3, <1>4
  <2>2. QED
    BY <1>4, <2>1, RateSame
<1>5. CASE ~(~on /\ buckets' = buckets)
  <2>1. Stop(kind) \in PCs /\ Stop(kind) # "idle"
    BY StopPC DEF Stop
  <2>2. ~Unrouted(kind) /\ ~IsHealth(kind) /\ Limited(c, "rest", Stop(kind))
    <3>1. Unrouted(kind) => End(c, "refused") /\ buckets' = buckets
      BY DEF Route
    <3>2. End(c, "refused") => req'[c].pc = "idle"
      BY EndGoes DEF Goes
    <3>3. ~Unrouted(kind)
      BY <1>5, <3>1, <3>2
    <3>4. ~IsHealth(kind)
      BY <1>5, <3>3 DEF Route
    <3>5. QED
      BY <3>3, <3>4 DEF Route
  <2>3. load.limited
    BY <1>5, <2>2 DEF Limited, Charge
  <2>4. on <=> Allowed("rest", s)
    <3>1. CASE Allowed("rest", s)
      <4>1. Goes(c, Stop(kind))
        BY <1>1, <2>1, <2>2, <3>1, AdvanceGoes DEF Limited, Advance
      <4>2. QED
        BY <2>1, <2>2, <2>3, <3>1, <4>1 DEF Goes
    <3>2. CASE ~Allowed("rest", s)
      BY <1>1, <2>2, <3>2, EndGoes DEF Limited, Goes
    <3>3. QED
      BY <3>1, <3>2
  <2>5. /\ Tokens("rest", s)' = Tokens("rest", s) - (IF on THEN 1 ELSE 0)
        /\ \A q \in Sources : q # s => Tokens("rest", q)' = Tokens("rest", q)
    BY <1>1, <2>2, <2>3, <2>4, ChargeTakes DEF Limited
  <2> HIDE DEF on
  <2>6. ASSUME NEW q \in Sources, q # s
        PROVE  Earned(q)' /\ Spaced(q)'
    BY <1>2, <2>5, <2>6 DEF RateInv, Earned, Spaced
  <2>7. Earned(s)' /\ Spaced(s)'
    <3>1. CASE ~on
      <4>1. Tokens("rest", s) \in Nat
        BY <1>1, TokensType
      <4>2. Tokens("rest", s)' = Tokens("rest", s)
        BY <2>5, <3>1, <4>1
      <4>3. QED
        BY <1>1, <1>2, <3>1, <4>2 DEF RateInv, Earned, Spaced
    <3>2. CASE on
      <4>1. Tokens("rest", s) \in Nat /\ admitted[s] \in [0..Window -> Nat]
        BY <1>1, <1>3, TokensType
      <4>2. /\ \A t \in 0..Window : admitted'[s][t] = admitted[s][t] + 1 /\ admitted[s][t] \in Nat
            /\ Tokens("rest", s) \in Nat /\ Tokens("rest", s)' = Tokens("rest", s) - 1
        BY <1>2, <2>5, <3>2, <4>1
      <4>3. ASSUME NEW j \in 0..Window
            PROVE  admitted'[s][j] + Tokens("rest", s)' = admitted[s][j] + Tokens("rest", s)
        BY <4>2
      <4>4. ASSUME NEW i \in 0..Window, NEW j \in 0..Window
            PROVE  admitted'[s][j] - admitted'[s][i] = admitted[s][j] - admitted[s][i]
        BY <4>2
      <4>5. QED
        BY <1>1, <4>3, <4>4 DEF RateInv, Earned, Spaced
    <3>3. QED
      BY <3>1, <3>2
  <2>8. QED
    BY <2>6, <2>7 DEF RateInv
<1>6. QED
  BY <1>4, <1>5

\* Time passes: every stretch is one tick further back, and the newest one is empty.
LEMMA TickRate ==
    ASSUME TypeOK, RateInv, Tick
    PROVE  RateInv'
<1> SUFFICES ASSUME NEW s \in Sources
             PROVE  Earned(s)' /\ Spaced(s)'
  BY DEF RateInv
<1> DEFINE A(t) == admitted[s][t]
           B(t) == admitted'[s][t]
           T == Tokens("rest", s)
           U == Tokens("rest", s)'
<1>1. Burst \in Nat /\ Rate \in Nat /\ Window \in Nat
  BY GateAssumption
<1>2. \A t \in 0..Window : A(t) \in Nat
  BY DEF TypeOK
<1>3. \A t \in 0..Window : B(t) = IF t = 0 THEN 0 ELSE A(t - 1)
  BY DEF Tick
<1>4. T \in 0..Burst /\ U \in 0..Burst /\ U <= T + Rate
  BY TokensType, TickEarns
<1>5. /\ \A j \in 0..Window : A(j) + T <= Burst + Rate * j
      /\ \A i, j \in 0..Window : i < j => A(j) - A(i) <= Burst + Rate * (j - (i + 1))
  BY DEF RateInv, Earned, Spaced
<1> HIDE DEF A, B, T, U
<1>6. ASSUME NEW j \in 0..Window
      PROVE  B(j) + U <= Burst + Rate * j
  <2>1. CASE j = 0
    BY <1>1, <1>3, <1>4, <2>1
  <2>2. CASE j # 0
    <3>1. j - 1 \in 0..Window
      BY <1>1, <2>2
    <3>2. B(j) = A(j - 1) /\ A(j - 1) \in Nat /\ A(j - 1) + T <= Burst + Rate * (j - 1)
      BY <1>2, <1>3, <1>5, <2>2, <3>1
    <3>3. Rate * (j - 1) \in Nat /\ Rate * j \in Nat /\ Rate * j = Rate * (j - 1) + Rate
      BY <1>1, <3>1
    <3>4. QED
      BY <1>1, <1>4, <3>2, <3>3
  <2>3. QED
    BY <2>1, <2>2
<1>7. ASSUME NEW i \in 0..Window, NEW j \in 0..Window, i < j
      PROVE  B(j) - B(i) <= Burst + Rate * (j - (i + 1))
  <2>1. j - 1 \in 0..Window /\ j # 0 /\ B(j) = A(j - 1) /\ A(j - 1) \in Nat
    BY <1>1, <1>2, <1>3, <1>7
  <2>2. CASE i = 0
    <3>1. B(i) = 0 /\ j - (i + 1) = j - 1
      BY <1>3, <2>2
    <3>2. A(j - 1) + T <= Burst + Rate * (j - 1) /\ Rate * (j - 1) \in Nat
      BY <1>1, <1>5, <2>1
    <3>3. QED
      BY <1>1, <1>4, <2>1, <3>1, <3>2
  <2>3. CASE i # 0
    <3>1. i - 1 \in 0..Window /\ i - 1 < j - 1 /\ B(i) = A(i - 1)
      BY <1>1, <1>3, <1>7, <2>3
    <3>2. (j - 1) - ((i - 1) + 1) = j - (i + 1)
      BY <1>1
    <3>3. A(j - 1) - A(i - 1) <= Burst + Rate * ((j - 1) - ((i - 1) + 1))
      <4> SUFFICES ASSUME NEW a, a = i - 1, NEW b, b = j - 1
                   PROVE  A(b) - A(a) <= Burst + Rate * (b - (a + 1))
        OBVIOUS
      <4>1. a \in 0..Window /\ a < b
        BY <3>1, Zenon
      <4>2. b \in 0..Window
        BY <2>1, Zenon
      <4> QED BY <1>5, <4>1, <4>2
    <3>4. QED
      BY <2>1, <3>1, <3>2, <3>3
  <2>4. QED
    BY <2>2, <2>3
<1>8. QED
  BY <1>6, <1>7 DEF Earned, Spaced, A, B, U

LEMMA RateNext ==
    ASSUME TypeOK, RateInv, [Next]_vars
    PROVE  RateInv'
<1>1. CASE \E c \in Clients : Route(c)
  BY <1>1, RouteRate
<1>2. CASE \E c \in Clients : McpRate(c)
  <2>1. PICK c \in Clients : McpRate(c)
    BY <1>2
  <2>2. admitted' = admitted /\ Charge("mcp", req[c].call.src)
    BY <2>1 DEF McpRate, Limited
  <2>3. buckets'["rest"] = buckets["rest"]
    BY <2>2 DEF Charge, TypeOK
  <2>4. QED
    BY <2>2, <2>3, RateSame
<1>3. CASE Tick
  BY <1>3, TickRate
<1>4. CASE buckets' = buckets /\ admitted' = admitted
  BY <1>4, RateSame
<1>5. QED
  BY <1>1, <1>2, <1>3, <1>4
     DEF Next, vars, Step, Arrive, Refuse, AcquireSlot, Auth, CompatGate, McpGate, McpAuth,
         Return, TimesOut, Stick, Disconnect, Panic, Reconfigure, Shutdown, ShutdownEnds

LEMMA RateHolds ==
    ASSUME TypeOK, RateInv
    PROVE  RateBound
<1> SUFFICES ASSUME NEW s \in Sources, NEW i \in 0..Window, NEW j \in 0..Window, i <= j
             PROVE  AdmittedIn(s, i, j) <= Burst + Rate * (j - i)
  BY DEF RateBound
<1>1. Burst \in Nat /\ Rate \in Nat /\ Window \in Nat /\ Tokens("rest", s) \in Nat
  BY TokensType, GateAssumption
<1>2. \A t \in 0..Window : admitted[s][t] \in Nat
  BY DEF TypeOK
<1>3. CASE i = 0
  <2>1. AdmittedIn(s, i, j) = admitted[s][j] /\ j - i = j
    BY <1>2, <1>3 DEF AdmittedIn
  <2>2. admitted[s][j] + Tokens("rest", s) <= Burst + Rate * j /\ Rate * j \in Nat
    BY <1>1 DEF RateInv, Earned
  <2>3. QED
    BY <1>1, <1>2, <2>1, <2>2
<1>4. CASE i # 0
  <2>1. i - 1 \in 0..Window /\ i - 1 < j /\ j - ((i - 1) + 1) = j - i
    BY <1>1, <1>4
  <2>2. admitted[s][j] - admitted[s][i - 1] <= Burst + Rate * (j - ((i - 1) + 1))
    BY <2>1 DEF RateInv, Spaced
  <2>3. QED
    BY <1>4, <2>1, <2>2 DEF AdmittedIn
<1>5. QED
  BY <1>3, <1>4

\* limiter.allow keeps every source within the burst and the rate over every stretch of
\* time, over all REST routes, mounts and the SPA together, although evictIdleLocked forgets
\* buckets: for every rate, burst, idle time, and window.
THEOREM RateAlwaysBounded == Spec => []RateBound
<1>1. Init => TypeOK /\ RateInv
  BY GateInitTypes, RateInit
<1>2. TypeOK /\ RateInv /\ [Next]_vars => (TypeOK /\ RateInv)'
  BY TypeStep, RateNext
<1>3. TypeOK /\ RateInv => RateBound
  BY RateHolds
<1>4. QED
  BY <1>1, <1>2, <1>3, PTL DEF Spec

-----------------------------------------------------------------------------
(* Compiled identities and whom they name.                                 *)

TokenIds == {t.id : t \in UNION {ToSet(spec.tokens) : spec \in Specs}} \cup {"loopback"}

\* What FromSpec leaves of the tokens: known roles and scopes, no digest twice.
TokensKnown(v) ==
    /\ DOMAIN v.tokens = 1..Len(v.tokens)
    /\ \A i \in DOMAIN v.tokens : PrincipalOf(v.tokens[i]) \in Principals
    /\ \A i, j \in DOMAIN v.tokens : v.tokens[i].digest = v.tokens[j].digest => i = j
    /\ v.basic # Nobody => v.basic.idx \in DOMAIN v.tokens

LEMMA GrantKnown ==
    ASSUME NEW role \in Roles \cup {""}, NEW scopes \in SUBSET Scopes
    PROVE  ExpandScopes(role, scopes).role \in Roles
           /\ ExpandScopes(role, scopes).scopes \in SUBSET Scopes
  BY DEF ExpandScopes, DefaultScopes, Roles, Scopes

LEMMA ElementOf ==
    ASSUME NEW S, NEW s \in Seq(S), NEW i \in 1..Len(s)
    PROVE  s[i] \in S
  OBVIOUS

LEMMA CompiledKnown ==
    ASSUME NEW spec \in Specs, NEW fs, FromSpec(spec, fs) # Nobody
    PROVE  TokensKnown(FromSpec(spec, fs))
<1> DEFINE toks == spec.tokens
           v == FromSpec(spec, fs)
           Grant(i) == ExpandScopes(toks[i].role, toks[i].scopes)
           Row(i) == [id |-> toks[i].id, digest |-> fs[toks[i].file],
                      role |-> Grant(i).role, scopes |-> Grant(i).scopes]
<1>1. toks \in Seq([id : STRING, file : Files, role : STRING, scopes : SUBSET Scopes])
  BY ReloadAssumption
<1>2. DOMAIN toks = 1..Len(toks)
  BY <1>1
<1>3. /\ \A i \in DOMAIN toks : ~TokenRefused(toks, fs, i)
      /\ ~BasicRefused(spec, fs)
      /\ v.tokens = [i \in DOMAIN toks |-> Row(i)]
      /\ v.basic = IF UsesBasic(spec)
                   THEN [user |-> spec.basic.user, pass |-> fs[spec.basic.file],
                         idx |-> CHOOSE i \in RefIndex(spec) : TRUE]
                   ELSE Nobody
  BY DEF FromSpec
<1>a. DOMAIN v.tokens = DOMAIN toks
  BY <1>3
<1>b. ASSUME NEW i \in DOMAIN toks
      PROVE  /\ v.tokens[i].id = toks[i].id /\ v.tokens[i].digest = fs[toks[i].file]
             /\ v.tokens[i].role = Grant(i).role /\ v.tokens[i].scopes = Grant(i).scopes
  <2> HIDE DEF toks, v, Grant, Row
  <2>1. v.tokens[i] = Row(i)
    BY <1>3
  <2>2. /\ Row(i).id = toks[i].id /\ Row(i).digest = fs[toks[i].file]
        /\ Row(i).role = Grant(i).role /\ Row(i).scopes = Grant(i).scopes
    BY DEF Row
  <2>3. QED
    BY <2>1, <2>2
<1> HIDE DEF toks, v, Row
<1>4. DOMAIN v.tokens = 1..Len(v.tokens)
  <2>1. DOMAIN v.tokens = 1..Len(toks) /\ Len(toks) \in Nat
    BY <1>1, <1>2, <1>a
  <2>2. QED
    BY <2>1
<1>5. ASSUME NEW i \in DOMAIN v.tokens
      PROVE  PrincipalOf(v.tokens[i]) \in Principals
  <2>1. i \in DOMAIN toks /\ toks[i] \in [id : STRING, file : Files, role : STRING,
                                         scopes : SUBSET Scopes]
    BY <1>1, <1>2, <1>a, ElementOf
  <2>2. toks[i].role \in Roles \cup {""}
    BY <1>3, <2>1 DEF TokenRefused
  <2>3. Grant(i).role \in Roles /\ Grant(i).scopes \in SUBSET Scopes
    BY <2>1, <2>2, GrantKnown
  <2>4. toks[i].id \in {t.id : t \in UNION {ToSet(sp.tokens) : sp \in Specs}}
    BY <2>1 DEF ToSet, toks
  <2>5. PrincipalOf(v.tokens[i]) = [id |-> toks[i].id, class |-> "token", role |-> Grant(i).role,
                                    scopes |-> Grant(i).scopes]
    BY <1>b, <2>1 DEF PrincipalOf
  <2>6. QED
    BY <2>3, <2>4, <2>5 DEF Principals
<1>6. ASSUME NEW i \in DOMAIN v.tokens, NEW j \in DOMAIN v.tokens,
             v.tokens[i].digest = v.tokens[j].digest
      PROVE  i = j
  <2>1. /\ i \in 1..Len(toks) /\ j \in 1..Len(toks) /\ Len(toks) \in Nat
        /\ fs[toks[i].file] = fs[toks[j].file]
    BY <1>1, <1>2, <1>6, <1>a, <1>b
  <2>2. ASSUME NEW k \in 1..Len(toks), NEW l \in 1..Len(toks), k < l
        PROVE  fs[toks[k].file] # fs[toks[l].file]
    <3>1. k \in 1..(l - 1) /\ l \in DOMAIN toks
      BY <1>2, <2>1, <2>2
    <3>2. QED
      BY <1>3, <3>1 DEF TokenRefused
  <2>3. QED
    BY <2>1, <2>2
<1>7. ASSUME v.basic # Nobody
      PROVE  v.basic.idx \in DOMAIN v.tokens
  <2>1. UsesBasic(spec) /\ RefIndex(spec) # {}
    BY <1>3, <1>7 DEF BasicRefused
  <2>2. v.basic.idx \in RefIndex(spec)
    BY <1>3, <2>1
  <2>3. QED
    BY <1>a, <2>2 DEF RefIndex, toks
<1>8. QED
  BY <1>4, <1>5, <1>6, <1>7 DEF TokensKnown, v

\* What compiles is an identity.
LEMMA Compiles ==
    ASSUME NEW spec \in Specs, NEW fs \in [Files -> Contents], FromSpec(spec, fs) # Nobody
    PROVE  FromSpec(spec, fs) \in Identities
  BY DEF Identities

LEMMA IdentityKnown ==
    ASSUME NEW v \in Identities
    PROVE  TokensKnown(v)
<1>1. PICK spec \in Specs, fs \in [Files -> Contents] : v = FromSpec(spec, fs) /\ v # Nobody
  BY DEF Identities
<1>2. QED
  BY <1>1, CompiledKnown

\* Exactly one token has the digest, or none.
LEMMA BearerNames ==
    ASSUME NEW v \in Identities, NEW secret
    PROVE  \/ /\ \E i \in DOMAIN v.tokens :
                    /\ v.tokens[i].digest = secret
                    /\ AuthenticateBearer(v, secret) = PrincipalOf(v.tokens[i])
           \/ /\ \A i \in DOMAIN v.tokens : v.tokens[i].digest # secret
              /\ AuthenticateBearer(v, secret) = Nobody
<1> DEFINE hits == {i \in DOMAIN v.tokens : v.tokens[i].digest = secret}
<1>1. TokensKnown(v)
  BY IdentityKnown
<1>2. CASE hits = {}
  <2>1. Cardinality(hits) = 0
    BY <1>2, FS_EmptySet
  <2>2. QED
    BY <1>2, <2>1 DEF AuthenticateBearer
<1>3. ASSUME NEW i \in hits
      PROVE  /\ v.tokens[i].digest = secret /\ i \in DOMAIN v.tokens
             /\ AuthenticateBearer(v, secret) = PrincipalOf(v.tokens[i])
  <2>1. hits = {i}
    BY <1>1 DEF TokensKnown
  <2>2. Cardinality(hits) = 1 /\ (CHOOSE j \in hits : TRUE) = i
    BY <2>1, FS_Singleton
  <2>3. QED
    BY <2>2 DEF AuthenticateBearer
<1>4. QED
  BY <1>2, <1>3

LEMMA HeaderNames ==
    ASSUME NEW v \in Identities, NEW cred, NEW lo
    PROVE  AuthenticateHeader(v, cred, lo) \in Principals \cup {Nobody}
<1>1. TokensKnown(v)
  BY IdentityKnown
<1>2. \A secret : AuthenticateBearer(v, secret) \in Principals \cup {Nobody}
  BY <1>1, BearerNames DEF TokensKnown
<1>3. \A user, pass : AuthenticateBasic(v, user, pass) \in Principals \cup {Nobody}
  BY <1>1 DEF TokensKnown, AuthenticateBasic, BasicEnabled
<1>4. AuthenticateNone(v, lo) \in Principals \cup {Nobody}
  BY DEF AuthenticateNone, LoopbackPrincipal, Principals, Roles, Scopes
<1>5. QED
  BY <1>2, <1>3, <1>4 DEF AuthenticateHeader

-----------------------------------------------------------------------------
(* The values of the reloads, and what each of their steps does.           *)

ReloadPcs == {"idle", "active", "read", "compare", "replace", "install", "refresh", "store",
              "clear", "after"}

ReloadRecord ==
    [pc : ReloadPcs, kind : {"apply", "reset"}, hooks : Seq({"mcp", "rest"}),
     spec : Specs \cup {Nobody}, next : Identities \cup {Nobody}, mine : BOOLEAN,
     changed : BOOLEAN, actor : Principals \cup {Nobody}, edits : Nat]

\* What a hook under way holds.
HookKnown(q) ==
    /\ q.pc # "idle" => Len(q.hooks) > 0
    /\ q.pc = "read" => q.spec \in Specs
    /\ q.pc \in {"compare", "replace", "install"} => q.next \in Identities

ReloadValues ==
    /\ proc \in {"serve", "stdio", "open"}
    /\ active \in Specs
    /\ files \in [Files -> Contents]
    /\ verifier \in Identities
    /\ edits \in Nat
    /\ reload \in [Reloaders -> ReloadRecord]
    /\ \A r \in Reloaders : HookKnown(reload[r])

LEMMA IdleReloadType == IdleReload \in ReloadRecord /\ HookKnown(IdleReload)
<1>1. <<>> \in Seq({"mcp", "rest"})
  OBVIOUS
<1>2. QED
  BY <1>1 DEF IdleReload, ReloadRecord, ReloadPcs, HookKnown

\* The record of a hook that is about to begin.
Begun(hooks, k, e) ==
    [IdleReload EXCEPT !.pc = "active", !.kind = k, !.hooks = hooks, !.edits = e]

LEMMA BegunType ==
    ASSUME NEW hooks \in Seq({"mcp", "rest"}), Len(hooks) > 0,
           NEW k \in {"apply", "reset"}, NEW e \in Nat
    PROVE  /\ Begun(hooks, k, e) \in ReloadRecord /\ HookKnown(Begun(hooks, k, e))
           /\ Begun(hooks, k, e).pc = "active"
           /\ Begun(hooks, k, e).kind = k /\ Begun(hooks, k, e).edits = e
<1>1. /\ Begun(hooks, k, e) \in ReloadRecord
      /\ Begun(hooks, k, e).pc = "active" /\ Begun(hooks, k, e).hooks = hooks
      /\ Begun(hooks, k, e).kind = k /\ Begun(hooks, k, e).edits = e
  BY IdleReloadType DEF Begun, ReloadRecord, ReloadPcs
<1>2. HookKnown(Begun(hooks, k, e))
  BY <1>1 DEF HookKnown
<1>3. QED
  BY <1>1, <1>2

LEMMA ShorterTail ==
    ASSUME NEW S, NEW s \in Seq(S), Len(s) > 0, Len(s) # 1
    PROVE  Tail(s) \in Seq(S) /\ Len(Tail(s)) > 0
<1>1. Len(s) \in Nat /\ s # <<>>
  OBVIOUS
<1>2. Tail(s) \in Seq(S) /\ Len(Tail(s)) = Len(s) - 1
  BY <1>1
<1>3. QED
  BY <1>1, <1>2

LEMMA NextHookType ==
    ASSUME NEW q \in ReloadRecord, Len(q.hooks) > 0
    PROVE  /\ NextHook(q) \in ReloadRecord /\ HookKnown(NextHook(q))
           /\ NextHook(q).pc \in {"idle", "active"}
           /\ NextHook(q).pc = "active" => /\ NextHook(q).kind = q.kind
                                           /\ NextHook(q).edits = q.edits
<1>1. CASE Len(q.hooks) = 1
  <2>1. NextHook(q) = IdleReload
    BY <1>1 DEF NextHook
  <2>2. QED
    BY <2>1, IdleReloadType DEF IdleReload
<1>2. CASE Len(q.hooks) # 1
  <2>1. NextHook(q) = Begun(Tail(q.hooks), q.kind, q.edits)
    BY <1>2 DEF NextHook, Begun
  <2>2. q.hooks \in Seq({"mcp", "rest"}) /\ q.kind \in {"apply", "reset"} /\ q.edits \in Nat
    BY DEF ReloadRecord
  <2>3. Tail(q.hooks) \in Seq({"mcp", "rest"}) /\ Len(Tail(q.hooks)) > 0
    BY <1>2, <2>2, ShorterTail
  <2> DEFINE n == Begun(Tail(q.hooks), q.kind, q.edits)
  <2>4. n \in ReloadRecord /\ HookKnown(n) /\ n.pc = "active" /\ n.kind = q.kind /\ n.edits = q.edits
    <3>1. PICK h \in Seq({"mcp", "rest"}) : h = Tail(q.hooks) /\ Len(h) > 0
      BY <2>3
    <3>2. PICK k \in {"apply", "reset"} : k = q.kind
      BY <2>2
    <3>3. PICK e \in Nat : e = q.edits
      BY <2>2
    <3>a. Len(h) > 0
      BY <3>1
    <3> HIDE DEF n
    <3>4. /\ Begun(h, k, e) \in ReloadRecord /\ HookKnown(Begun(h, k, e))
          /\ Begun(h, k, e).pc = "active" /\ Begun(h, k, e).kind = k /\ Begun(h, k, e).edits = e
      BY <3>a, BegunType
    <3>5. n = Begun(h, k, e)
      BY <3>1, <3>2, <3>3 DEF n
    <3>6. QED
      BY <3>2, <3>3, <3>4, <3>5
  <2> HIDE DEF n
  <2>5. NextHook(q) = n
    BY <2>1 DEF n
  <2>6. QED
    BY <2>4, <2>5
<1>3. QED
  BY <1>1, <1>2

\* Reloader r goes on to q; the others stay.
Becomes(r, q) ==
    /\ q \in ReloadRecord /\ HookKnown(q)
    /\ reload' = [reload EXCEPT ![r] = q]

LEMMA BecomesIs ==
    ASSUME ReloadValues, NEW r \in Reloaders, NEW q, Becomes(r, q)
    PROVE  /\ reload'[r] = q
           /\ \A s \in Reloaders : s # r => reload'[s] = reload[s]
           /\ reload' \in [Reloaders -> ReloadRecord]
           /\ \A s \in Reloaders : HookKnown(reload'[s])
<1>1. \A s \in Reloaders : reload'[s] = IF s = r THEN q ELSE reload[s]
  BY DEF ReloadValues, Becomes
<1>2. reload' \in [Reloaders -> ReloadRecord]
  BY DEF ReloadValues, Becomes
<1>3. QED
  BY <1>1, <1>2 DEF ReloadValues, Becomes

LEMMA StartedIs ==
    ASSUME ReloadValues, NEW r \in Reloaders, NEW k \in {"apply", "reset"}, Started(r, k)
    PROVE  \E q : Becomes(r, q) /\ q.pc = "active" /\ q.kind = k /\ q.edits = edits
<1>1. Hooks \in Seq({"mcp", "rest"}) /\ Len(Hooks) > 0
  <2>1. CASE proc = "serve"
    <3>1. Hooks = <<"mcp", "rest">>
      BY <2>1 DEF Hooks
    <3>2. QED
      BY <3>1
  <2>2. CASE proc # "serve"
    <3>1. Hooks = <<"mcp">>
      BY <2>2 DEF Hooks
    <3>2. QED
      BY <3>1
  <2>3. QED
    BY <2>1, <2>2
<1>2. reload' = [reload EXCEPT ![r] = Begun(Hooks, k, edits)]
  BY DEF Started, Begun
<1> DEFINE q == Begun(Hooks, k, edits)
<1>3. q \in ReloadRecord /\ HookKnown(q) /\ q.pc = "active" /\ q.kind = k /\ q.edits = edits
  BY <1>1, BegunType DEF ReloadValues
<1>4. Becomes(r, q)
  BY <1>2, <1>3 DEF Becomes
<1>5. QED
  BY <1>3, <1>4

\* A hook's own step keeps what its commit was.
Keeps(q, p) == q.pc # "idle" => q.kind = p.kind /\ q.edits = p.edits

LEMMA LoadIs ==
    ASSUME ReloadValues, NEW r \in Reloaders, LoadActive(r)
    PROVE  \E q : /\ Becomes(r, q) /\ Keeps(q, reload[r])
                  /\ q.pc = "read" /\ q.spec = active
<1>1. SUFFICES ASSUME NEW p, p = reload[r], NEW q, q = [p EXCEPT !.pc = "read", !.spec = active]
               PROVE  Becomes(r, q) /\ Keeps(q, p) /\ q.pc = "read" /\ q.spec = active
  OBVIOUS
<1>2. p \in ReloadRecord /\ HookKnown(p) /\ p.pc = "active" /\ active \in Specs
  BY <1>1 DEF ReloadValues, LoadActive
<1>3. /\ q \in ReloadRecord /\ HookKnown(q) /\ q.pc = "read" /\ q.spec = active
      /\ q.kind = p.kind /\ q.edits = p.edits
  BY <1>1, <1>2 DEF ReloadRecord, ReloadPcs, HookKnown
<1>4. reload' = [reload EXCEPT ![r] = q]
  BY <1>1 DEF LoadActive, ReloadValues
<1>5. QED
  BY <1>3, <1>4 DEF Becomes, Keeps

LEMMA ReadIs ==
    ASSUME ReloadValues, NEW r \in Reloaders, ReadSecrets(r)
    PROVE  \E q : /\ Becomes(r, q) /\ Keeps(q, reload[r])
                  /\ \/ /\ FromSpec(reload[r].spec, files) = Nobody
                        /\ q.pc \in {"idle", "active"}
                     \/ /\ FromSpec(reload[r].spec, files) # Nobody
                        /\ q.pc \in {"compare", "replace"}
                        /\ q.next = FromSpec(reload[r].spec, files)
<1>1. SUFFICES ASSUME NEW p, p = reload[r], NEW next, next = FromSpec(p.spec, files)
               PROVE  \E q : /\ Becomes(r, q) /\ Keeps(q, p)
                             /\ \/ next = Nobody /\ q.pc \in {"idle", "active"}
                                \/ /\ next # Nobody
                                   /\ q.pc \in {"compare", "replace"} /\ q.next = next
  OBVIOUS
<1>2. /\ p \in ReloadRecord /\ HookKnown(p) /\ p.pc = "read" /\ p.spec \in Specs
      /\ Len(p.hooks) > 0
  BY <1>1 DEF ReloadValues, ReadSecrets, HookKnown
<1>3. CASE next = Nobody
  <2>1. reload' = [reload EXCEPT ![r] = NextHook(p)]
    BY <1>1, <1>3 DEF ReadSecrets
  <2>2. QED
    BY <1>2, <1>3, <2>1, NextHookType DEF Becomes, Keeps
<1>4. CASE next # Nobody
  <2> DEFINE pc == IF Head(p.hooks) = "rest" THEN "compare" ELSE "replace"
  <2>1. SUFFICES ASSUME NEW q, q = [p EXCEPT !.next = next, !.spec = Nobody, !.pc = pc]
                 PROVE  /\ Becomes(r, q) /\ Keeps(q, p)
                        /\ q.pc \in {"compare", "replace"} /\ q.next = next
    BY <1>4
  <2>2. next \in Identities
    BY <1>1, <1>2, <1>4, Compiles DEF ReloadValues
  <2>3. pc \in {"compare", "replace"}
    OBVIOUS
  <2>4. reload' = [reload EXCEPT ![r] = q]
    BY <1>1, <1>4, <2>1 DEF ReadSecrets
  <2> HIDE DEF pc
  <2>5. /\ q \in ReloadRecord /\ HookKnown(q) /\ q.pc = pc /\ q.next = next
        /\ q.kind = p.kind /\ q.edits = p.edits
    BY <1>2, <2>1, <2>2, <2>3 DEF ReloadRecord, ReloadPcs, HookKnown
  <2>6. QED
    BY <2>3, <2>4, <2>5 DEF Becomes, Keeps
<1>5. QED
  BY <1>3, <1>4

LEMMA CompareIs ==
    ASSUME ReloadValues, NEW r \in Reloaders, Compare(r)
    PROVE  \E q : /\ Becomes(r, q) /\ Keeps(q, reload[r])
                  /\ q.pc = "replace" /\ q.next = reload[r].next
<1>1. SUFFICES ASSUME NEW p, p = reload[r], NEW d, d = Changed(r),
                      NEW q, q = [p EXCEPT !.pc = "replace", !.mine = d]
               PROVE  Becomes(r, q) /\ Keeps(q, p) /\ q.pc = "replace" /\ q.next = p.next
  OBVIOUS
<1>2. p \in ReloadRecord /\ HookKnown(p) /\ p.pc = "compare" /\ d \in BOOLEAN
  BY <1>1 DEF ReloadValues, Compare, Changed, Equivalent
<1>3. /\ q \in ReloadRecord /\ HookKnown(q) /\ q.kind = p.kind /\ q.edits = p.edits
      /\ q.pc = "replace" /\ q.next = p.next
  BY <1>1, <1>2 DEF ReloadRecord, ReloadPcs, HookKnown
<1>4. reload' = [reload EXCEPT ![r] = q]
  BY <1>1 DEF Compare, ReloadValues
<1>5. QED
  BY <1>3, <1>4 DEF Becomes, Keeps

LEMMA ReplaceIs ==
    ASSUME ReloadValues, NEW r \in Reloaders, Replace(r)
    PROVE  \E q : /\ Becomes(r, q) /\ Keeps(q, reload[r])
                  /\ q.pc = "install" /\ q.next = reload[r].next /\ q.changed = Changed(r)
<1>1. SUFFICES ASSUME NEW p, p = reload[r], NEW d, d = Changed(r),
                      NEW q, q = [p EXCEPT !.pc = "install", !.changed = d]
               PROVE  Becomes(r, q) /\ Keeps(q, p) /\ q.pc = "install" /\ q.next = p.next /\ q.changed = Changed(r)
  OBVIOUS
<1>2. p \in ReloadRecord /\ HookKnown(p) /\ p.pc = "replace" /\ d \in BOOLEAN
  BY <1>1 DEF ReloadValues, Replace, Changed, Equivalent
<1>3. /\ q \in ReloadRecord /\ HookKnown(q) /\ q.kind = p.kind /\ q.edits = p.edits
      /\ q.pc = "install" /\ q.next = p.next /\ q.changed = Changed(r)
  BY <1>1, <1>2 DEF ReloadRecord, ReloadPcs, HookKnown
<1>4. reload' = [reload EXCEPT ![r] = q]
  BY <1>1 DEF Replace, ReloadValues
<1>5. QED
  BY <1>3, <1>4 DEF Becomes, Keeps

LEMMA InstallIs ==
    ASSUME ReloadValues, NEW r \in Reloaders, Install(r)
    PROVE  \E q : /\ Becomes(r, q) /\ Keeps(q, reload[r])
                  /\ q.pc = IF reload[r].changed THEN "refresh" ELSE "after"
<1>1. SUFFICES ASSUME NEW p, p = reload[r], NEW pc, pc = IF p.changed THEN "refresh" ELSE "after",
                      NEW q, q = [p EXCEPT !.pc = pc, !.next = Nobody, !.changed = FALSE]
               PROVE  Becomes(r, q) /\ Keeps(q, p) /\ q.pc = IF p.changed THEN "refresh" ELSE "after"
  OBVIOUS
<1>2. p \in ReloadRecord /\ HookKnown(p) /\ p.pc = "install" /\ pc \in {"refresh", "after"}
  BY <1>1 DEF ReloadValues, Install
<1>3. /\ q \in ReloadRecord /\ HookKnown(q) /\ q.kind = p.kind /\ q.edits = p.edits
      /\ q.pc = IF p.changed THEN "refresh" ELSE "after"
  BY <1>1, <1>2 DEF ReloadRecord, ReloadPcs, HookKnown
<1>4. reload' = [reload EXCEPT ![r] = q]
  BY <1>1 DEF Install, ReloadValues
<1>5. QED
  BY <1>3, <1>4 DEF Becomes, Keeps

LEMMA StdioActorType ==
    ASSUME ReloadValues
    PROVE  StdioActor(verifier) \in Principals \cup {Nobody}
<1>1. TokensKnown(verifier)
  BY IdentityKnown DEF ReloadValues
<1>2. QED
  BY <1>1, BearerNames DEF StdioActor, ReloadValues, TokensKnown

LEMMA RefreshIs ==
    ASSUME ReloadValues, NEW r \in Reloaders, Refresh(r)
    PROVE  \E q : /\ Becomes(r, q) /\ Keeps(q, reload[r])
                  /\ q.pc = "store" /\ q.actor = StdioActor(verifier)
<1>1. SUFFICES ASSUME NEW p, p = reload[r], NEW a, a = StdioActor(verifier),
                      NEW q, q = [p EXCEPT !.pc = "store", !.actor = a]
               PROVE  Becomes(r, q) /\ Keeps(q, p) /\ q.pc = "store" /\ q.actor = StdioActor(verifier)
  OBVIOUS
<1>2. p \in ReloadRecord /\ HookKnown(p) /\ p.pc = "refresh" /\ a \in Principals \cup {Nobody}
  BY <1>1, StdioActorType DEF ReloadValues, Refresh
<1>3. /\ q \in ReloadRecord /\ HookKnown(q) /\ q.kind = p.kind /\ q.edits = p.edits
      /\ q.pc = "store" /\ q.actor = StdioActor(verifier)
  BY <1>1, <1>2 DEF ReloadRecord, ReloadPcs, HookKnown
<1>4. reload' = [reload EXCEPT ![r] = q]
  BY <1>1 DEF Refresh, ReloadValues
<1>5. QED
  BY <1>3, <1>4 DEF Becomes, Keeps

LEMMA StoreIs ==
    ASSUME ReloadValues, NEW r \in Reloaders, StoreActor(r)
    PROVE  \E q : /\ Becomes(r, q) /\ Keeps(q, reload[r])
                  /\ q.pc = IF proc = "serve" THEN "clear" ELSE "after"
<1>1. SUFFICES ASSUME NEW p, p = reload[r], NEW pc, pc = IF proc = "serve" THEN "clear" ELSE "after",
                      NEW q, q = [p EXCEPT !.pc = pc, !.actor = Nobody]
               PROVE  Becomes(r, q) /\ Keeps(q, p) /\ q.pc = IF proc = "serve" THEN "clear" ELSE "after"
  OBVIOUS
<1>2. p \in ReloadRecord /\ HookKnown(p) /\ p.pc = "store" /\ pc \in {"clear", "after"}
  BY <1>1 DEF ReloadValues, StoreActor
<1>3. /\ q \in ReloadRecord /\ HookKnown(q) /\ q.kind = p.kind /\ q.edits = p.edits
      /\ q.pc = IF proc = "serve" THEN "clear" ELSE "after"
  BY <1>1, <1>2 DEF ReloadRecord, ReloadPcs, HookKnown
<1>4. reload' = [reload EXCEPT ![r] = q]
  BY <1>1 DEF StoreActor, ReloadValues
<1>5. QED
  BY <1>3, <1>4 DEF Becomes, Keeps

LEMMA ClearIs ==
    ASSUME ReloadValues, NEW r \in Reloaders, ClearSessions(r)
    PROVE  \E q : /\ Becomes(r, q) /\ Keeps(q, reload[r])
                  /\ q.pc = "after"
<1>1. SUFFICES ASSUME NEW p, p = reload[r],
                      NEW q, q = [p EXCEPT !.pc = "after"]
               PROVE  Becomes(r, q) /\ Keeps(q, p) /\ q.pc = "after"
  OBVIOUS
<1>2. p \in ReloadRecord /\ HookKnown(p) /\ p.pc = "clear"
  BY <1>1 DEF ReloadValues, ClearSessions
<1>3. /\ q \in ReloadRecord /\ HookKnown(q) /\ q.kind = p.kind /\ q.edits = p.edits
      /\ q.pc = "after"
  BY <1>1, <1>2 DEF ReloadRecord, ReloadPcs, HookKnown
<1>4. reload' = [reload EXCEPT ![r] = q]
  BY <1>1 DEF ClearSessions, ReloadValues
<1>5. QED
  BY <1>3, <1>4 DEF Becomes, Keeps

LEMMA AfterIs ==
    ASSUME ReloadValues, NEW r \in Reloaders, AfterReplace(r)
    PROVE  \E q : Becomes(r, q) /\ Keeps(q, reload[r]) /\ q.pc \in {"idle", "active"}
<1>1. reload[r] \in ReloadRecord /\ Len(reload[r].hooks) > 0
  BY DEF ReloadValues, AfterReplace, HookKnown
<1>2. reload' = [reload EXCEPT ![r] = NextHook(reload[r])]
  BY DEF AfterReplace, ReloadValues
<1>3. QED
  BY <1>1, <1>2, NextHookType DEF Becomes, Keeps

\* Every step of a reload moves its own record and leaves the commit alone.
LEMMA HookStep ==
    ASSUME ReloadValues, NEW r \in Reloaders, ReloadStep(r)
    PROVE  /\ reload[r].pc # "idle"
           /\ UNCHANGED <<proc, active, files, edits>>
           /\ verifier' \in Identities
           /\ \E q : /\ Becomes(r, q) /\ Keeps(q, reload[r])
                     /\ q.pc = "read" => q.spec = active
<1>1. CASE LoadActive(r)
  BY <1>1, LoadIs DEF LoadActive, held, ReloadValues
<1>2. CASE ReadSecrets(r)
  <2>1. PICK q : Becomes(r, q) /\ Keeps(q, reload[r]) /\ q.pc # "read"
    BY <1>2, ReadIs
  <2>2. QED
    BY <1>2, <2>1 DEF ReadSecrets, held, ReloadValues
<1>3. CASE Compare(r)
  <2>1. PICK q : Becomes(r, q) /\ Keeps(q, reload[r]) /\ q.pc # "read"
    BY <1>3, CompareIs
  <2>2. QED
    BY <1>3, <2>1 DEF Compare, held, ReloadValues
<1>4. CASE Replace(r)
  <2>1. PICK q : Becomes(r, q) /\ Keeps(q, reload[r]) /\ q.pc # "read"
    BY <1>4, ReplaceIs
  <2>2. QED
    BY <1>4, <2>1 DEF Replace, held, ReloadValues
<1>5. CASE Install(r)
  <2>1. PICK q : Becomes(r, q) /\ Keeps(q, reload[r]) /\ q.pc # "read"
    BY <1>5, InstallIs
  <2>2. QED
    BY <1>5, <2>1 DEF Install, ReloadValues, HookKnown
<1>6. CASE Refresh(r)
  <2>1. PICK q : Becomes(r, q) /\ Keeps(q, reload[r]) /\ q.pc # "read"
    BY <1>6, RefreshIs
  <2>2. QED
    BY <1>6, <2>1 DEF Refresh, held, ReloadValues
<1>7. CASE StoreActor(r)
  <2>1. PICK q : Becomes(r, q) /\ Keeps(q, reload[r]) /\ q.pc # "read"
    BY <1>7, StoreIs
  <2>2. QED
    BY <1>7, <2>1 DEF StoreActor, ReloadValues
<1>8. CASE ClearSessions(r)
  <2>1. PICK q : Becomes(r, q) /\ Keeps(q, reload[r]) /\ q.pc # "read"
    BY <1>8, ClearIs
  <2>2. QED
    BY <1>8, <2>1 DEF ClearSessions, ReloadValues
<1>9. CASE AfterReplace(r)
  <2>1. PICK q : Becomes(r, q) /\ Keeps(q, reload[r]) /\ q.pc # "read"
    BY <1>9, AfterIs
  <2>2. QED
    BY <1>9, <2>1 DEF AfterReplace, ReloadValues
<1>10. QED
  BY <1>1, <1>2, <1>3, <1>4, <1>5, <1>6, <1>7, <1>8, <1>9 DEF ReloadStep

\* A step of a request: reloads, identities and files stay.
LEMMA CallerStep ==
    ASSUME NEW c, \/ ClientStep(c) \/ StreamTick(c) \/ CloseStream(c)
                  \/ \E op \in Sent, cred \in Creds, lo \in Peers : Authenticate(c, op, cred, lo)
    PROVE  UNCHANGED <<proc, active, files, verifier, stdio, reload, now, commits, edits, overlap>>
  BY DEF ClientStep, Authorize, Dispatch, StreamTick, CloseStream, Authenticate, held

\* A reset that is still as its preflight saw the files loads.
ResetLoads(q) ==
    /\ q.pc # "idle" => q.edits <= edits
    /\ q.pc # "idle" /\ q.kind = "reset" /\ q.edits = edits =>
          /\ FromSpec(active, files) # Nobody
          /\ q.pc = "read" => FromSpec(q.spec, files) # Nobody

CommitInv == ReloadValues /\ \A r \in Reloaders : ResetLoads(reload[r])

LEMMA CommitInvInit == AuthInit => CommitInv
<1> SUFFICES ASSUME AuthInit PROVE CommitInv
  OBVIOUS
<1>1. verifier \in Identities
  BY ReloadAssumption, Compiles DEF AuthInit
<1>2. reload \in [Reloaders -> ReloadRecord] /\ \A r \in Reloaders : reload[r] = IdleReload
  BY IdleReloadType DEF AuthInit
<1>3. ReloadValues
  BY <1>1, <1>2, ReloadAssumption, IdleReloadType DEF AuthInit, ReloadValues
<1>4. QED
  BY <1>2, <1>3 DEF CommitInv, ResetLoads, IdleReload, AuthInit

LEMMA CommitInvKept == CommitInv /\ [AuthNext]_authVars => CommitInv'
<1> SUFFICES ASSUME CommitInv, [AuthNext]_authVars PROVE CommitInv'
  OBVIOUS
<1>a. ReloadValues /\ \A r \in Reloaders : ResetLoads(reload[r])
  BY DEF CommitInv
<1>1. ASSUME NEW r \in Reloaders, ReloadStep(r)
      PROVE  CommitInv'
  <2>1. /\ reload[r].pc # "idle" /\ UNCHANGED <<proc, active, files, edits>>
        /\ verifier' \in Identities
    BY <1>a, <1>1, HookStep
  <2>2. PICK q : Becomes(r, q) /\ Keeps(q, reload[r]) /\ (q.pc = "read" => q.spec = active)
    BY <1>a, <1>1, HookStep
  <2>3. /\ reload'[r] = q /\ \A s \in Reloaders : s # r => reload'[s] = reload[s]
        /\ reload' \in [Reloaders -> ReloadRecord]
        /\ \A s \in Reloaders : HookKnown(reload'[s])
    BY <1>a, <2>2, BecomesIs
  <2>4. ReloadValues'
    BY <1>a, <2>1, <2>3 DEF ReloadValues
  <2>5. ResetLoads(q)
    BY <1>a, <2>1, <2>2 DEF ResetLoads, Keeps
  <2>6. QED
    BY <1>a, <2>1, <2>3, <2>4, <2>5 DEF CommitInv, ResetLoads
<1>2. ASSUME NEW r \in Reloaders, Apply(r)
      PROVE  CommitInv'
  <2>1. UNCHANGED <<proc, active, files, edits, verifier>> /\ Started(r, "apply")
    BY <1>2 DEF Apply, held
  <2>2. PICK q : Becomes(r, q) /\ q.pc = "active" /\ q.kind = "apply" /\ q.edits = edits
    BY <1>a, <2>1, StartedIs
  <2>3. /\ reload'[r] = q /\ \A s \in Reloaders : s # r => reload'[s] = reload[s]
        /\ reload' \in [Reloaders -> ReloadRecord]
        /\ \A s \in Reloaders : HookKnown(reload'[s])
    BY <1>a, <2>2, BecomesIs
  <2>4. ReloadValues'
    BY <1>a, <2>1, <2>3 DEF ReloadValues
  <2>5. ResetLoads(q)
    BY <1>a, <2>2 DEF ResetLoads, ReloadValues
  <2>6. QED
    BY <1>a, <2>1, <2>3, <2>4, <2>5 DEF CommitInv, ResetLoads
<1>3. ASSUME NEW r \in Reloaders, NEW spec \in Specs, Reset(r, spec)
      PROVE  CommitInv'
  <2>1. /\ UNCHANGED <<proc, files, edits, verifier>> /\ Started(r, "reset")
        /\ active' = spec /\ FromSpec(spec, files) # Nobody
    BY <1>3 DEF Reset, Preflight
  <2>2. PICK q : Becomes(r, q) /\ q.pc = "active" /\ q.kind = "reset" /\ q.edits = edits
    BY <1>a, <2>1, StartedIs
  <2>3. /\ reload'[r] = q /\ \A s \in Reloaders : s # r => reload'[s] = reload[s]
        /\ reload' \in [Reloaders -> ReloadRecord]
        /\ \A s \in Reloaders : HookKnown(reload'[s])
    BY <1>a, <2>2, BecomesIs
  <2>4. ReloadValues'
    BY <1>a, <2>1, <2>3 DEF ReloadValues
  <2>5. ASSUME NEW s \in Reloaders PROVE ResetLoads(reload[s])'
    BY <1>a, <2>1, <2>2, <2>3 DEF ResetLoads, ReloadValues
  <2>6. QED
    BY <2>4, <2>5 DEF CommitInv
<1>4. ASSUME NEW c \in Callers, \/ ClientStep(c) \/ StreamTick(c) \/ CloseStream(c)
                                \/ \E op \in Sent, cred \in Creds, lo \in Peers :
                                      Authenticate(c, op, cred, lo)
      PROVE  CommitInv'
  <2>1. UNCHANGED <<proc, active, files, verifier, reload, edits>>
    BY <1>4, CallerStep
  <2>2. QED
    BY <2>1 DEF CommitInv, ReloadValues, ResetLoads
<1>5. ASSUME NEW f \in Edited, NEW content \in Contents, EditFile(f, content)
      PROVE  CommitInv'
  <2>1. /\ UNCHANGED <<proc, active, verifier, reload>> /\ edits' = edits + 1
        /\ files' \in [Files -> Contents]
    BY <1>a, <1>5, ReloadAssumption DEF EditFile, ReloadValues
  <2>2. \A s \in Reloaders : reload[s].edits \in Nat
    BY <1>a DEF ReloadValues, ReloadRecord
  <2>3. ASSUME NEW s \in Reloaders PROVE ResetLoads(reload[s])'
    BY <1>a, <2>1, <2>2 DEF ResetLoads, ReloadValues
  <2>4. QED
    BY <1>a, <2>1, <2>3 DEF CommitInv, ReloadValues
<1>6. CASE ClockTick \/ UNCHANGED authVars
  <2>1. UNCHANGED <<proc, active, files, verifier, reload, edits>>
    BY <1>6 DEF ClockTick, held, authVars
  <2>2. QED
    BY <2>1 DEF CommitInv, ReloadValues, ResetLoads
<1>7. QED
  BY <1>1, <1>2, <1>3, <1>4, <1>5, <1>6 DEF AuthNext

\* CommittedSpecLoads for every set of documents, files, reloaders and requests:
\* a committed reset loads its identity unless a file changed after its preflight.
THEOREM CommitsLoad == AuthSpec => []CommittedSpecLoads
<1>1. CommitInv => CommittedSpecLoads
  <2> SUFFICES ASSUME CommitInv, NEW r \in Reloaders, reload[r].pc = "read",
                      reload[r].kind = "reset", FromSpec(reload[r].spec, files) = Nobody
               PROVE  edits > reload[r].edits
    BY DEF CommittedSpecLoads
  <2>1. reload[r].edits \in Nat /\ edits \in Nat
    BY DEF CommitInv, ReloadValues, ReloadRecord
  <2>2. QED
    BY <2>1 DEF CommitInv, ResetLoads
<1>2. QED
  BY <1>1, CommitInvInit, CommitInvKept, PTL DEF AuthSpec

-----------------------------------------------------------------------------
(* The session table and the requests.                                     *)

Rows == [st : {"live"}, id : TokenIds, role : Roles, scopes : SUBSET Scopes,
         created : Nat, lastSeen : Nat, under : Identities]

CallRecords == [pc : {"idle", "authed", "dispatch", "stream"}, op : Ops, cred : Creds \cup {Nobody},
             loopback : BOOLEAN, actor : Principals \cup {Nobody},
             under : Identities \cup {Nobody}]

RequestKnown(q) ==
    q.pc # "idle" => q.cred \in Creds /\ q.actor \in Principals /\ q.under \in Identities

TableValues ==
    /\ sessions \in [Cookies -> {Unissued, Removed} \cup Rows]
    /\ now \in Nat
    /\ \A k \in Live : /\ sessions[k].created <= sessions[k].lastSeen
                       /\ sessions[k].lastSeen <= now

LEMMA LiveIsRow ==
    ASSUME TableValues
    PROVE  /\ Live \subseteq Cookies
           /\ \A k \in Live : sessions[k] \in Rows /\ sessions[k] # Removed /\ sessions[k] # Unissued
           /\ \A k \in Cookies : sessions[k] \in Rows => k \in Live
           /\ \A k \in Cookies : sessions[k] \in {Unissued, Removed} => k \notin Live
  BY DEF TableValues, Live, Unissued, Removed, Rows

\* A step that adds no session, and takes away before their time only those in X.
Shrinks(X) ==
    /\ sessions' \in [Cookies -> {Unissued, Removed} \cup Rows]
    /\ Live' \subseteq Live
    /\ \A k \in Live' : /\ sessions'[k].under = sessions[k].under
                        /\ sessions'[k].created <= sessions'[k].lastSeen
                        /\ sessions'[k].lastSeen <= now
    /\ \A k \in Live : sessions'[k] = Removed => Expired(sessions[k]) \/ k \in X

\* A table with row k replaced.
LEMMA OneRow ==
    ASSUME TableValues, NEW k \in Cookies, NEW row \in {Unissued, Removed} \cup Rows,
           sessions' = [sessions EXCEPT ![k] = row]
    PROVE  /\ sessions' \in [Cookies -> {Unissued, Removed} \cup Rows]
           /\ sessions'[k] = row
           /\ \A j \in Cookies : j # k => sessions'[j] = sessions[j]
           /\ Live' = (Live \ {k}) \cup (IF row \in Rows THEN {k} ELSE {})
<1>1. /\ sessions' \in [Cookies -> {Unissued, Removed} \cup Rows]
      /\ \A j \in Cookies : sessions'[j] = IF j = k THEN row ELSE sessions[j]
  BY DEF TableValues
<1>2. row.st = "live" <=> row \in Rows
  BY DEF Unissued, Removed, Rows
<1>3. Live' = (Live \ {k}) \cup (IF row \in Rows THEN {k} ELSE {})
  BY <1>1, <1>2 DEF Live
<1>4. QED
  BY <1>1, <1>3

LEMMA SameShrinks ==
    ASSUME TableValues, UNCHANGED sessions
    PROVE  Shrinks({})
<1>1. Live' = Live
  BY DEF Live
<1>2. QED
  BY <1>1, LiveIsRow DEF TableValues, Shrinks

LEMMA RemoveShrinks ==
    ASSUME TableValues, NEW k \in Live, sessions' = [sessions EXCEPT ![k] = Removed]
    PROVE  Shrinks({k})
<1>1. k \in Cookies /\ Removed \notin Rows
  BY DEF Live, Rows, Removed
<1>2. /\ sessions' \in [Cookies -> {Unissued, Removed} \cup Rows]
      /\ \A j \in Cookies : j # k => sessions'[j] = sessions[j]
      /\ Live' = Live \ {k}
  BY <1>1, OneRow
<1>3. QED
  BY <1>2, LiveIsRow DEF TableValues, Shrinks

LEMMA SweptShrinks ==
    ASSUME TableValues, NEW k \in Cookies, sessions' = Swept(k)
    PROVE  Shrinks({})
<1>1. CASE k \in Live /\ Expired(sessions[k])
  <2>1. sessions' = [sessions EXCEPT ![k] = Removed]
    BY <1>1 DEF Swept
  <2>2. QED
    BY <1>1, <2>1, RemoveShrinks DEF Shrinks
<1>2. CASE ~(k \in Live /\ Expired(sessions[k]))
  <2>1. UNCHANGED sessions
    BY <1>2 DEF Swept
  <2>2. QED
    BY <2>1, SameShrinks
<1>3. QED
  BY <1>1, <1>2

LEMMA TouchedShrinks ==
    ASSUME TableValues, NEW k \in Cookies, sessions' = Touched(k)
    PROVE  Shrinks({})
<1>1. CASE k \in Live /\ ~Expired(sessions[k])
  <2>1. PICK row : row = sessions[k]
    OBVIOUS
  <2>2. row \in Rows /\ row.created <= row.lastSeen /\ row.lastSeen <= now /\ now \in Nat
    BY <1>1, <2>1, LiveIsRow DEF TableValues
  <2>3. PICK new : new = [row EXCEPT !.lastSeen = now]
    OBVIOUS
  <2>4. new \in Rows /\ new.under = row.under /\ new.created = row.created /\ new.lastSeen = now
    BY <2>2, <2>3 DEF Rows
  <2>5. sessions' = [sessions EXCEPT ![k] = new]
    BY <1>1, <2>1, <2>3 DEF Touched, TableValues
  <2>6. /\ sessions' \in [Cookies -> {Unissued, Removed} \cup Rows]
        /\ sessions'[k] = new
        /\ \A j \in Cookies : j # k => sessions'[j] = sessions[j]
        /\ Live' = (Live \ {k}) \cup {k}
    BY <2>4, <2>5, OneRow
  <2>7. new # Removed
    BY <2>4 DEF Rows, Removed
  <2>8. row.created <= now
    BY <2>2 DEF Rows
  <2>9. QED
    BY <1>1, <2>1, <2>4, <2>6, <2>7, <2>8, <2>2, LiveIsRow DEF TableValues, Shrinks
<1>2. CASE ~(k \in Live /\ ~Expired(sessions[k]))
  <2>1. sessions' = Swept(k)
    BY <1>2 DEF Touched
  <2>2. QED
    BY <2>1, SweptShrinks
<1>3. QED
  BY <1>1, <1>2

LEMMA DeletedShrinks ==
    ASSUME TableValues, NEW k \in Cookies, sessions' = Deleted(k)
    PROVE  Shrinks({k})
<1>1. CASE k \in Live
  BY <1>1, RemoveShrinks DEF Deleted
<1>2. CASE k \notin Live
  BY <1>2, SameShrinks DEF Deleted, Shrinks
<1>3. QED
  BY <1>1, <1>2

LEMMA ClearedShrinks ==
    ASSUME TableValues, sessions' = Cleared
    PROVE  Shrinks(Live) /\ Live' = {}
<1>1. \A k \in Cookies : sessions'[k] = IF k \in Live THEN Removed ELSE sessions[k]
  BY DEF Cleared
<1>2. sessions' \in [Cookies -> {Unissued, Removed} \cup Rows]
  BY DEF Cleared, TableValues
<1>3. Live' = {}
  BY <1>1 DEF Live, Removed
<1>4. QED
  BY <1>2, <1>3 DEF Shrinks

\* Session k is created under an identity; others leave expired or pushed out.
Grows(k, under) ==
    /\ sessions' \in [Cookies -> {Unissued, Removed} \cup Rows]
    /\ sessions[k] = Unissued /\ k \in Live' /\ Live' \subseteq Live \cup {k}
    /\ sessions'[k].under = under
    /\ sessions'[k].created = now /\ sessions'[k].lastSeen = now
    /\ \A j \in Live' : j # k => sessions'[j] = sessions[j]
    /\ Cardinality(Live') <= MaxSessions
    /\ \A j \in Live : sessions'[j] = Removed =>
          \/ Expired(sessions[j])
          \/ /\ Cardinality(Live) = MaxSessions
             /\ \A i \in Live : sessions[j].lastSeen <= sessions[i].lastSeen

LEMMA CreateGrows ==
    ASSUME TableValues, Cardinality(Live) <= MaxSessions,
           NEW k \in Cookies, sessions[k] = Unissued,
           NEW actor \in Principals, NEW under \in Identities, Create(k, actor, under)
    PROVE  Grows(k, under)
<1> DEFINE kept == {j \in Live : ~Expired(sessions[j])}
           row == [st |-> "live", id |-> actor.id, role |-> actor.role, scopes |-> actor.scopes,
                   created |-> now, lastSeen |-> now, under |-> under]
<1>1. PICK out \in Evicted(kept) :
          sessions' = [j \in Cookies |-> IF j = k THEN row
                                        ELSE IF j \in Live /\ j \notin kept \ out THEN Removed
                                        ELSE sessions[j]]
  BY DEF Create
<1>2. /\ row \in Rows /\ row.under = under /\ row.created = now /\ row.lastSeen = now
      /\ row.st = "live"
  BY DEF Rows, Principals, TokenIds, TableValues
<1>3. /\ IsFiniteSet(Live) /\ IsFiniteSet(kept) /\ kept \subseteq Live
      /\ Cardinality(Live) \in Nat /\ Cardinality(kept) \in Nat
      /\ MaxSessions \in Nat \ {0}
  <2>1. Live \subseteq Cookies /\ kept \subseteq Live
    BY DEF Live
  <2>2. QED
    BY <2>1, FS_Subset, FS_CardinalityType, ReloadAssumption
<1>4. k \notin Live
  BY LiveIsRow
<1> HIDE DEF row, kept
<1>5. /\ sessions' \in [Cookies -> {Unissued, Removed} \cup Rows]
      /\ sessions'[k] = row
      /\ \A j \in Cookies : j # k => sessions'[j] = IF j \in Live /\ j \notin kept \ out THEN Removed
                                                  ELSE sessions[j]
  BY <1>1, <1>2 DEF TableValues
<1>6. Live' = {k} \cup (kept \ out)
  <2>1. Removed.st # "live" /\ kept \ out \subseteq Live /\ Live \subseteq Cookies
    BY <1>3 DEF Removed, Live
  <2>2. \A j \in Cookies : j # k => (sessions'[j].st = "live" <=> j \in kept \ out)
    BY <1>5, <2>1 DEF Live
  <2>3. sessions'[k].st = "live"
    BY <1>2, <1>5
  <2>4. QED
    BY <1>4, <2>1, <2>2, <2>3 DEF Live
<1>7. \/ Cardinality(kept) < MaxSessions /\ out = {}
      \/ /\ Cardinality(kept) >= MaxSessions
         /\ \E o \in kept : /\ out = {o}
                             /\ \A j \in kept : sessions[o].lastSeen <= sessions[j].lastSeen
  BY <1>1, <1>3 DEF Evicted, Oldest
<1>8. Cardinality(Live') <= MaxSessions
  <2>1. IsFiniteSet(kept \ out) /\ Cardinality(kept \ out) <= MaxSessions - 1
    <3>1. CASE Cardinality(kept) < MaxSessions /\ out = {}
      <4>1. kept \ out = kept
        BY <3>1
      <4>2. QED
        BY <1>3, <3>1, <4>1
    <3>2. ASSUME NEW o \in kept, out = {o}
          PROVE  IsFiniteSet(kept \ out) /\ Cardinality(kept \ out) <= MaxSessions - 1
      <4>1. IsFiniteSet(kept \ {o}) /\ Cardinality(kept \ {o}) = Cardinality(kept) - 1
        BY <1>3, FS_RemoveElement
      <4>2. Cardinality(kept) <= Cardinality(Live)
        BY <1>3, FS_Subset
      <4>3. QED
        BY <1>3, <3>2, <4>1, <4>2
    <3>3. QED
      BY <1>7, <3>1, <3>2
  <2>2. k \notin kept \ out
    BY <1>3, <1>4
  <2>3. Cardinality((kept \ out) \cup {k}) = Cardinality(kept \ out) + 1
    BY <2>1, <2>2, FS_AddElement
  <2>4. Live' = (kept \ out) \cup {k} /\ Cardinality(kept \ out) \in Nat
    BY <1>6, <2>1, FS_CardinalityType
  <2>5. QED
    BY <1>3, <2>1, <2>3, <2>4
<1>9. ASSUME NEW j \in Live, sessions'[j] = Removed, ~Expired(sessions[j])
      PROVE  /\ Cardinality(Live) = MaxSessions
             /\ \A i \in Live : sessions[j].lastSeen <= sessions[i].lastSeen
  <2>1. j \in kept
    BY <1>9 DEF kept
  <2>2. j \in out
    BY <1>4, <1>5, <1>9, <2>1, LiveIsRow
  <2>3. /\ Cardinality(kept) >= MaxSessions
        /\ \A i \in kept : sessions[j].lastSeen <= sessions[i].lastSeen
    BY <1>7, <2>2
  <2>4. kept = Live
    <3>1. Cardinality(kept) <= Cardinality(Live)
      BY <1>3, FS_Subset
    <3>2. Cardinality(kept) = Cardinality(Live)
      BY <1>3, <2>3, <3>1
    <3>3. QED
      BY <1>3, <3>2, FS_Subset
  <2>5. QED
    BY <1>3, <2>3, <2>4
<1>10. ASSUME NEW j \in Live', j # k
       PROVE  sessions'[j] = sessions[j]
  <2>1. j \in kept \ out /\ j \in Cookies
    BY <1>3, <1>6, <1>10, LiveIsRow
  <2>2. QED
    BY <1>5, <1>10, <2>1
<1>11. k \in Live' /\ Live' \subseteq Live \cup {k}
  BY <1>3, <1>6
<1>12. QED
  BY <1>2, <1>5, <1>8, <1>9, <1>10, <1>11 DEF Grows

AuthValues ==
    /\ TableValues
    /\ client \in [Callers -> CallRecords]
    /\ \A c \in Callers : RequestKnown(client[c])
    /\ Cardinality(Live) <= MaxSessions
    /\ stdio \in Principals \cup {Nobody}
    /\ proc # "serve" => Live = {} /\ \A c \in Callers : client[c].pc = "idle"

LEMMA IdleClientType == IdleClient \in CallRecords /\ RequestKnown(IdleClient) /\ IdleClient.pc = "idle"
  BY DEF IdleClient, CallRecords, RequestKnown, Ops

LEMMA PrincipalKnown ==
    ASSUME ReloadValues, TableValues, NEW op, NEW cred \in Creds, NEW lo
    PROVE  /\ Principal(op, cred, lo) \in Principals \cup {Nobody}
           /\ Under(op, cred) \in Identities
           /\ Under(op, cred) = verifier \/ \E k \in Live : Under(op, cred) = sessions[k].under
<1>1. AuthenticateHeader(verifier, cred, lo) \in Principals \cup {Nobody}
  BY HeaderNames DEF ReloadValues
<1>2. ASSUME NEW k, Usable(k)
      PROVE  /\ k \in Live /\ sessions[k] \in Rows
             /\ PrincipalFromSession(sessions[k]) \in Principals
  BY <1>2, LiveIsRow DEF Usable, PrincipalFromSession, Rows, Principals, TokenIds
<1>3. Principal(op, cred, lo) \in Principals \cup {Nobody}
  BY <1>1, <1>2 DEF Principal
<1>4. \/ Under(op, cred) = verifier
      \/ \E k \in Live : Under(op, cred) = sessions[k].under /\ sessions[k] \in Rows
  BY <1>2 DEF Under
<1>5. QED
  BY <1>3, <1>4 DEF ReloadValues, Rows

\* Request c goes on to q.
CallerGoes(c, q) ==
    /\ q \in CallRecords /\ RequestKnown(q)
    /\ client' = [client EXCEPT ![c] = q]

\* A login under way acts for the verifier, for a session, or as it did before.
LoginKnown(c, q) ==
    q.pc # "idle" /\ q.op = "login" =>
        \/ q.under = verifier
        \/ \E k \in Live : q.under = sessions[k].under
        \/ client[c].pc # "idle" /\ client[c].op = "login" /\ q.under = client[c].under

CookieOf(cred) == IF cred.kind = "cookie" THEN {cred.cookie} ELSE {}

LEMMA CookieKnown ==
    ASSUME NEW cred \in Creds, cred.kind = "cookie"
    PROVE  cred.cookie \in Cookies
  BY DEF Creds

LEMMA AuthenticateIs ==
    ASSUME ReloadValues, AuthValues, NEW c \in Callers, NEW op \in Sent, NEW cred \in Creds,
           NEW lo \in Peers, Authenticate(c, op, cred, lo)
    PROVE  /\ proc = "serve" /\ Shrinks({})
           /\ \E q : CallerGoes(c, q) /\ LoginKnown(c, q)
<1>1. Shrinks({})
  <2>1. CASE ReadsCookie(op, cred)
    <3>1. cred.cookie \in Cookies /\ sessions' = Touched(cred.cookie)
      BY <2>1, CookieKnown DEF ReadsCookie, Authenticate
    <3>2. QED
      BY <3>1, TouchedShrinks DEF AuthValues
  <2>2. CASE ~ReadsCookie(op, cred)
    BY <2>2, SameShrinks DEF Authenticate, AuthValues
  <2>3. QED
    BY <2>1, <2>2
<1>2. CASE Principal(op, cred, lo) = Nobody
  <2>1. client' = [client EXCEPT ![c] = IdleClient]
    BY <1>2 DEF Authenticate
  <2>2. QED
    BY <1>1, <2>1, IdleClientType DEF Authenticate, CallerGoes, LoginKnown
<1>3. CASE Principal(op, cred, lo) # Nobody
  <2>1. PICK a, u : a = Principal(op, cred, lo) /\ u = Under(op, cred)
    OBVIOUS
  <2>2. /\ a \in Principals /\ u \in Identities
        /\ u = verifier \/ \E k \in Live : u = sessions[k].under
    BY <1>3, <2>1, PrincipalKnown DEF AuthValues
  <2>3. PICK q : q = [pc |-> "authed", op |-> op, cred |-> cred, loopback |-> lo,
                      actor |-> a, under |-> u]
    OBVIOUS
  <2>4. client' = [client EXCEPT ![c] = q]
    BY <1>3, <2>1, <2>3 DEF Authenticate
  <2>5. op \in Ops /\ lo \in BOOLEAN
    BY ReloadAssumption
  <2>6. q \in CallRecords /\ RequestKnown(q) /\ q.under = u
    BY <2>2, <2>3, <2>5 DEF CallRecords, RequestKnown
  <2>7. QED
    BY <1>1, <2>2, <2>4, <2>6 DEF Authenticate, CallerGoes, LoginKnown
<1>4. QED
  BY <1>2, <1>3

LEMMA AuthorizeIs ==
    ASSUME AuthValues, NEW c \in Callers, Authorize(c)
    PROVE  /\ client[c].pc # "idle" /\ Shrinks({})
           /\ \E q : CallerGoes(c, q) /\ LoginKnown(c, q)
<1>1. PICK p : p = client[c]
  OBVIOUS
<1>2. p \in CallRecords /\ RequestKnown(p) /\ p.pc = "authed" /\ p.cred \in Creds
  BY <1>1 DEF AuthValues, Authorize, RequestKnown
<1>3. Shrinks({})
  <2>1. \/ UNCHANGED sessions
        \/ p.cred.kind = "cookie" /\ sessions' = Swept(p.cred.cookie)
    BY <1>1 DEF Authorize
  <2>2. CASE UNCHANGED sessions
    BY <2>2, SameShrinks DEF AuthValues
  <2>3. CASE p.cred.kind = "cookie" /\ sessions' = Swept(p.cred.cookie)
    <3>1. p.cred.cookie \in Cookies
      BY <1>2, <2>3, CookieKnown
    <3>2. QED
      BY <2>3, <3>1, SweptShrinks DEF AuthValues
  <2>4. QED
    BY <2>1, <2>2, <2>3
<1>4. \/ client' = [client EXCEPT ![c] = [p EXCEPT !.pc = "dispatch"]]
      \/ client' = [client EXCEPT ![c] = IdleClient]
  BY <1>1 DEF Authorize
<1>5. PICK d : d = [p EXCEPT !.pc = "dispatch"]
  OBVIOUS
<1>6. /\ d \in CallRecords /\ RequestKnown(d) /\ d.op = p.op /\ d.under = p.under
  BY <1>2, <1>5 DEF CallRecords, RequestKnown
<1>7. LoginKnown(c, d) /\ LoginKnown(c, IdleClient)
  BY <1>1, <1>2, <1>6, IdleClientType DEF LoginKnown
<1>8. CallerGoes(c, d) \/ CallerGoes(c, IdleClient)
  BY <1>4, <1>5, <1>6, IdleClientType DEF CallerGoes
<1>9. QED
  BY <1>1, <1>2, <1>3, <1>7, <1>8

LEMMA FinishIs ==
    ASSUME NEW c \in Callers, Finish(c)
    PROVE  CallerGoes(c, IdleClient) /\ LoginKnown(c, IdleClient)
  BY IdleClientType DEF Finish, CallerGoes, LoginKnown

\* Dispatch creates a session, or deletes the one it names, or neither.
LEMMA DispatchIs ==
    ASSUME AuthValues, NEW c \in Callers, Dispatch(c)
    PROVE  /\ client[c].pc # "idle"
           /\ \E q : /\ CallerGoes(c, q) /\ LoginKnown(c, q)
                     /\ \/ Shrinks({})
                        \/ /\ q.pc = "idle" /\ client[c].op = "logout" /\ client[c].pc = "dispatch"
                           /\ client[c].cred.kind = "cookie"
                           /\ Shrinks({client[c].cred.cookie})
                        \/ /\ client[c].op = "login"
                           /\ \E k \in Cookies : Grows(k, client[c].under)
<1>1. PICK p : p = client[c]
  OBVIOUS
<1>2. /\ p \in CallRecords /\ RequestKnown(p) /\ p.pc = "dispatch" /\ p.cred \in Creds
      /\ p.actor \in Principals /\ p.under \in Identities
  BY <1>1 DEF AuthValues, Dispatch, RequestKnown
<1>3. CASE HandleSessionCreate(c)
  <2>1. PICK k \in Cookies : sessions[k] = Unissued /\ Create(k, p.actor, p.under)
    BY <1>1, <1>3 DEF HandleSessionCreate
  <2>2. Grows(k, p.under)
    BY <1>2, <2>1, CreateGrows DEF AuthValues
  <2>3. Finish(c) /\ p.op = "login"
    BY <1>1, <1>3 DEF HandleSessionCreate
  <2>4. QED
    BY <1>1, <1>2, <2>2, <2>3, FinishIs, IdleClientType
<1>4. CASE HandleSessionGet(c)
  <2>1. /\ Finish(c)
        /\ \/ UNCHANGED sessions
           \/ p.cred.kind = "cookie" /\ sessions' = Touched(p.cred.cookie)
    BY <1>1, <1>4 DEF HandleSessionGet
  <2>2. Shrinks({})
    BY <1>2, <2>1, CookieKnown, SameShrinks, TouchedShrinks DEF AuthValues
  <2>3. QED
    BY <1>1, <1>2, <2>1, <2>2, FinishIs
<1>5. CASE HandleSessionDelete(c)
  <2>1. /\ Finish(c) /\ p.op = "logout"
        /\ \/ UNCHANGED sessions
           \/ p.cred.kind = "cookie" /\ sessions' = Deleted(p.cred.cookie)
    BY <1>1, <1>5 DEF HandleSessionDelete
  <2>2. \/ Shrinks({})
        \/ p.cred.kind = "cookie" /\ Shrinks({p.cred.cookie})
    <3>1. CASE UNCHANGED sessions
      BY <3>1, SameShrinks DEF AuthValues
    <3>2. CASE p.cred.kind = "cookie" /\ sessions' = Deleted(p.cred.cookie)
      <4>1. p.cred.cookie \in Cookies
        BY <1>2, <3>2, CookieKnown
      <4>2. QED
        BY <3>2, <4>1, DeletedShrinks DEF AuthValues
    <3>3. QED
      BY <2>1, <3>1, <3>2
  <2>3. QED
    BY <1>1, <1>2, <2>1, <2>2, FinishIs, IdleClientType
<1>6. CASE OpenStream(c)
  <2>1. PICK d : d = [p EXCEPT !.pc = "stream"]
    OBVIOUS
  <2>2. d \in CallRecords /\ RequestKnown(d) /\ d.op = p.op /\ d.under = p.under
    BY <1>2, <2>1 DEF CallRecords, RequestKnown
  <2>3. client' = [client EXCEPT ![c] = d] /\ UNCHANGED sessions
    BY <1>1, <1>6, <2>1 DEF OpenStream, AuthValues
  <2>4. Shrinks({})
    BY <2>3, SameShrinks DEF AuthValues
  <2>5. CallerGoes(c, d) /\ LoginKnown(c, d)
    BY <1>1, <1>2, <2>2, <2>3 DEF CallerGoes, LoginKnown
  <2>6. QED
    BY <1>1, <1>2, <2>4, <2>5
<1>7. CASE HandleOther(c)
  <2>1. Finish(c) /\ UNCHANGED sessions
    BY <1>7 DEF HandleOther
  <2>2. Shrinks({})
    BY <2>1, SameShrinks DEF AuthValues
  <2>3. QED
    BY <1>1, <1>2, <2>1, <2>2, FinishIs
<1>8. QED
  BY <1>3, <1>4, <1>5, <1>6, <1>7 DEF Dispatch

LEMMA StreamIs ==
    ASSUME AuthValues, NEW c \in Callers, StreamTick(c) \/ CloseStream(c)
    PROVE  /\ client[c].pc # "idle" /\ Shrinks({})
           /\ \E q : CallerGoes(c, q) /\ LoginKnown(c, q)
<1>1. PICK p : p = client[c]
  OBVIOUS
<1>2. p \in CallRecords /\ RequestKnown(p) /\ p.pc = "stream" /\ p.cred \in Creds
  BY <1>1 DEF AuthValues, StreamTick, CloseStream, RequestKnown
<1>3. \/ UNCHANGED sessions
      \/ p.cred.kind = "cookie" /\ sessions' = Swept(p.cred.cookie)
  BY <1>1 DEF StreamTick, CloseStream, held
<1>4. Shrinks({})
  BY <1>2, <1>3, CookieKnown, SameShrinks, SweptShrinks DEF AuthValues
<1>5. client' = [client EXCEPT ![c] = p] \/ client' = [client EXCEPT ![c] = IdleClient]
  BY <1>1 DEF StreamTick, CloseStream, Finish
<1>6. LoginKnown(c, p) /\ LoginKnown(c, IdleClient)
  BY <1>1, <1>2, IdleClientType DEF LoginKnown
<1>7. CallerGoes(c, p) \/ CallerGoes(c, IdleClient)
  BY <1>2, <1>5, IdleClientType DEF CallerGoes
<1>8. QED
  BY <1>1, <1>2, <1>4, <1>6, <1>7

LEMMA CallerMoves ==
    ASSUME ReloadValues, AuthValues, NEW c \in Callers,
           \/ ClientStep(c) \/ StreamTick(c) \/ CloseStream(c)
           \/ \E op \in Sent, cred \in Creds, lo \in Peers : Authenticate(c, op, cred, lo)
    PROVE  /\ proc = "serve"
           /\ \E q : /\ CallerGoes(c, q) /\ LoginKnown(c, q)
                     /\ \/ Shrinks({})
                        \/ /\ q.pc = "idle" /\ client[c].op = "logout" /\ client[c].pc = "dispatch"
                           /\ client[c].cred.kind = "cookie"
                           /\ Shrinks({client[c].cred.cookie})
                        \/ /\ client[c].pc # "idle" /\ client[c].op = "login"
                           /\ \E k \in Cookies : Grows(k, client[c].under)
<1>1. client[c].pc # "idle" => proc = "serve"
  BY DEF AuthValues
<1>2. CASE Authorize(c)
  BY <1>1, <1>2, AuthorizeIs
<1>3. CASE Dispatch(c)
  BY <1>1, <1>3, DispatchIs
<1>4. CASE StreamTick(c) \/ CloseStream(c)
  BY <1>1, <1>4, StreamIs
<1>5. ASSUME NEW op \in Sent, NEW cred \in Creds, NEW lo \in Peers, Authenticate(c, op, cred, lo)
      PROVE  /\ proc = "serve" /\ Shrinks({})
             /\ \E q : CallerGoes(c, q) /\ LoginKnown(c, q)
  BY <1>5, AuthenticateIs
<1>6. QED
  BY <1>2, <1>3, <1>4, <1>5 DEF ClientStep

LEMMA ShrinksValues ==
    ASSUME TableValues, Cardinality(Live) <= MaxSessions, NEW X, Shrinks(X),
           now' \in Nat, now <= now'
    PROVE  TableValues' /\ Cardinality(Live') <= MaxSessions
<1>1. Live \subseteq Cookies /\ Live' \subseteq Live
  BY DEF Live, Shrinks
<1>2. IsFiniteSet(Live) /\ Cardinality(Live') <= Cardinality(Live)
  BY <1>1, FS_Subset, ReloadAssumption
<1>3. Cardinality(Live) \in Nat /\ Cardinality(Live') \in Nat /\ MaxSessions \in Nat
  BY <1>1, <1>2, FS_Subset, FS_CardinalityType, ReloadAssumption
<1>4. Cardinality(Live') <= MaxSessions
  BY <1>2, <1>3
<1>5. \A k \in Live' : sessions'[k].lastSeen \in Nat
  BY DEF Live, Shrinks, Unissued, Removed, Rows
<1>6. \A k \in Live' : sessions'[k].lastSeen <= now'
  BY <1>5 DEF Shrinks, TableValues
<1>7. QED
  BY <1>4, <1>6 DEF Shrinks, TableValues

LEMMA GrowsValues ==
    ASSUME TableValues, NEW k \in Cookies, NEW under, Grows(k, under), UNCHANGED now
    PROVE  TableValues' /\ Cardinality(Live') <= MaxSessions
<1>1. ASSUME NEW j \in Live'
      PROVE  sessions'[j].created <= sessions'[j].lastSeen /\ sessions'[j].lastSeen <= now
  BY DEF Grows, TableValues
<1>2. QED
  BY <1>1 DEF Grows, TableValues

AuthInv == CommitInv /\ AuthValues

LEMMA AuthInvInit == AuthInit => AuthInv
<1> SUFFICES ASSUME AuthInit PROVE AuthInv
  OBVIOUS
<1>1. CommitInv /\ ReloadValues
  BY CommitInvInit DEF CommitInv
<1>2. Live = {} /\ TableValues
  BY DEF AuthInit, Live, Unissued, Removed, TableValues
<1>3. Cardinality(Live) <= MaxSessions
  BY <1>2, FS_EmptySet, ReloadAssumption
<1>4. stdio \in Principals \cup {Nobody}
  BY <1>1, StdioActorType DEF AuthInit, AuthenticateNone, LoopbackPrincipal, Principals, Roles, Scopes
<1>5. client \in [Callers -> CallRecords] /\ \A c \in Callers : client[c] = IdleClient
  BY IdleClientType DEF AuthInit
<1>6. QED
  BY <1>1, <1>2, <1>3, <1>4, <1>5, IdleClientType DEF AuthInv, AuthValues

\* What a hook's step does to the table: only the two that clear it touch it.
LEMMA HookTable ==
    ASSUME ReloadValues, TableValues, NEW r \in Reloaders, ReloadStep(r)
    PROVE  /\ UNCHANGED <<client, now>>
           /\ stdio' \in {stdio, reload[r].actor}
           /\ \/ UNCHANGED sessions
              \/ /\ sessions' = Cleared /\ reload'[r].pc # reload[r].pc
                 /\ \/ reload[r].pc = "clear"
                    \/ reload[r].pc = "after" /\ reload[r].mine
<1>1. CASE ClearSessions(r)
  <2>1. PICK q : Becomes(r, q) /\ q.pc = "after"
    BY <1>1, ClearIs
  <2>2. reload'[r] = q
    BY <2>1, BecomesIs
  <2>3. QED
    BY <1>1, <2>1, <2>2 DEF ClearSessions
<1>2. CASE AfterReplace(r)
  <2>1. PICK q : Becomes(r, q) /\ q.pc \in {"idle", "active"}
    BY <1>2, AfterIs
  <2>2. reload'[r] = q
    BY <2>1, BecomesIs
  <2>3. QED
    BY <1>2, <2>1, <2>2 DEF AfterReplace
<1>3. CASE StoreActor(r)
  BY <1>3 DEF StoreActor
<1>4. CASE LoadActive(r) \/ ReadSecrets(r) \/ Compare(r) \/ Replace(r) \/ Install(r) \/ Refresh(r)
  BY <1>4 DEF LoadActive, ReadSecrets, Compare, Replace, Install, Refresh, held
<1>5. QED
  BY <1>1, <1>2, <1>3, <1>4 DEF ReloadStep

\* The table and the requests stay as they are.
LEMMA ValuesStay ==
    ASSUME AuthValues, UNCHANGED <<sessions, client, proc>>, now' \in Nat, now <= now',
           stdio' \in Principals \cup {Nobody}
    PROVE  AuthValues'
<1>1. Shrinks({}) /\ Live' = Live
  BY SameShrinks DEF AuthValues, Live
<1>2. TableValues' /\ Cardinality(Live') <= MaxSessions
  BY <1>1, ShrinksValues DEF AuthValues
<1>3. QED
  BY <1>1, <1>2 DEF AuthValues

LEMMA AuthInvKept == AuthInv /\ [AuthNext]_authVars => AuthInv'
<1> SUFFICES ASSUME AuthInv, [AuthNext]_authVars PROVE AuthInv'
  OBVIOUS
<1>a. CommitInv /\ ReloadValues /\ AuthValues /\ TableValues /\ now \in Nat
  BY DEF AuthInv, CommitInv, AuthValues, TableValues
<1>b. CommitInv'
  BY <1>a, CommitInvKept
<1> SUFFICES AuthValues'
  BY <1>b DEF AuthInv
<1>1. ASSUME NEW r \in Reloaders, ReloadStep(r)
      PROVE  AuthValues'
  <2>1. UNCHANGED <<client, now, proc>>
    BY <1>a, <1>1, HookTable, HookStep
  <2>2. stdio' \in Principals \cup {Nobody}
    <3>1. stdio' \in {stdio, reload[r].actor}
      BY <1>a, <1>1, HookTable
    <3>2. reload[r].actor \in Principals \cup {Nobody}
      BY <1>a DEF ReloadValues, ReloadRecord
    <3>3. QED
      BY <1>a, <3>1, <3>2 DEF AuthValues
  <2>3. CASE UNCHANGED sessions
    BY <1>a, <2>1, <2>2, <2>3, ValuesStay
  <2>4. CASE sessions' = Cleared
    <3>1. Live' = {} /\ Shrinks(Live)
      BY <1>a, <2>4, ClearedShrinks
    <3>2. TableValues' /\ Cardinality(Live') <= MaxSessions
      BY <1>a, <2>1, <3>1, ShrinksValues DEF AuthValues
    <3>3. QED
      BY <1>a, <2>1, <2>2, <3>1, <3>2 DEF AuthValues
  <2>5. QED
    BY <1>a, <1>1, <2>3, <2>4, HookTable
<1>2. ASSUME NEW c \in Callers, \/ ClientStep(c) \/ StreamTick(c) \/ CloseStream(c)
                                \/ \E op \in Sent, cred \in Creds, lo \in Peers :
                                      Authenticate(c, op, cred, lo)
      PROVE  AuthValues'
  <2>1. UNCHANGED <<proc, stdio, now>>
    BY <1>2, CallerStep
  <2>2. proc = "serve" /\ TableValues' /\ Cardinality(Live') <= MaxSessions
    <3>1. \/ \E X : Shrinks(X)
          \/ \E k \in Cookies : Grows(k, client[c].under)
      BY <1>a, <1>2, CallerMoves
    <3>2. proc = "serve"
      BY <1>a, <1>2, CallerMoves
    <3>3. QED
      BY <1>a, <2>1, <3>1, <3>2, ShrinksValues, GrowsValues DEF AuthValues
  <2>3. PICK q : CallerGoes(c, q)
    BY <1>a, <1>2, CallerMoves
  <2>4. client' \in [Callers -> CallRecords] /\ \A d \in Callers : RequestKnown(client'[d])
    BY <1>a, <2>3 DEF CallerGoes, AuthValues
  <2>5. QED
    BY <1>a, <2>1, <2>2, <2>4 DEF AuthValues
<1>3. CASE \/ \E r \in Reloaders : Apply(r) \/ \E spec \in Specs : Reset(r, spec)
           \/ \E f \in Edited, content \in Contents : EditFile(f, content)
           \/ UNCHANGED authVars
  <2>1. UNCHANGED <<sessions, client, proc, stdio, now>>
    BY <1>3 DEF Apply, Reset, EditFile, authVars, held
  <2>2. QED
    BY <1>a, <2>1, ValuesStay DEF AuthValues
<1>4. CASE ClockTick
  <2>1. UNCHANGED <<sessions, client, proc, stdio>> /\ now' = now + 1
    BY <1>4 DEF ClockTick, held
  <2>2. QED
    BY <1>a, <2>1, ValuesStay DEF AuthValues
<1>5. QED
  BY <1>1, <1>2, <1>3, <1>4 DEF AuthNext

\* Management authentication always has well-typed values: the installed identity compiled
\* from some document, sessions carry such an identity and never outnumber
\* SessionConfig.Max, and a request past authentication has a principal.
THEOREM AuthTypeCorrect == AuthSpec => []AuthTypeOK
<1>1. AuthInv => AuthTypeOK
  <2> SUFFICES ASSUME AuthInv PROVE AuthTypeOK
    OBVIOUS
  <2>1. ReloadValues /\ AuthValues /\ TableValues
    BY DEF AuthInv, CommitInv, AuthValues
  <2>2. \A k \in Live : sessions[k].under \in Identities
    BY <2>1, LiveIsRow DEF Rows
  <2>3. ASSUME NEW r \in Reloaders, reload[r].pc # "idle" PROVE reload[r].hooks # <<>>
    BY <2>1, <2>3 DEF ReloadValues, HookKnown
  <2>4. QED
    BY <2>1, <2>2, <2>3 DEF AuthTypeOK, ReloadValues, AuthValues, TableValues, RequestKnown
<1>2. QED
  BY <1>1, AuthInvInit, AuthInvKept, PTL DEF AuthSpec

\* LiveSessionKept for every number of sessions, requests and reloads: a session
\* leaves the table before its time only by its own logout, by a change of the
\* identity, or as the idlest of a full table.
THEOREM SessionsAreKept == AuthSpec => LiveSessionKept
<1>1. AuthInv /\ [AuthNext]_authVars => [SessionsStay]_authVars
  <2> SUFFICES ASSUME AuthInv, AuthNext, NEW k \in Live, sessions'[k] = Removed,
                      now - sessions[k].lastSeen <= IdleTime,
                      now - sessions[k].created <= AbsoluteTime
               PROVE  LoggedOut(k) \/ IdentityChanged \/ PushedOut(k)
    BY DEF SessionsStay
  <2>a. ReloadValues /\ AuthValues /\ TableValues /\ now \in Nat
    BY DEF AuthInv, CommitInv, AuthValues, TableValues
  <2>b. ~Expired(sessions[k]) /\ sessions[k] # Removed /\ k \in Cookies
    <3>1. sessions[k].lastSeen \in Nat /\ sessions[k].created \in Nat /\ sessions[k] # Removed
      BY <2>a, LiveIsRow DEF Rows
    <3>2. IdleTime \in Nat /\ AbsoluteTime \in Nat
      BY ReloadAssumption
    <3>3. QED
      BY <2>a, <3>1, <3>2 DEF Expired, Live
  <2>c. sessions' # sessions
    BY <2>b
  <2>1. ASSUME NEW r \in Reloaders, ReloadStep(r)
        PROVE  IdentityChanged
    BY <2>a, <2>c, <2>1, HookTable DEF IdentityChanged
  <2>2. ASSUME NEW c \in Callers, \/ ClientStep(c) \/ StreamTick(c) \/ CloseStream(c)
                                  \/ \E op \in Sent, cred \in Creds, lo \in Peers :
                                        Authenticate(c, op, cred, lo)
        PROVE  LoggedOut(k) \/ PushedOut(k)
    <3>1. PICK q : /\ CallerGoes(c, q)
                   /\ \/ Shrinks({})
                      \/ /\ q.pc = "idle" /\ client[c].op = "logout" /\ client[c].pc = "dispatch"
                         /\ client[c].cred.kind = "cookie"
                         /\ Shrinks({client[c].cred.cookie})
                      \/ \E j \in Cookies : Grows(j, client[c].under)
      BY <2>a, <2>2, CallerMoves
    <3>2. client'[c] = q
      BY <2>a, <3>1 DEF CallerGoes, AuthValues
    <3>3. ~Shrinks({})
      BY <2>b DEF Shrinks
    <3>4. CASE /\ q.pc = "idle" /\ client[c].op = "logout" /\ client[c].pc = "dispatch"
               /\ client[c].cred.kind = "cookie"
               /\ Shrinks({client[c].cred.cookie})
      <4>1. k = client[c].cred.cookie
        BY <2>b, <3>4 DEF Shrinks
      <4>2. QED
        BY <3>2, <3>4, <4>1 DEF LoggedOut
    <3>5. ASSUME NEW j \in Cookies, Grows(j, client[c].under)
          PROVE  PushedOut(k)
      <4>1. sessions[j] = Unissued /\ sessions'[j] # Unissued
        BY <3>5 DEF Grows, Live, Unissued
      <4>2. QED
        BY <2>b, <3>5, <4>1 DEF Grows, PushedOut
    <3>6. QED
      BY <3>1, <3>3, <3>4, <3>5
  <2>3. CASE \/ \E r \in Reloaders : Apply(r) \/ \E spec \in Specs : Reset(r, spec)
             \/ \E f \in Edited, content \in Contents : EditFile(f, content)
             \/ ClockTick
    BY <2>c, <2>3 DEF Apply, Reset, EditFile, ClockTick, held
  <2>4. QED
    BY <2>1, <2>2, <2>3 DEF AuthNext
<1>2. QED
  BY <1>1, AuthInvInit, AuthInvKept, PTL DEF AuthSpec, LiveSessionKept

-----------------------------------------------------------------------------
(* What holds once the reloads have returned.                              *)

LEMMA SameReflexive == \A v : SameCompiled(v, v)
  BY DEF SameCompiled

LEMMA SameTransitive ==
    ASSUME NEW u, NEW v, NEW w, SameCompiled(u, v), SameCompiled(v, w)
    PROVE  SameCompiled(u, w)
  BY DEF SameCompiled

LEMMA EquivalentIsSame ==
    ASSUME NEW v, NEW w, Equivalent(v, w)
    PROVE  SameCompiled(v, w)
  BY DEF Equivalent, SameCompiled

\* Equivalent identities name the same principal for a bearer secret.
LEMMA EquivalentBearer ==
    ASSUME NEW v \in Identities, NEW w \in Identities, Equivalent(v, w), NEW secret
    PROVE  AuthenticateBearer(v, secret) = AuthenticateBearer(w, secret)
<1>1. ToSet(v.tokens) = ToSet(w.tokens)
  BY DEF Equivalent
<1>2. /\ \A i \in DOMAIN v.tokens : \E j \in DOMAIN w.tokens : w.tokens[j] = v.tokens[i]
      /\ \A j \in DOMAIN w.tokens : \E i \in DOMAIN v.tokens : w.tokens[j] = v.tokens[i]
  BY <1>1 DEF ToSet
<1>3. \A i, j \in DOMAIN w.tokens : w.tokens[i].digest = w.tokens[j].digest => i = j
  BY IdentityKnown DEF TokensKnown
<1>4. \/ \E i \in DOMAIN v.tokens : /\ v.tokens[i].digest = secret
                                   /\ AuthenticateBearer(v, secret) = PrincipalOf(v.tokens[i])
      \/ /\ \A i \in DOMAIN v.tokens : v.tokens[i].digest # secret
         /\ AuthenticateBearer(v, secret) = Nobody
  BY BearerNames
<1>5. \/ \E i \in DOMAIN w.tokens : /\ w.tokens[i].digest = secret
                                   /\ AuthenticateBearer(w, secret) = PrincipalOf(w.tokens[i])
      \/ /\ \A i \in DOMAIN w.tokens : w.tokens[i].digest # secret
         /\ AuthenticateBearer(w, secret) = Nobody
  BY BearerNames
<1>6. QED
  BY <1>2, <1>3, <1>4, <1>5

\* An identity change whose hooks have not all run.
Pending == \E r \in Reloaders : reload[r].pc \in {"refresh", "store", "clear"}
ActorDue == \E r \in Reloaders : reload[r].pc \in {"refresh", "store"}

LoginUnderWay(c) == client[c].pc # "idle" /\ client[c].op = "login"

SessionsCurrent ==
    ~Pending =>
        /\ \A k \in Live : SameCompiled(sessions[k].under, verifier)
        /\ \A c \in Callers : LoginUnderWay(c) => SameCompiled(client[c].under, verifier)

\* What Replace compared is still what it will replace.
ComparedCurrent ==
    \A r \in Reloaders : /\ reload[r].pc = "install" /\ ~reload[r].changed =>
                               Equivalent(verifier, reload[r].next)
                         /\ reload[r].pc = "store" => reload[r].actor = StdioActor(verifier)

StdioCurrent ==
    ~ActorDue =>
        /\ proc = "stdio" => stdio = AuthenticateBearer(verifier, StdioSecret)
        /\ proc = "open" /\ stdio # Nobody => verifier.mode = "dev-loopback-unauth"

\* A hook between its read of the snapshot and its install, and one that read the
\* snapshot that is still the active one.
Holding(q) == q.pc \in {"read", "compare", "replace", "install"}
HoldsActive(q) ==
    \/ q.pc = "read" /\ q.spec = active
    \/ q.pc \in {"compare", "replace", "install"} /\ q.next = FromSpec(active, files)

\* As long as no file was edited, the active snapshot compiles, and it is installed, or
\* held by a hook, or a hook has still to read it.
ActiveArrives ==
    edits = 0 =>
        /\ FromSpec(active, files) # Nobody
        /\ \A r \in Reloaders : reload[r].pc = "read" => FromSpec(reload[r].spec, files) # Nobody
        /\ \/ \E r \in Reloaders : reload[r].pc = "active" \/ HoldsActive(reload[r])
           \/ /\ \A r \in Reloaders : ~Holding(reload[r])
              /\ verifier = FromSpec(active, files)

QuietParts == SessionsCurrent /\ ComparedCurrent /\ StdioCurrent /\ ActiveArrives

QuietInv == ~overlap => QuietParts

\* A step of reloader r that installs nothing and stores no actor.
LEMMA QuietHook ==
    ASSUME ReloadValues, AuthValues, NEW r \in Reloaders, NEW q, Becomes(r, q),
           UNCHANGED <<proc, verifier, stdio, client>>,
           Live' \subseteq Live, \A k \in Live' : sessions'[k].under = sessions[k].under,
           q.pc \in {"refresh", "store", "clear"} <=> reload[r].pc \in {"refresh", "store", "clear"},
           q.pc \in {"refresh", "store"} <=> reload[r].pc \in {"refresh", "store"},
           q.pc = "install" /\ ~q.changed => Equivalent(verifier, q.next),
           q.pc = "store" => q.actor = StdioActor(verifier),
           SessionsCurrent, ComparedCurrent, StdioCurrent
    PROVE  SessionsCurrent' /\ ComparedCurrent' /\ StdioCurrent'
<1>1. reload'[r] = q /\ \A s \in Reloaders : s # r => reload'[s] = reload[s]
  BY BecomesIs
<1>2. Pending' <=> Pending
  BY <1>1 DEF Pending
<1>3. ActorDue' <=> ActorDue
  BY <1>1 DEF ActorDue
<1>4. SessionsCurrent'
  BY <1>2 DEF SessionsCurrent, LoginUnderWay
<1>5. ComparedCurrent'
  <2>1. StdioActor(verifier)' = StdioActor(verifier)
    BY DEF StdioActor
  <2>2. QED
    BY <1>1, <2>1 DEF ComparedCurrent
<1>6. StdioCurrent'
  BY <1>3 DEF StdioCurrent
<1>7. QED
  BY <1>4, <1>5, <1>6

\* A step of reloader r, with the active snapshot, the files and the verifier as they were.
LEMMA ArrivesHook ==
    ASSUME ReloadValues, NEW r \in Reloaders, NEW q, Becomes(r, q),
           UNCHANGED <<active, files, verifier, edits>>, ActiveArrives,
           edits = 0 /\ q.pc = "read" => q.spec = active,
           edits = 0 /\ reload[r].pc = "active" => q.pc = "active" \/ HoldsActive(q),
           edits = 0 /\ HoldsActive(reload[r]) => q.pc = "active" \/ HoldsActive(q),
           Holding(q) => Holding(reload[r]) \/ HoldsActive(q)
    PROVE  ActiveArrives'
<1> SUFFICES ASSUME edits = 0 PROVE ActiveArrives'
  BY DEF ActiveArrives
<1>1. reload'[r] = q /\ \A s \in Reloaders : s # r => reload'[s] = reload[s]
  BY BecomesIs
<1>2. FromSpec(active, files)' = FromSpec(active, files) /\ FromSpec(active, files) # Nobody
  BY DEF ActiveArrives
<1>3. ASSUME NEW s \in Reloaders, reload'[s].pc = "read"
      PROVE  FromSpec(reload'[s].spec, files') # Nobody
  BY <1>1, <1>2, <1>3 DEF ActiveArrives
<1>4. \A p : HoldsActive(p)' <=> HoldsActive(p)
  BY <1>2 DEF HoldsActive
<1>5. \/ \E s \in Reloaders : reload'[s].pc = "active" \/ HoldsActive(reload'[s])
      \/ /\ \A s \in Reloaders : ~Holding(reload'[s])
         /\ verifier = FromSpec(active, files)
  <2>1. CASE HoldsActive(q) \/ q.pc = "active"
    BY <1>1, <2>1
  <2>2. CASE ~HoldsActive(q) /\ q.pc # "active"
    BY <1>1, <2>2 DEF ActiveArrives
  <2>3. QED
    BY <2>1, <2>2
<1>6. \/ \E s \in Reloaders : reload'[s].pc = "active" \/ HoldsActive(reload[s])'
      \/ /\ \A s \in Reloaders : ~Holding(reload'[s])
         /\ verifier' = FromSpec(active', files')
  BY <1>4, <1>5, <1>2 DEF HoldsActive
<1>7. QED
  BY <1>2, <1>3, <1>6 DEF ActiveArrives, Holding

\* The hooks' steps that change only the reload's own record.
LEMMA QuietOwn ==
    ASSUME ReloadValues, AuthValues, QuietParts, NEW r \in Reloaders,
           \/ LoadActive(r) \/ ReadSecrets(r) \/ Compare(r) \/ Replace(r) \/ Refresh(r)
    PROVE  QuietParts'
<1>1. /\ UNCHANGED <<proc, active, files, verifier, sessions, stdio, client, edits>>
      /\ Live' = Live
  BY DEF LoadActive, ReadSecrets, Compare, Replace, Refresh, held, Live
<1>2. ASSUME NEW q, Becomes(r, q),
             reload[r].pc \in {"active", "read", "compare", "replace"},
             q.pc \in {"idle", "active", "read", "compare", "replace", "install"},
             q.pc = "install" => q.changed = Changed(r) /\ q.next = reload[r].next
      PROVE  SessionsCurrent' /\ ComparedCurrent' /\ StdioCurrent'
  <2>1. q.pc = "install" /\ ~q.changed => Equivalent(verifier, q.next)
    BY <1>2 DEF Changed
  <2>2. QED
    BY <1>1, <1>2, <2>1, QuietHook DEF QuietParts
<1>3. CASE LoadActive(r)
  <2>1. PICK q : Becomes(r, q) /\ q.pc = "read" /\ q.spec = active
    BY <1>3, LoadIs
  <2>2. reload[r].pc = "active"
    BY <1>3 DEF LoadActive
  <2>3. HoldsActive(q)
    BY <2>1 DEF HoldsActive
  <2>4. ActiveArrives'
    BY <1>1, <2>1, <2>3, ArrivesHook DEF QuietParts
  <2>5. QED
    BY <1>2, <2>1, <2>2, <2>4 DEF QuietParts
<1>4. CASE ReadSecrets(r)
  <2>1. PICK q : /\ Becomes(r, q)
                 /\ \/ /\ FromSpec(reload[r].spec, files) = Nobody
                       /\ q.pc \in {"idle", "active"}
                    \/ /\ FromSpec(reload[r].spec, files) # Nobody
                       /\ q.pc \in {"compare", "replace"}
                       /\ q.next = FromSpec(reload[r].spec, files)
    BY <1>4, ReadIs
  <2>2. reload[r].pc = "read"
    BY <1>4 DEF ReadSecrets
  <2>3. edits = 0 => FromSpec(reload[r].spec, files) # Nobody
    BY <2>2 DEF QuietParts, ActiveArrives
  <2>4. edits = 0 /\ HoldsActive(reload[r]) => HoldsActive(q)
    BY <2>1, <2>2, <2>3 DEF HoldsActive
  <2>5. ActiveArrives'
    BY <1>1, <2>1, <2>2, <2>4, ArrivesHook DEF QuietParts, Holding
  <2>6. QED
    BY <1>2, <2>1, <2>2, <2>5 DEF QuietParts
<1>5. CASE Compare(r)
  <2>1. PICK q : Becomes(r, q) /\ q.pc = "replace" /\ q.next = reload[r].next
    BY <1>5, CompareIs
  <2>2. reload[r].pc = "compare"
    BY <1>5 DEF Compare
  <2>3. HoldsActive(reload[r]) => HoldsActive(q)
    BY <2>1, <2>2 DEF HoldsActive
  <2>4. ActiveArrives'
    BY <1>1, <2>1, <2>2, <2>3, ArrivesHook DEF QuietParts, Holding
  <2>5. QED
    BY <1>2, <2>1, <2>2, <2>4 DEF QuietParts
<1>6. CASE Replace(r)
  <2>1. PICK q : /\ Becomes(r, q) /\ q.pc = "install" /\ q.next = reload[r].next
                 /\ q.changed = Changed(r)
    BY <1>6, ReplaceIs
  <2>2. reload[r].pc = "replace"
    BY <1>6 DEF Replace
  <2>3. HoldsActive(reload[r]) => HoldsActive(q)
    BY <2>1, <2>2 DEF HoldsActive
  <2>4. ActiveArrives'
    BY <1>1, <2>1, <2>2, <2>3, ArrivesHook DEF QuietParts, Holding
  <2>5. QED
    BY <1>2, <2>1, <2>2, <2>4 DEF QuietParts
<1>7. CASE Refresh(r)
  <2>1. PICK q : Becomes(r, q) /\ q.pc = "store" /\ q.actor = StdioActor(verifier)
    BY <1>7, RefreshIs
  <2>2. reload[r].pc = "refresh"
    BY <1>7 DEF Refresh
  <2>3. ~Holding(q) /\ ~HoldsActive(reload[r])
    BY <2>1, <2>2 DEF Holding, HoldsActive
  <2>4. ActiveArrives'
    BY <1>1, <2>1, <2>2, <2>3, ArrivesHook DEF QuietParts
  <2>5. SessionsCurrent' /\ ComparedCurrent' /\ StdioCurrent'
    BY <1>1, <2>1, <2>2, QuietHook DEF QuietParts
  <2>6. QED
    BY <2>4, <2>5 DEF QuietParts
<1>8. QED
  BY <1>3, <1>4, <1>5, <1>6, <1>7

\* The hooks' last step, which may clear the table once more.
LEMMA QuietAfter ==
    ASSUME ReloadValues, AuthValues, QuietParts, NEW r \in Reloaders, AfterReplace(r)
    PROVE  QuietParts'
<1>1. UNCHANGED <<proc, active, files, verifier, stdio, client, edits>>
  BY DEF AfterReplace
<1>2. Live' \subseteq Live /\ \A k \in Live' : sessions'[k].under = sessions[k].under
  <2>1. sessions' = Cleared \/ UNCHANGED sessions
    BY DEF AfterReplace
  <2>2. QED
    BY <2>1, ClearedShrinks, SameShrinks DEF Shrinks, AuthValues
<1>3. PICK q : Becomes(r, q) /\ q.pc \in {"idle", "active"}
  BY AfterIs
<1>4. reload[r].pc = "after" /\ ~HoldsActive(reload[r]) /\ ~Holding(q)
  BY <1>3 DEF AfterReplace, HoldsActive, Holding
<1>5. ActiveArrives'
  BY <1>1, <1>3, <1>4, ArrivesHook DEF QuietParts
<1>6. SessionsCurrent' /\ ComparedCurrent' /\ StdioCurrent'
  BY <1>1, <1>2, <1>3, <1>4, QuietHook DEF QuietParts
<1>7. QED
  BY <1>5, <1>6 DEF QuietParts

LEMMA NoLogins ==
    ASSUME ~(LoginsUnderWay > 0), NEW c \in Callers
    PROVE  ~LoginUnderWay(c)
<1> DEFINE L == {d \in Callers : client[d].pc # "idle" /\ client[d].op = "login"}
<1>1. IsFiniteSet(L)
  BY FS_Subset, ReloadAssumption
<1>2. Cardinality(L) \in Nat /\ ~(Cardinality(L) > 0)
  BY <1>1, FS_CardinalityType DEF LoginsUnderWay
<1>3. L = {}
  BY <1>1, <1>2, FS_EmptySet
<1>4. QED
  BY <1>3 DEF LoginUnderWay

\* Sessions.Clear, with no login under way.
LEMMA QuietClear ==
    ASSUME ReloadValues, AuthValues, QuietParts, NEW r \in Reloaders, ClearSessions(r), ~overlap'
    PROVE  QuietParts'
<1>1. UNCHANGED <<proc, active, files, verifier, stdio, client, edits>> /\ sessions' = Cleared
  BY DEF ClearSessions
<1>2. Live' = {}
  BY <1>1, ClearedShrinks DEF AuthValues
<1>3. \A c \in Callers : ~LoginUnderWay(c)
  BY NoLogins DEF ClearSessions
<1>4. SessionsCurrent'
  BY <1>1, <1>2, <1>3 DEF SessionsCurrent, LoginUnderWay
<1>5. PICK q : Becomes(r, q) /\ q.pc = "after"
  BY ClearIs
<1>6. reload'[r] = q /\ \A s \in Reloaders : s # r => reload'[s] = reload[s]
  BY <1>5, BecomesIs
<1>7. reload[r].pc = "clear" /\ ~HoldsActive(reload[r]) /\ ~Holding(q)
  BY <1>5 DEF ClearSessions, HoldsActive, Holding
<1>8. ActiveArrives'
  BY <1>1, <1>5, <1>7, ArrivesHook DEF QuietParts
<1>9. ComparedCurrent'
  <2>1. StdioActor(verifier)' = StdioActor(verifier)
    BY <1>1 DEF StdioActor
  <2>2. QED
    BY <1>1, <1>5, <1>6, <2>1 DEF ComparedCurrent, QuietParts
<1>10. ActorDue' <=> ActorDue
  BY <1>5, <1>6, <1>7 DEF ActorDue
<1>11. StdioCurrent'
  BY <1>1, <1>10 DEF StdioCurrent, QuietParts
<1>12. QED
  BY <1>4, <1>8, <1>9, <1>11 DEF QuietParts

\* The actor of mcp-stdio is stored.
LEMMA QuietStore ==
    ASSUME ReloadValues, AuthValues, QuietParts, NEW r \in Reloaders, StoreActor(r)
    PROVE  QuietParts'
<1>1. /\ UNCHANGED <<proc, active, files, verifier, sessions, client, edits>> /\ Live' = Live
      /\ stdio' = reload[r].actor /\ reload[r].pc = "store"
  BY DEF StoreActor, Live
<1>2. PICK q : Becomes(r, q) /\ q.pc = IF proc = "serve" THEN "clear" ELSE "after"
  BY StoreIs
<1>3. reload'[r] = q /\ \A s \in Reloaders : s # r => reload'[s] = reload[s]
  BY <1>2, BecomesIs
<1>4. ~HoldsActive(reload[r]) /\ ~Holding(q)
  BY <1>1, <1>2 DEF HoldsActive, Holding
<1>5. ActiveArrives'
  BY <1>1, <1>2, <1>4, ArrivesHook DEF QuietParts
<1>6. SessionsCurrent'
  <2>1. CASE proc = "serve"
    BY <1>2, <1>3, <2>1 DEF SessionsCurrent, Pending
  <2>2. CASE proc # "serve"
    BY <1>1, <2>2 DEF SessionsCurrent, AuthValues, LoginUnderWay
  <2>3. QED
    BY <2>1, <2>2
<1>7. StdioActor(verifier)' = StdioActor(verifier)
  BY <1>1 DEF StdioActor
<1>8. ComparedCurrent'
  BY <1>1, <1>2, <1>3, <1>7 DEF ComparedCurrent, QuietParts
<1>9. StdioCurrent'
  <2>1. stdio' = StdioActor(verifier)
    BY <1>1 DEF QuietParts, ComparedCurrent
  <2>2. QED
    BY <1>1, <2>1 DEF StdioCurrent, StdioActor
<1>10. QED
  BY <1>5, <1>6, <1>8, <1>9 DEF QuietParts

\* An identity is installed, alone: no other hook is past its read, and no login
\* is under way.
LEMMA QuietInstall ==
    ASSUME ReloadValues, AuthValues, QuietParts, NEW r \in Reloaders,
           Install(r), ~overlap'
    PROVE  QuietParts'
<1>1. /\ UNCHANGED <<proc, active, files, sessions, stdio, client, edits>> /\ Live' = Live
      /\ verifier' = reload[r].next /\ reload[r].pc = "install"
  BY DEF Install, Live
<1>2. /\ \A s \in Reloaders : s # r => reload[s].pc \in {"idle", "active"}
      /\ \A c \in Callers : ~LoginUnderWay(c)
  BY NoLogins DEF Install, Busy
<1>3. PICK q : Becomes(r, q) /\ q.pc = IF reload[r].changed THEN "refresh" ELSE "after"
  BY InstallIs
<1>4. reload'[r] = q /\ \A s \in Reloaders : s # r => reload'[s] = reload[s]
  BY <1>3, BecomesIs
<1>5. reload[r].next \in Identities /\ verifier \in Identities
  BY <1>1 DEF ReloadValues, HookKnown
<1>6. ComparedCurrent'
  <2>1. \A s \in Reloaders : reload'[s].pc \notin {"install", "store"}
    BY <1>2, <1>3, <1>4
  <2>2. QED
    BY <2>1 DEF ComparedCurrent
<1>7. ~reload[r].changed => Equivalent(verifier, verifier') /\ ~Pending /\ ~ActorDue
  BY <1>1, <1>2 DEF QuietParts, ComparedCurrent, Pending, ActorDue
<1>8. reload[r].changed => Pending' /\ ActorDue'
  BY <1>3, <1>4 DEF Pending, ActorDue
<1>9. SessionsCurrent'
  <2>1. CASE reload[r].changed
    BY <1>8, <2>1 DEF SessionsCurrent
  <2>2. CASE ~reload[r].changed
    <3>1. SameCompiled(verifier, verifier')
      BY <1>1, <1>5, <1>7, <2>2, EquivalentIsSame
    <3>2. \A k \in Live : SameCompiled(sessions[k].under, verifier)
      BY <1>7, <2>2 DEF QuietParts, SessionsCurrent
    <3>3. \A k \in Live : SameCompiled(sessions[k].under, verifier')
      BY <3>1, <3>2, SameTransitive
    <3>4. QED
      BY <1>1, <1>2, <3>3 DEF SessionsCurrent, LoginUnderWay
  <2>3. QED
    BY <2>1, <2>2
<1>10. StdioCurrent'
  <2>1. CASE reload[r].changed
    BY <1>8, <2>1 DEF StdioCurrent
  <2>2. CASE ~reload[r].changed
    <3>1. AuthenticateBearer(verifier, StdioSecret) = AuthenticateBearer(verifier', StdioSecret)
      BY <1>1, <1>5, <1>7, <2>2, EquivalentBearer
    <3>2. verifier.mode = verifier'.mode
      BY <1>7, <2>2 DEF Equivalent
    <3>3. QED
      BY <1>1, <1>7, <2>2, <3>1, <3>2 DEF StdioCurrent, QuietParts
  <2>3. QED
    BY <2>1, <2>2
<1>11. ActiveArrives'
  <2> SUFFICES ASSUME edits = 0 PROVE ActiveArrives'
    BY <1>1 DEF ActiveArrives
  <2>1. /\ FromSpec(active, files)' = FromSpec(active, files) /\ FromSpec(active, files) # Nobody
    BY <1>1 DEF QuietParts, ActiveArrives
  <2>2. \A s \in Reloaders : ~Holding(reload'[s])
    BY <1>2, <1>3, <1>4 DEF Holding
  <2>3. \/ \E s \in Reloaders : s # r /\ reload[s].pc = "active"
        \/ HoldsActive(reload[r])
    BY <1>1, <1>2 DEF QuietParts, ActiveArrives, HoldsActive, Holding
  <2>4. \/ \E s \in Reloaders : reload'[s].pc = "active"
        \/ verifier' = FromSpec(active, files)
    BY <1>1, <1>4, <2>3 DEF HoldsActive
  <2>5. QED
    BY <2>1, <2>2, <2>4 DEF ActiveArrives, Holding
<1>12. QED
  BY <1>6, <1>9, <1>10, <1>11 DEF QuietParts

\* A commit: its hooks have still to read the snapshot it leaves.
LEMMA QuietCommit ==
    ASSUME ReloadValues, AuthValues, QuietParts, NEW r \in Reloaders,
           \/ Apply(r)
           \/ \E spec \in Specs : Reset(r, spec)
    PROVE  QuietParts'
<1>1. /\ UNCHANGED <<proc, files, verifier, sessions, stdio, client, edits>> /\ Live' = Live
      /\ reload[r].pc = "idle"
      /\ UNCHANGED active \/ FromSpec(active', files) # Nobody
  BY DEF Apply, Reset, Preflight, held, Live
<1>2. PICK q : Becomes(r, q) /\ q.pc = "active"
  BY StartedIs DEF Apply, Reset
<1>3. reload'[r] = q /\ \A s \in Reloaders : s # r => reload'[s] = reload[s]
  BY <1>2, BecomesIs
<1>4. SessionsCurrent' /\ ComparedCurrent' /\ StdioCurrent'
  BY <1>1, <1>2, QuietHook DEF QuietParts
<1>5. edits = 0 => FromSpec(active', files') # Nobody
  BY <1>1 DEF QuietParts, ActiveArrives
<1>6. edits = 0 => \A s \in Reloaders : reload'[s].pc = "read" => FromSpec(reload'[s].spec, files') # Nobody
  BY <1>1, <1>2, <1>3 DEF QuietParts, ActiveArrives
<1>7. ActiveArrives'
  BY <1>1, <1>2, <1>3, <1>5, <1>6 DEF ActiveArrives
<1>8. QED
  BY <1>4, <1>7 DEF QuietParts

\* Nothing of the reloads changes: only sessions and requests have to be looked at.
LEMMA QuietElsewhere ==
    ASSUME QuietParts, UNCHANGED <<proc, verifier, stdio, reload>>,
           UNCHANGED <<active, files, edits>> \/ edits' # 0,
           ~Pending => /\ \A k \in Live' : SameCompiled(sessions'[k].under, verifier)
                       /\ \A c \in Callers : LoginUnderWay(c)' => SameCompiled(client'[c].under, verifier)
    PROVE  QuietParts'
<1>1. (Pending' <=> Pending) /\ (ActorDue' <=> ActorDue)
  BY DEF Pending, ActorDue
<1>2. SessionsCurrent'
  BY <1>1 DEF SessionsCurrent
<1>3. ComparedCurrent'
  BY DEF QuietParts, ComparedCurrent, StdioActor
<1>4. StdioCurrent'
  BY <1>1 DEF QuietParts, StdioCurrent
<1>5. ActiveArrives'
  BY DEF QuietParts, ActiveArrives, HoldsActive, Holding
<1>6. QED
  BY <1>2, <1>3, <1>4, <1>5 DEF QuietParts

LEMMA QuietCaller ==
    ASSUME ReloadValues, AuthValues, QuietParts, NEW c \in Callers,
           \/ ClientStep(c) \/ StreamTick(c) \/ CloseStream(c)
           \/ \E op \in Sent, cred \in Creds, lo \in Peers : Authenticate(c, op, cred, lo)
    PROVE  QuietParts'
<1>1. UNCHANGED <<proc, active, files, verifier, stdio, reload, edits>>
  BY CallerStep
<1>2. PICK q : /\ CallerGoes(c, q) /\ LoginKnown(c, q)
               /\ \/ \E X : Shrinks(X)
                  \/ /\ client[c].pc # "idle" /\ client[c].op = "login"
                     /\ \E k \in Cookies : Grows(k, client[c].under)
  BY CallerMoves
<1>3. \A d \in Callers : client'[d] = IF d = c THEN q ELSE client[d]
  BY <1>2 DEF CallerGoes, AuthValues
<1> SUFFICES ASSUME ~Pending
             PROVE  /\ \A k \in Live' : SameCompiled(sessions'[k].under, verifier)
                    /\ \A d \in Callers : LoginUnderWay(d)' => SameCompiled(client'[d].under, verifier)
  BY <1>1, QuietElsewhere
<1>4. /\ \A k \in Live : SameCompiled(sessions[k].under, verifier)
      /\ \A d \in Callers : LoginUnderWay(d) => SameCompiled(client[d].under, verifier)
  BY DEF QuietParts, SessionsCurrent
<1>5. ASSUME NEW k \in Live'
      PROVE  SameCompiled(sessions'[k].under, verifier)
  <2>1. CASE \E X : Shrinks(X)
    BY <1>4, <2>1 DEF Shrinks
  <2>2. ASSUME NEW j \in Cookies, Grows(j, client[c].under), LoginUnderWay(c)
        PROVE  SameCompiled(sessions'[k].under, verifier)
    BY <1>4, <2>2 DEF Grows
  <2>3. QED
    BY <1>2, <2>1, <2>2 DEF LoginUnderWay
<1>6. ASSUME NEW d \in Callers, LoginUnderWay(d)'
      PROVE  SameCompiled(client'[d].under, verifier)
  <2>1. CASE d # c
    BY <1>3, <1>4, <1>6, <2>1 DEF LoginUnderWay
  <2>2. CASE d = c
    <3>1. q.pc # "idle" /\ q.op = "login"
      BY <1>3, <1>6, <2>2 DEF LoginUnderWay
    <3>2. SameCompiled(q.under, verifier)
      BY <1>2, <1>4, <3>1, SameReflexive DEF LoginKnown, LoginUnderWay
    <3>3. QED
      BY <1>3, <2>2, <3>2
  <2>3. QED
    BY <2>1, <2>2
<1>7. QED
  BY <1>5, <1>6

LEMMA QuietInvInit == AuthInit => QuietInv
<1> SUFFICES ASSUME AuthInit PROVE QuietParts
  BY DEF QuietInv
<1>1. /\ \A r \in Reloaders : reload[r].pc = "idle"
      /\ \A c \in Callers : client[c].pc = "idle"
      /\ Live = {}
  BY DEF AuthInit, IdleReload, IdleClient, Live, Unissued
<1>2. SessionsCurrent /\ ComparedCurrent
  BY <1>1 DEF SessionsCurrent, ComparedCurrent, LoginUnderWay
<1>3. StdioCurrent
  BY DEF StdioCurrent, AuthInit, StdioActor, AuthenticateNone
<1>4. ActiveArrives
  BY <1>1 DEF ActiveArrives, AuthInit, Holding
<1>5. QED
  BY <1>2, <1>3, <1>4 DEF QuietParts

LEMMA QuietInvKept == AuthInv /\ QuietInv /\ [AuthNext]_authVars => QuietInv'
<1> SUFFICES ASSUME AuthInv, QuietInv, [AuthNext]_authVars, ~overlap' PROVE QuietParts'
  BY DEF QuietInv
<1>a. ReloadValues /\ AuthValues /\ TableValues
  BY DEF AuthInv, CommitInv, AuthValues
<1>b. ASSUME overlap PROVE FALSE
  <2>1. CASE UNCHANGED overlap
    BY <1>b, <2>1
  <2>2. CASE \E r \in Reloaders : Install(r) \/ ClearSessions(r)
    BY <1>b, <2>2 DEF Install, ClearSessions
  <2>3. UNCHANGED overlap \/ \E r \in Reloaders : Install(r) \/ ClearSessions(r)
    BY CallerStep DEF AuthNext, ReloadStep, LoadActive, ReadSecrets, Compare, Replace, Refresh,
       StoreActor, AfterReplace, Apply, Reset, EditFile, ClockTick, authVars
  <2>4. QED
    BY <2>1, <2>2, <2>3
<1>c. QuietParts
  BY <1>b DEF QuietInv
<1>1. ASSUME NEW r \in Reloaders, ReloadStep(r)
      PROVE  QuietParts'
  <2>1. CASE LoadActive(r) \/ ReadSecrets(r) \/ Compare(r) \/ Replace(r) \/ Refresh(r)
    BY <1>a, <1>c, <2>1, QuietOwn
  <2>2. CASE Install(r)
    BY <1>a, <1>c, <2>2, QuietInstall
  <2>3. CASE StoreActor(r)
    BY <1>a, <1>c, <2>3, QuietStore
  <2>4. CASE ClearSessions(r)
    BY <1>a, <1>c, <2>4, QuietClear
  <2>5. CASE AfterReplace(r)
    BY <1>a, <1>c, <2>5, QuietAfter
  <2>6. QED
    BY <1>1, <2>1, <2>2, <2>3, <2>4, <2>5 DEF ReloadStep
<1>2. ASSUME NEW r \in Reloaders, Apply(r) \/ \E spec \in Specs : Reset(r, spec)
      PROVE  QuietParts'
  BY <1>a, <1>c, <1>2, QuietCommit
<1>3. ASSUME NEW c \in Callers, \/ ClientStep(c) \/ StreamTick(c) \/ CloseStream(c)
                                \/ \E op \in Sent, cred \in Creds, lo \in Peers :
                                      Authenticate(c, op, cred, lo)
      PROVE  QuietParts'
  BY <1>a, <1>c, <1>3, QuietCaller
<1>4. CASE \/ \E f \in Edited, content \in Contents : EditFile(f, content)
           \/ ClockTick
           \/ UNCHANGED authVars
  <2>1. /\ UNCHANGED <<proc, verifier, stdio, reload, sessions, client>>
        /\ UNCHANGED <<active, files, edits>> \/ edits' = edits + 1
    BY <1>4 DEF EditFile, ClockTick, authVars, held
  <2>2. Live' = Live /\ \A c \in Callers : LoginUnderWay(c)' <=> LoginUnderWay(c)
    BY <2>1 DEF Live, LoginUnderWay
  <2>3. UNCHANGED <<active, files, edits>> \/ edits' # 0
    BY <1>a, <2>1 DEF ReloadValues
  <2>4. QED
    BY <1>c, <2>1, <2>2, <2>3, QuietElsewhere DEF QuietParts, SessionsCurrent
<1>5. QED
  BY <1>1, <1>2, <1>3, <1>4 DEF AuthNext

\* QuietMeansCurrent for every number of reloads, requests and sessions and all documents:
\* after reloads that did not overlap, sessions are those of an identity that Equivalent
\* takes for the installed one, and the actor of mcp-stdio and the verifier are current.
THEOREM QuietIsCurrent == AuthSpec => []QuietMeansCurrent
<1>1. AuthInv /\ QuietInv => QuietMeansCurrent
  <2> SUFFICES ASSUME AuthInv, QuietInv, Quiet, ~overlap
               PROVE  QuietMeansCurrent
    BY DEF QuietMeansCurrent
  <2>1. QuietParts /\ \A r \in Reloaders : reload[r].pc = "idle"
    BY DEF QuietInv, Quiet
  <2>2. ~Pending /\ ~ActorDue
    BY <2>1 DEF Pending, ActorDue
  <2>3. edits = 0 => verifier = FromSpec(active, files)
    BY <2>1 DEF QuietParts, ActiveArrives, HoldsActive
  <2>4. QED
    BY <2>1, <2>2, <2>3 DEF QuietMeansCurrent, QuietParts, SessionsCurrent, StdioCurrent
<1>2. AuthInit => QuietInv
  BY QuietInvInit
<1>3. AuthInv /\ QuietInv /\ [AuthNext]_authVars => QuietInv'
  BY QuietInvKept
<1>4. QED
  BY <1>1, <1>2, <1>3, AuthInvInit, AuthInvKept, PTL DEF AuthSpec

=============================================================================
