--------------------------- MODULE RelayLeasesProofs ---------------------------
(***************************************************************************)
(* Proofs about RelayLeases, for any peers, requests, ports and credentials, *)
(* any size of the attempt table and any number of faults and restarts.    *)
(***************************************************************************)
EXTENDS RelayLeases, FiniteSetTheorems, TLAPS

(* What is always true of a table of leases l and the engines es: a lease is
   filed under the peer that asked for it, an engine has its lease, and two leases
   share neither a port nor a credential. *)
TableInv(l, es) ==
    /\ l \in [Peers -> Lease \cup {None}] /\ es \subseteq Engine
    /\ \A p \in Peers : l[p] # None => Peer[l[p].req] = p
    /\ \A e \in es : /\ l[Peer[e.req]] # None
                     /\ l[Peer[e.req]].req = e.req /\ l[Peer[e.req]].port = e.port
    /\ \A p, r \in Peers : l[p] # None /\ l[r] # None /\ p # r =>
           l[p].port # l[r].port /\ Credential[l[p].req] # Credential[l[r].req]

(* The start under way, if any, has its peer, its port and its credential for
   itself. *)
StartInv ==
    starting # None =>
        /\ leases[Peer[starting.req]] = None
        /\ \A p \in Held : /\ leases[p].port # starting.port
                           /\ Credential[leases[p].req] # Credential[starting.req]

(* A challenged request whose PUT, or whose DELETE, was handled cannot acquire
   again: its epoch is over, its time is over, or its attempt is remembered. *)
Spent(q) ==
    /\ issued[q].epoch # 0 /\ issued[q].epoch <= epoch
    /\ issued[q].epoch < epoch \/ Expired(q) \/ q \in attempts

AttemptInv ==
    \A q \in Challenged :
        /\ leases[Peer[q]].req = q => Spent(q)
        /\ starting.req = q => Spent(q)
        /\ q \in stopped => Spent(q) /\ leases[Peer[q]].req # q /\ starting.req # q

RelayTypes ==
    /\ starting \in [req : Requests, port : Ports, expires : Nat] \cup {None}
    /\ attempts \subseteq Challenged /\ stopped \subseteq Requests
    /\ issued \in [Requests -> [epoch : Nat, until : Nat]]
    /\ epoch \in Nat /\ epoch # 0 /\ closed \in {"no", "yes"} /\ now \in Nat /\ faults \in Nat

RelayInv == RelayTypes /\ TableInv(leases, engines) /\ StartInv /\ AttemptInv

-----------------------------------------------------------------------------
(* The missing lease is no lease. *)
LEMMA NoneIsNoLease ==
    /\ None \notin Lease
    /\ None \notin [req : Requests, port : Ports, expires : Nat]
BY DEF None, Lease

(* stopLocked, whichever leases it deletes or retires: what is left was there,
   and is no other lease. *)
LEMMA ReapLease ==
    ASSUME TableInv(leases, engines),
           NEW gone, NEW stuck, gone \subseteq Held, stuck \subseteq Held,
           NEW p \in Peers, TableAfter(gone, stuck)[p] # None
    PROVE  /\ leases[p] # None /\ p \notin gone
           /\ TableAfter(gone, stuck)[p].req = leases[p].req
           /\ TableAfter(gone, stuck)[p].port = leases[p].port
BY NoneIsNoLease DEF TableAfter, TableInv, Lease, Held

(* It keeps the table in order. *)
LEMMA ReapTable ==
    ASSUME TableInv(leases, engines),
           NEW gone, NEW stuck, gone \subseteq Held, stuck \subseteq Held
    PROVE  TableInv(TableAfter(gone, stuck), engines \ Of(gone))
<1> DEFINE T == TableAfter(gone, stuck)
<1>1. T \in [Peers -> Lease \cup {None}]
  BY DEF TableAfter, TableInv, Lease, Held
<1>2. ASSUME NEW p \in Peers, T[p] # None
      PROVE  /\ leases[p] # None /\ p \notin gone
             /\ T[p].req = leases[p].req /\ T[p].port = leases[p].port
  BY <1>2, ReapLease
<1>3. ASSUME NEW p \in Peers, T[p] = None PROVE leases[p] = None \/ p \in gone
  BY <1>3, NoneIsNoLease DEF TableAfter, TableInv, Lease, Held
<1>4. ASSUME NEW e \in engines \ Of(gone)
      PROVE  /\ T[Peer[e.req]] # None
             /\ T[Peer[e.req]].req = e.req /\ T[Peer[e.req]].port = e.port
  <2>1. e.req \in Requests /\ Peer[e.req] \in Peers /\ e = [req |-> e.req, port |-> e.port]
    BY RelayAssumption DEF TableInv, Engine
  <2>2. leases[Peer[e.req]].req = e.req /\ leases[Peer[e.req]].port = e.port
        /\ leases[Peer[e.req]] # None
    BY DEF TableInv
  <2>3. Peer[e.req] \notin gone
    BY <2>1, <2>2 DEF Of
  <2> QED
    BY <1>2, <1>3, <2>1, <2>2, <2>3
<1> QED
  BY <1>1, <1>2, <1>4 DEF TableInv

(* The lease that Create enters for the start under way fits into the table. *)
LEMMA EnterTable ==
    ASSUME RelayTypes, TableInv(leases, engines), StartInv, starting # None,
           NEW new \in Lease, new.req = starting.req, new.port = starting.port
    PROVE  TableInv([leases EXCEPT ![Peer[starting.req]] = new],
                    engines \cup {[req |-> starting.req, port |-> starting.port]})
<1> DEFINE T == [leases EXCEPT ![Peer[starting.req]] = new]
           e == [req |-> starting.req, port |-> starting.port]
<1>1. starting.req \in Requests /\ Peer[starting.req] \in Peers /\ e \in Engine
  BY RelayAssumption DEF RelayTypes, Engine
<1>2. T \in [Peers -> Lease \cup {None}] /\ new # None
  BY NoneIsNoLease, <1>1 DEF TableInv
<1>3. \A p \in Peers : T[p] = IF p = Peer[starting.req] THEN new ELSE leases[p]
  BY <1>1 DEF TableInv
<1>4. \A p \in Peers : T[p] # None => Peer[T[p].req] = p
  BY <1>3 DEF TableInv
<1>5. \A d \in engines \cup {e} :
         T[Peer[d.req]] # None /\ T[Peer[d.req]].req = d.req /\ T[Peer[d.req]].port = d.port
  BY <1>1, <1>2, <1>3, RelayAssumption DEF TableInv, StartInv, Engine
<1>6. \A p, r \in Peers : T[p] # None /\ T[r] # None /\ p # r =>
         T[p].port # T[r].port /\ Credential[T[p].req] # Credential[T[r].req]
  BY <1>1, <1>3 DEF TableInv, StartInv, Held
<1> QED
  BY <1>1, <1>2, <1>4, <1>5, <1>6 DEF TableInv

(* No leases and no engines at the start. *)
LEMMA RelayInitInv == Init => RelayInv
<1> SUFFICES ASSUME Init PROVE RelayInv
  OBVIOUS
<1>1. RelayTypes
  BY RelayAssumption DEF Init, RelayTypes, Unissued
<1>2. TableInv(leases, engines) /\ StartInv
  BY DEF Init, TableInv, StartInv
<1>3. AttemptInv
  BY RelayAssumption DEF Init, AttemptInv, None
<1> QED
  BY <1>1, <1>2, <1>3 DEF RelayInv

(* The leases that an operation finds due are leases. *)
LEMMA ReapFacts ==
    ASSUME RelayInv
    PROVE  /\ Due \subseteq Held /\ Held \subseteq Peers
           /\ SweptAttempts \subseteq attempts
           /\ \A q \in attempts \ SweptAttempts : Expired(q)
<1>1. ASSUME NEW q \in attempts \ SweptAttempts PROVE Expired(q)
  <2>1. q \in Requests /\ issued[q].until \in Nat /\ now \in Nat
    BY RelayAssumption DEF RelayInv, RelayTypes
  <2> QED
    BY <2>1 DEF SweptAttempts, Expired
<1> QED
  BY <1>1 DEF Due, Held, SweptAttempts

(* A request that is spent stays so while attempts are swept and time passes. *)
LEMMA SweptIsSpent ==
    ASSUME RelayInv, NEW q \in Challenged, Spent(q),
           SweptAttempts \subseteq attempts', issued' = issued, epoch' = epoch, now' = now
    PROVE  Spent(q)'
BY ReapFacts DEF Spent, Expired

(* No lease appears by reaping. *)
LEMMA ReapAttempts ==
    ASSUME RelayInv, NEW gone, NEW stuck, gone \subseteq Held, stuck \subseteq Held,
           leases' = TableAfter(gone, stuck), NEW q \in Challenged, leases'[Peer[q]].req = q
    PROVE  leases[Peer[q]].req = q
<1>1. q \in Requests /\ Peer[q] \in Peers
  BY RelayAssumption
<1>2. TableAfter(gone, stuck)[Peer[q]] # None
  BY <1>1, RelayAssumption DEF None
<1> QED
  BY <1>1, <1>2, ReapLease DEF RelayInv

(* A step that only stops engines keeps the invariant. *)
LEMMA ReapStep ==
    ASSUME RelayInv, starting = None, UNCHANGED <<starting, issued, epoch, now, stopped>>,
           NEW gone, NEW stuck, gone \subseteq Held, stuck \subseteq Held,
           leases' = TableAfter(gone, stuck), engines' = engines \ Of(gone),
           SweptAttempts \subseteq attempts'
    PROVE  TableInv(leases', engines') /\ StartInv' /\ AttemptInv'
<1>1. TableInv(leases', engines')
  BY ReapTable DEF RelayInv
<1>2. StartInv'
  BY DEF StartInv
<1>3. ASSUME NEW q \in Challenged
      PROVE  /\ leases'[Peer[q]].req = q => Spent(q)'
             /\ starting'.req # q
             /\ q \in stopped => Spent(q)' /\ leases'[Peer[q]].req # q
  <2>1. Spent(q) => Spent(q)'
    BY SweptIsSpent
  <2>2. leases'[Peer[q]].req = q => leases[Peer[q]].req = q
    BY ReapAttempts
  <2>3. starting'.req # q
    BY RelayAssumption DEF None
  <2> QED
    BY <2>1, <2>2, <2>3 DEF RelayInv, AttemptInv
<1>4. AttemptInv'
  BY <1>3 DEF AttemptInv
<1> QED
  BY <1>1, <1>2, <1>4

-----------------------------------------------------------------------------
(* The sweep takes the leases that are due; an engine that does not stop keeps its lease. *)
LEMMA SweepInv == ASSUME RelayInv, Sweep PROVE RelayInv'
<1>1. RelayTypes'
  BY DEF Sweep, RelayInv, RelayTypes, SweptAttempts, NoFault, Fault
<1>2. \E gone, stuck : /\ gone \subseteq Held /\ stuck \subseteq Held
                       /\ leases' = TableAfter(gone, stuck) /\ engines' = engines \ Of(gone)
  <2>1. CASE leases' = TableAfter(Due, {}) /\ engines' = engines \ Of(Due)
    BY <2>1, ReapFacts
  <2>2. CASE \E stuck \in Due : \E gone \in SUBSET (Due \ {stuck}) :
                leases' = TableAfter(gone, {stuck}) /\ engines' = engines \ Of(gone)
    <3>1. PICK stuck \in Due : \E gone \in SUBSET (Due \ {stuck}) :
                leases' = TableAfter(gone, {stuck}) /\ engines' = engines \ Of(gone)
      BY <2>2
    <3>2. PICK gone \in SUBSET (Due \ {stuck}) :
                leases' = TableAfter(gone, {stuck}) /\ engines' = engines \ Of(gone)
      BY <3>1
    <3>3. gone \subseteq Held /\ {stuck} \subseteq Held
      BY ReapFacts
    <3> QED
      BY <3>2, <3>3
  <2> QED
    BY <2>1, <2>2 DEF Sweep
<1>3. starting = None /\ UNCHANGED <<starting, issued, epoch, now, stopped>>
      /\ SweptAttempts \subseteq attempts'
  BY DEF Sweep
<1>4. TableInv(leases', engines') /\ StartInv' /\ AttemptInv'
  BY <1>2, <1>3, ReapStep
<1> QED
  BY <1>1, <1>4 DEF RelayInv

(* The shutdown releases every lease it can. *)
LEMMA CloseInv == ASSUME RelayInv, Close PROVE RelayInv'
<1>1. PICK stuck \in SUBSET Held :
        /\ Cardinality(stuck) <= faults /\ faults' = faults - Cardinality(stuck)
        /\ leases' = TableAfter(Held \ stuck, stuck)
        /\ engines' = engines \ Of(Held \ stuck)
  BY DEF Close
<1>2. Cardinality(stuck) \in Nat
  <2>1. stuck \subseteq Peers
    BY ReapFacts
  <2> QED
    BY <2>1, RelayAssumption, FS_Subset, FS_CardinalityType
<1>3. RelayTypes'
  BY <1>1, <1>2 DEF Close, RelayInv, RelayTypes
<1>4. SweptAttempts \subseteq attempts'
  BY ReapFacts DEF Close
<1>5. TableInv(leases', engines') /\ StartInv' /\ AttemptInv'
  BY <1>1, <1>4, ReapStep DEF Close
<1> QED
  BY <1>3, <1>5 DEF RelayInv

(* A challenge opens an attempt. *)
LEMMA ChallengeInv == ASSUME RelayInv, NEW r \in Requests, PacketChallenge(r) PROVE RelayInv'
<1>1. RelayTypes'
  BY RelayAssumption DEF PacketChallenge, RelayInv, RelayTypes
<1>2. TableInv(leases', engines') /\ StartInv'
  BY DEF PacketChallenge, RelayInv, TableInv, StartInv, Held
<1>3. ASSUME NEW q \in Challenged, Spent(q) PROVE Spent(q)'
  <2>1. q # r /\ issued'[q] = issued[q]
    BY <1>3, RelayAssumption DEF PacketChallenge, Spent, Unissued, RelayInv, RelayTypes
  <2> QED
    BY <1>3, <2>1 DEF PacketChallenge, Spent, Expired
<1>4. AttemptInv'
  BY <1>3 DEF PacketChallenge, RelayInv, AttemptInv
<1> QED
  BY <1>1, <1>2, <1>4 DEF RelayInv

(* A request that has its lease already renews it. *)
LEMMA RenewInv == ASSUME RelayInv, NEW r \in Requests, Renew(r) PROVE RelayInv'
<1> DEFINE T == TableAfter(Due, {})
           L == [T EXCEPT ![Peer[r]].expires = now + TTL]
<1>1. RelayTypes'
  BY DEF Renew, RelayInv, RelayTypes, SweptAttempts
<1>2. TableInv(T, engines \ Of(Due))
  BY ReapFacts, ReapTable DEF RelayInv
<1>3. Peer[r] \in Peers /\ T[Peer[r]] \in Lease /\ T[Peer[r]] # None
  BY NoneIsNoLease, <1>2 DEF Renew, Held, TableAfter, RelayInv, TableInv
<1>4. now + TTL \in Nat
  BY RelayAssumption DEF RelayInv, RelayTypes
<1>5. L[Peer[r]] \in Lease
  BY <1>2, <1>3, <1>4 DEF TableInv, Lease
<1>6. L \in [Peers -> Lease \cup {None}]
  BY <1>2, <1>5 DEF TableInv
<1>7. \A p \in Peers : /\ L[p] # None <=> T[p] # None
                       /\ L[p] # None => L[p].req = T[p].req /\ L[p].port = T[p].port
  BY <1>2, <1>3, <1>5, NoneIsNoLease DEF TableInv, Lease
<1>8. TableInv(L, engines \ Of(Due))
  BY <1>2, <1>6, <1>7, RelayAssumption DEF TableInv, Engine
<1>9. TableInv(leases', engines') /\ StartInv'
  BY <1>8 DEF Renew, StartInv
<1>10. ASSUME NEW q \in Challenged
       PROVE  /\ leases'[Peer[q]].req = q => Spent(q)'
              /\ starting'.req # q
              /\ q \in stopped => Spent(q)' /\ leases'[Peer[q]].req # q
  <2>1. Spent(q) => Spent(q)'
    BY SweptIsSpent DEF Renew
  <2>2. q \in Requests /\ Peer[q] \in Peers
    BY RelayAssumption
  <2>3. leases'[Peer[q]].req = q => T[Peer[q]] # None /\ T[Peer[q]].req = q
    BY <1>7, <2>2, RelayAssumption DEF Renew, None
  <2>4. leases'[Peer[q]].req = q => leases[Peer[q]].req = q
    BY <2>2, <2>3, ReapLease, ReapFacts DEF RelayInv
  <2>5. starting'.req # q
    BY RelayAssumption DEF None, Renew
  <2> QED
    BY <2>1, <2>4, <2>5 DEF RelayInv, AttemptInv
<1>11. AttemptInv'
  BY <1>10 DEF AttemptInv, Renew
<1> QED
  BY <1>1, <1>9, <1>11 DEF RelayInv

(* A request whose PUT is accepted was never handled before. *)
LEMMA CreateIsFresh ==
    ASSUME RelayInv, NEW r \in Challenged, Create(r)
    PROVE  ~Spent(r) /\ Spent(r)' /\ r \notin stopped
<1>1. issued[r].epoch = epoch /\ ~Expired(r) /\ r \notin SweptAttempts
  BY DEF Create, Valid, NewAttempt
<1>2. ~Spent(r)
  BY <1>1, ReapFacts DEF Spent, RelayInv, RelayTypes
<1>3. Spent(r)'
  BY <1>1 DEF Spent, Create, RelayInv, RelayTypes
<1> QED
  BY <1>2, <1>3 DEF RelayInv, AttemptInv

(* A new lease reserves a port before its engine starts. *)
LEMMA CreateInv == ASSUME RelayInv, NEW r \in Requests, Create(r) PROVE RelayInv'
<1> DEFINE T == TableAfter(Due, {})
<1>1. PICK port \in Ports \ {leases[p].port : p \in Held \ Due} :
          starting' = [req |-> r, port |-> port, expires |-> now + TTL]
  BY DEF Create
<1>2. RelayTypes'
  BY <1>1, RelayAssumption DEF Create, RelayInv, RelayTypes, SweptAttempts
<1>3. TableInv(leases', engines')
  BY ReapFacts, ReapTable DEF RelayInv, Create
<1>4. \A p \in Peers : leases'[p] # None =>
         p \in Held \ Due /\ leases'[p].req = leases[p].req /\ leases'[p].port = leases[p].port
  BY ReapFacts, ReapLease DEF RelayInv, Create, Held
<1>5. StartInv'
  BY <1>1, <1>4, RelayAssumption DEF StartInv, Create, FreeCredential, Held
<1>6. ASSUME NEW q \in Challenged
      PROVE  /\ leases'[Peer[q]].req = q => Spent(q)'
             /\ starting'.req = q => Spent(q)'
             /\ q \in stopped => Spent(q)' /\ leases'[Peer[q]].req # q /\ starting'.req # q
  <2>1. Spent(q) => Spent(q)'
    BY SweptIsSpent DEF Create
  <2>2. leases'[Peer[q]].req = q => leases[Peer[q]].req = q
    BY ReapAttempts, ReapFacts DEF Create
  <2>3. starting'.req = q => Spent(q)' /\ q \notin stopped
    BY <1>1, CreateIsFresh
  <2> QED
    BY <2>1, <2>2, <2>3 DEF RelayInv, AttemptInv
<1>7. AttemptInv'
  BY <1>6 DEF AttemptInv, Create
<1> QED
  BY <1>2, <1>3, <1>5, <1>7 DEF RelayInv

(* The engine that Create waited for enters the table, as a lease or retired. *)
LEMMA EnterStep ==
    ASSUME RelayInv, starting # None, starting' = None,
           UNCHANGED <<attempts, issued, epoch, now, stopped>>,
           NEW new \in Lease, new.req = starting.req, new.port = starting.port,
           leases' = [leases EXCEPT ![Peer[starting.req]] = new],
           engines' = engines \cup {[req |-> starting.req, port |-> starting.port]}
    PROVE  TableInv(leases', engines') /\ StartInv' /\ AttemptInv'
<1>1. TableInv(leases', engines')
  BY EnterTable DEF RelayInv
<1>2. StartInv'
  BY DEF StartInv
<1>3. ASSUME NEW q \in Challenged
      PROVE  /\ leases'[Peer[q]].req = q => Spent(q)'
             /\ starting'.req # q
             /\ q \in stopped => Spent(q)' /\ leases'[Peer[q]].req # q
  <2>1. Spent(q) => Spent(q)'
    BY DEF Spent, Expired
  <2>2. leases'[Peer[q]].req = q => leases[Peer[q]].req = q \/ starting.req = q
    BY RelayAssumption DEF RelayInv, TableInv
  <2>3. starting'.req # q
    BY RelayAssumption DEF None
  <2> QED
    BY <2>1, <2>2, <2>3 DEF RelayInv, AttemptInv
<1>4. AttemptInv'
  BY <1>3 DEF AttemptInv
<1> QED
  BY <1>1, <1>2, <1>4

(* The engine runs, and its lease is published. *)
LEMMA StartedInv == ASSUME RelayInv, Started PROVE RelayInv'
<1> DEFINE new == [req |-> starting.req, port |-> starting.port, expires |-> now + TTL,
                   retired |-> "no"]
<1>1. RelayTypes'
  BY DEF Started, RelayInv, RelayTypes
<1>2. new \in Lease
  BY RelayAssumption DEF Started, RelayInv, RelayTypes, Lease
<1>3. leases' = [leases EXCEPT ![Peer[starting.req]] = new]
      /\ engines' = engines \cup {[req |-> starting.req, port |-> starting.port]}
  BY DEF Started
<1>4. TableInv(leases', engines') /\ StartInv' /\ AttemptInv'
  BY <1>2, <1>3, EnterStep DEF Started
<1> QED
  BY <1>1, <1>4 DEF RelayInv

(* The engine does not start; what is left of it stays accounted for. *)
LEMMA StartFailedInv == ASSUME RelayInv, StartFailed PROVE RelayInv'
<1>1. RelayTypes'
  BY DEF StartFailed, Fault, RelayInv, RelayTypes
<1>2. CASE UNCHANGED <<leases, engines>>
  <2>1. TableInv(leases', engines') /\ StartInv'
    BY <1>2 DEF StartFailed, RelayInv, StartInv
  <2>2. AttemptInv'
    BY <1>2, RelayAssumption DEF StartFailed, RelayInv, AttemptInv, Spent, Expired, None
  <2> QED
    BY <1>1, <2>1, <2>2 DEF RelayInv
<1>3. CASE ~UNCHANGED <<leases, engines>>
  <2> DEFINE new == [req |-> starting.req, port |-> starting.port, expires |-> starting.expires,
                     retired |-> "yes"]
  <2>1. new \in Lease
    BY DEF StartFailed, RelayInv, RelayTypes, Lease
  <2>2. leases' = [leases EXCEPT ![Peer[starting.req]] = new]
        /\ engines' = engines \cup {[req |-> starting.req, port |-> starting.port]}
    BY <1>3 DEF StartFailed
  <2>3. TableInv(leases', engines') /\ StartInv' /\ AttemptInv'
    BY <2>1, <2>2, EnterStep DEF StartFailed
  <2> QED
    BY <1>1, <2>3 DEF RelayInv
<1> QED
  BY <1>2, <1>3

(* A deletion without a lease still retires the attempt. *)
LEMMA DeleteAbsentInv == ASSUME RelayInv, NEW r \in Requests, DeleteAbsent(r) PROVE RelayInv'
<1>1. RelayTypes'
  BY DEF DeleteAbsent, RelayInv, RelayTypes, SweptAttempts
<1>2. TableInv(leases', engines') /\ StartInv'
  BY DEF DeleteAbsent, RelayInv, TableInv, StartInv, Held
<1>3. SweptAttempts \subseteq attempts'
  BY ReapFacts DEF DeleteAbsent
<1>4. r \in Challenged => Spent(r)' /\ leases'[Peer[r]].req # r
  <2>1. leases'[Peer[r]].req # r
    BY RelayAssumption DEF DeleteAbsent, Held, None
  <2>2. r \in Challenged => Spent(r)'
    BY DEF DeleteAbsent, Valid, Spent, Expired, RelayInv, RelayTypes
  <2> QED
    BY <2>1, <2>2
<1>5. ASSUME NEW q \in Challenged
      PROVE  /\ leases'[Peer[q]].req = q => Spent(q)'
             /\ starting'.req # q
             /\ q \in stopped' => Spent(q)' /\ leases'[Peer[q]].req # q
  <2>1. Spent(q) => Spent(q)'
    BY <1>3, SweptIsSpent DEF DeleteAbsent
  <2>2. starting'.req # q
    BY RelayAssumption DEF DeleteAbsent, None
  <2> QED
    BY <1>4, <2>1, <2>2 DEF DeleteAbsent, RelayInv, AttemptInv
<1>6. AttemptInv'
  BY <1>5 DEF AttemptInv
<1> QED
  BY <1>1, <1>2, <1>6 DEF RelayInv

(* A deletion stops the engine, or marks the lease as retired. *)
LEMMA DeleteHeldInv == ASSUME RelayInv, NEW r \in Requests, DeleteHeld(r) PROVE RelayInv'
<1>1. RelayTypes'
  BY DEF DeleteHeld, RelayInv, RelayTypes, NoFault, Fault
<1>2. Peer[r] \in Held /\ SweptAttempts \subseteq attempts'
  BY ReapFacts, RelayAssumption DEF DeleteHeld, Held, None
<1>3. CASE leases' = TableAfter({}, {Peer[r]}) /\ UNCHANGED <<engines, stopped>>
  <2>1. engines' = engines \ Of({})
    BY <1>3 DEF Of
  <2>2. TableInv(leases', engines') /\ StartInv' /\ AttemptInv'
    BY <1>2, <1>3, <2>1, ReapStep DEF DeleteHeld
  <2> QED
    BY <1>1, <2>2 DEF RelayInv
<1>4. CASE /\ leases' = TableAfter({Peer[r]}, {}) /\ engines' = engines \ Of({Peer[r]})
           /\ stopped' = stopped \cup {r}
  <2>1. TableInv(leases', engines')
    BY <1>2, <1>4, ReapTable DEF RelayInv
  <2>2. StartInv'
    BY DEF StartInv, DeleteHeld
  <2>3. ASSUME NEW q \in Challenged
        PROVE  /\ leases'[Peer[q]].req = q => Spent(q)'
               /\ starting'.req # q
               /\ q \in stopped' => Spent(q)' /\ leases'[Peer[q]].req # q
    <3>1. Spent(q) => Spent(q)'
      BY <1>2, SweptIsSpent DEF DeleteHeld
    <3>2. starting'.req # q
      BY RelayAssumption DEF DeleteHeld, None
    <3>3. leases'[Peer[q]].req = q => leases[Peer[q]].req = q
      <4>1. {Peer[r]} \subseteq Held /\ {} \subseteq Held
        BY <1>2
      <4>2. leases' = TableAfter({Peer[r]}, {})
        BY <1>4
      <4> QED
        BY <4>1, <4>2, ReapAttempts
    <3>4. leases'[Peer[r]].req # r
      BY <1>2, <1>4, RelayAssumption DEF TableAfter, None
    <3> QED
      BY <1>4, <3>1, <3>2, <3>3, <3>4 DEF DeleteHeld, RelayInv, AttemptInv
  <2>4. AttemptInv'
    BY <2>3 DEF AttemptInv
  <2> QED
    BY <1>1, <2>1, <2>2, <2>4 DEF RelayInv
<1> QED
  BY <1>3, <1>4 DEF DeleteHeld

(* A restart forgets the leases together with their engines. *)
LEMMA RestartInv == ASSUME RelayInv, Restart PROVE RelayInv'
<1>1. RelayTypes'
  BY DEF Restart, RelayInv, RelayTypes
<1>2. TableInv(leases', engines') /\ StartInv'
  BY DEF Restart, TableInv, StartInv
<1>3. ASSUME NEW q \in Challenged, Spent(q) PROVE Spent(q)'
  <2>1. issued[q].epoch \in Nat /\ epoch \in Nat
    BY RelayAssumption DEF RelayInv, RelayTypes
  <2> QED
    BY <1>3, <2>1 DEF Restart, Spent
<1>4. AttemptInv'
  BY <1>3, RelayAssumption DEF Restart, RelayInv, AttemptInv, None
<1> QED
  BY <1>1, <1>2, <1>4 DEF RelayInv

(* An engine that dies by itself keeps its lease. *)
LEMMA EngineDiesInv == ASSUME RelayInv, EngineDies PROVE RelayInv'
<1>1. RelayTypes' /\ TableInv(leases', engines') /\ StartInv'
  BY DEF EngineDies, RelayInv, RelayTypes, TableInv, StartInv, Held
<1>2. AttemptInv'
  BY DEF EngineDies, RelayInv, AttemptInv, Spent, Expired
<1> QED
  BY <1>1, <1>2 DEF RelayInv

(* Time passes. *)
LEMMA TickInv == ASSUME RelayInv, Tick PROVE RelayInv'
<1>1. RelayTypes' /\ TableInv(leases', engines') /\ StartInv'
  BY DEF Tick, RelayInv, RelayTypes, TableInv, StartInv, Held
<1>2. ASSUME NEW q \in Challenged, Spent(q) PROVE Spent(q)'
  <2>1. issued[q].until \in Nat /\ now \in Nat
    BY RelayAssumption DEF RelayInv, RelayTypes
  <2> QED
    BY <1>2, <2>1 DEF Tick, Spent, Expired
<1>3. AttemptInv'
  BY <1>2 DEF Tick, RelayInv, AttemptInv
<1> QED
  BY <1>1, <1>3 DEF RelayInv

(* Every step of the relay table keeps the invariant. *)
LEMMA RelayNextInv == RelayInv /\ [Next]_vars => RelayInv'
<1> SUFFICES ASSUME RelayInv, [Next]_vars PROVE RelayInv'
  OBVIOUS
<1>1. CASE Sweep
  BY <1>1, SweepInv
<1>2. CASE Started
  BY <1>2, StartedInv
<1>3. CASE StartFailed
  BY <1>3, StartFailedInv
<1>4. CASE Close
  BY <1>4, CloseInv
<1>5. CASE Restart
  BY <1>5, RestartInv
<1>6. CASE EngineDies
  BY <1>6, EngineDiesInv
<1>7. CASE Tick
  BY <1>7, TickInv
<1>8. ASSUME NEW q \in Requests,
             PacketChallenge(q) \/ Renew(q) \/ Create(q) \/ DeleteAbsent(q) \/ DeleteHeld(q)
      PROVE  RelayInv'
  BY <1>8, ChallengeInv, RenewInv, CreateInv, DeleteAbsentInv, DeleteHeldInv
<1>9. CASE UNCHANGED vars
  BY <1>9 DEF vars, RelayInv, RelayTypes, TableInv, StartInv, AttemptInv, Spent, Expired, Held
<1> QED
  BY <1>1, <1>2, <1>3, <1>4, <1>5, <1>6, <1>7, <1>8, <1>9 DEF Next

(* The tables stay in order, whatever PUT, DELETE, sweep, crash and restart do in
   whatever order: the invariant of the manager behind relay.go's mu. *)
THEOREM RelayInvariant == Spec => []RelayInv
BY RelayInitInv, RelayNextInv, PTL DEF Spec

(* The tables are well formed, and a lease is filed under the peer that asked for
   it, whatever CreateRelay, DeleteRelay and sweeps did before. *)
THEOREM RelayTypeTheorem == Spec => []TypeOK
<1>1. RelayInv => TypeOK
  BY DEF RelayInv, RelayTypes, TableInv, StartInv, TypeOK, Held
<1> QED
  BY <1>1, RelayInvariant, PTL

(* No engine outlives its lease in the table and no port is given out twice, also
   when runner.Start or Stop fails half way: for any number of peers and faults. *)
THEOREM OwnedTheorem == Spec => []EngineIsOwned
<1>1. RelayInv => EngineIsOwned
  BY DEF RelayInv, TableInv, EngineIsOwned, Held
<1> QED
  BY <1>1, RelayInvariant, PTL

(* Create never lets two engines use one paired credential, for any assignment of
   credentials to requests. *)
THEOREM CredentialTheorem == Spec => []OneRelayPerCredential
<1>1. ASSUME RelayInv, NEW d \in engines, NEW e \in engines, d # e
      PROVE  Credential[d.req] # Credential[e.req]
  <2>1. Peer[d.req] \in Peers /\ Peer[e.req] \in Peers
    BY <1>1, RelayAssumption DEF RelayInv, TableInv, Engine
  <2>2. d = [req |-> d.req, port |-> d.port] /\ e = [req |-> e.req, port |-> e.port]
    BY <1>1 DEF RelayInv, TableInv, Engine
  <2>3. Peer[d.req] # Peer[e.req]
    BY <1>1, <2>2 DEF RelayInv, TableInv
  <2> QED
    BY <1>1, <2>1, <2>3 DEF RelayInv, TableInv
<1>2. RelayInv => OneRelayPerCredential
  BY <1>1 DEF OneRelayPerCredential
<1> QED
  BY <1>2, RelayInvariant, PTL

(* A late or repeated PUT of a request whose DELETE was answered starts nothing:
   for any table size, any clock and any number of restarts. *)
THEOREM ResurrectionTheorem == Spec => []NoResurrection
<1>1. RelayInv => NoResurrection
  BY DEF RelayInv, AttemptInv, TableInv, NoResurrection
<1> QED
  BY <1>1, RelayInvariant, PTL

-----------------------------------------------------------------------------
(* stopLocked changes nothing of a lease that is retired, but may delete it. *)
LEMMA ReapRetired ==
    ASSUME RelayInv, NEW p \in Held, leases[p].retired = "yes", NEW gone, NEW stuck
    PROVE  TableAfter(gone, stuck)[p] \in {None, leases[p]}
<1>1. p \in Peers /\ leases[p] \in Lease
  BY DEF RelayInv, TableInv, Held
<1>2. [leases[p] EXCEPT !.retired = "yes"] = leases[p]
  BY <1>1 DEF Lease
<1> QED
  BY <1>1, <1>2 DEF TableAfter

(* A lease that stopLocked retired is deleted in the end or stays as it is: no
   PUT renews it or takes its place while its engine refuses to stop. *)
THEOREM RetiredTheorem == Spec => RetiredStaysRetired
<1> DEFINE Keeps(p) == leases[p].retired = "yes" => leases'[p] \in {None, leases[p]}
<1>1. ASSUME RelayInv, [Next]_vars, NEW p \in Held PROVE Keeps(p)
  <2> SUFFICES ASSUME leases[p].retired = "yes" PROVE leases'[p] \in {None, leases[p]}
    OBVIOUS
  <2> USE <1>1
  <2>1. p \in Peers
    BY DEF Held
  <2>2. ASSUME NEW gone, NEW stuck, leases' = TableAfter(gone, stuck)
        PROVE  leases'[p] \in {None, leases[p]}
    <3>1. TableAfter(gone, stuck)[p] \in {None, leases[p]}
      BY ReapRetired
    <3> QED
      BY <2>2, <3>1
  <2>3. CASE Sweep \/ Close \/ \E q \in Requests : Create(q) \/ DeleteHeld(q)
    <3>1. \E gone, stuck : leases' = TableAfter(gone, stuck)
      BY <2>3 DEF Sweep, Close, Create, DeleteHeld
    <3> QED
      BY <2>2, <3>1
  <2>4. ASSUME NEW q \in Requests, Renew(q) PROVE leases'[p] \in {None, leases[p]}
    <3>1. p # Peer[q]
      BY <2>4 DEF Renew
    <3>2. leases'[p] = TableAfter(Due, {})[p]
      BY <2>1, <2>4, <3>1 DEF Renew, TableAfter
    <3> QED
      BY <3>2, ReapRetired
  <2>5. CASE Started \/ StartFailed
    <3>1. starting # None /\ p # Peer[starting.req]
      BY <2>5 DEF Started, StartFailed, RelayInv, StartInv, Held
    <3> QED
      BY <2>1, <2>5, <3>1 DEF Started, StartFailed, RelayInv, TableInv
  <2>6. CASE Restart
    BY <2>1, <2>6 DEF Restart
  <2>7. CASE \/ EngineDies \/ Tick \/ UNCHANGED vars
             \/ \E q \in Requests : PacketChallenge(q) \/ DeleteAbsent(q)
    BY <2>7 DEF EngineDies, Tick, vars, PacketChallenge, DeleteAbsent
  <2> QED
    BY <2>3, <2>4, <2>5, <2>6, <2>7 DEF Next
<1>2. RelayInv /\ [Next]_vars => [\A p \in Held : Keeps(p)]_vars
  BY <1>1
<1> QED
  BY <1>2, RelayInvariant, PTL DEF Spec, RetiredStaysRetired
=============================================================================
