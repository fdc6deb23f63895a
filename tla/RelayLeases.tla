------------------------------ MODULE RelayLeases ------------------------------
(***************************************************************************)
(* The entry server's multihop relay manager (internal/multihoprelay/      *)
(* relay.go, external_packet_lease.go): one lease per tunnel peer, an      *)
(* engine process and a port behind each, and the attempts that were       *)
(* already used.  PUT and DELETE of a client may arrive late, twice and in *)
(* either order; so a request that was made once may be handled any time.  *)
(*                                                                         *)
(* Every operation holds mu, Create for as long as its engine takes to     *)
(* start.  A request stands for its immutable fields: its peer, its exit's *)
(* credential, the port it asks for.  Configurations, secrets, identities' *)
(* formats and HTTP codes are left out.                                    *)
(***************************************************************************)
EXTENDS Integers, FiniteSets

CONSTANTS
    Peers, Ports,
    Requests,      \* relay requests
    Peer,          \* PeerKey of a request
    Credential,    \* the paired credential of a request's exit
    Challenged,    \* the requests bound to a challenge (externalRequestRequiresChallenge)
    TTL,           \* TTLSeconds
    Lifetime,      \* packetAcquireLifetime
    MaxAttempts,   \* maxPacketAttempts
    MaxTime,       \* bound of the clock
    MaxFaults,     \* bound: engines that do not start or do not stop
    MaxEpoch       \* bound: restarts of the manager

ASSUME RelayAssumption ==
    /\ Challenged \subseteq Requests /\ "none" \notin Requests
    /\ Peer \in [Requests -> Peers] /\ IsFiniteSet(Peers)
    /\ {TTL, Lifetime, MaxAttempts, MaxTime, MaxFaults, MaxEpoch} \subseteq Nat
    /\ TTL > 0 /\ Lifetime > 0

VARIABLES
    leases,    \* m.leases, by peer
    engines,   \* the engine processes that run
    starting,  \* the request whose engine Create is waiting for, with mu held
    attempts,  \* m.packetAttempts
    issued,    \* each request's challenge: the epoch, and until when it may acquire
    epoch, closed, now,
    stopped,   \* history: requests whose DELETE was answered with "stopped"
    faults

vars == <<leases, engines, starting, attempts, issued, epoch, closed, now, stopped, faults>>

None   == [req |-> "none"]
Engine == [req : Requests, port : Ports]
Lease  == [req : Requests, port : Ports, expires : Nat, retired : {"no", "yes"}]
Unissued == [epoch |-> 0, until |-> 0]

Held     == {p \in Peers : leases[p] # None}
Alive(p) == [req |-> leases[p].req, port |-> leases[p].port] \in engines
Of(P)    == {[req |-> leases[p].req, port |-> leases[p].port] : p \in P}

Fault   == faults > 0 /\ faults' = faults - 1
NoFault == UNCHANGED faults

(* m.validate: a challenged request belongs to this epoch. *)
Valid(q)   == q \in Challenged => issued[q].epoch = epoch
Expired(q) == issued[q].until <= now

-----------------------------------------------------------------------------
(* reapLocked: the leases that are due, in the order of Go's map, which is any
   order, up to the first engine that does not stop. *)
Due == {p \in Held : leases[p].expires <= now \/ ~Alive(p)}

(* stopLocked: a lease whose engine is gone is deleted; one whose engine did not
   stop is retired, and keeps its peer and its port. *)
TableAfter(gone, stuck) ==
    [p \in Peers |-> IF p \in gone THEN None
                     ELSE IF p \in stuck THEN [leases[p] EXCEPT !.retired = "yes"]
                     ELSE leases[p]]

(* sweepPacketAttemptsLocked *)
SweptAttempts == {q \in attempts : issued[q].until > now}

(* Mutant: the sweep looks at the expiry only. *)
MutSweepExpiredOnly ==
    /\ starting = None /\ NoFault
    /\ LET due == {p \in Held : leases[p].expires <= now} IN
        /\ due # {} \/ SweptAttempts # attempts
        /\ leases' = TableAfter(due, {}) /\ engines' = engines \ Of(due)
    /\ attempts' = SweptAttempts
    /\ UNCHANGED <<starting, issued, epoch, closed, now, stopped>>

(* Sweep, every second; and what a Create does that ends in an error of its
   reapLocked. *)
Sweep ==
    /\ starting = None
    /\ \/ /\ NoFault
          /\ Due # {} \/ SweptAttempts # attempts
          /\ leases' = TableAfter(Due, {}) /\ engines' = engines \ Of(Due)
       \/ /\ Fault
          /\ \E stuck \in Due : \E gone \in SUBSET (Due \ {stuck}) :
                leases' = TableAfter(gone, {stuck}) /\ engines' = engines \ Of(gone)
    /\ attempts' = SweptAttempts
    /\ UNCHANGED <<starting, issued, epoch, closed, now, stopped>>

(* PacketChallenge, and the client that signs a fresh attempt with it. *)
PacketChallenge(q) ==
    /\ starting = None /\ closed = "no"
    /\ q \in Challenged /\ issued[q] = Unissued
    /\ issued' = [issued EXCEPT ![q] = [epoch |-> epoch, until |-> now + Lifetime]]
    /\ UNCHANGED <<leases, engines, starting, attempts, epoch, closed, now, stopped, faults>>

(* Create, when the peer holds this very lease and its engine lives: renewal,
   after the due leases were reaped. *)
Renew(q) ==
    /\ starting = None /\ closed = "no" /\ Valid(q)
    /\ Peer[q] \in Held \ Due /\ leases[Peer[q]].req = q /\ leases[Peer[q]].retired = "no"
    /\ leases' = [TableAfter(Due, {}) EXCEPT ![Peer[q]].expires = now + TTL]
    /\ engines' = engines \ Of(Due)
    /\ attempts' = SweptAttempts
    /\ UNCHANGED <<starting, issued, epoch, closed, now, stopped, faults>>

(* validateNewPacketAttemptLocked *)
NewAttempt(q) ==
    q \in Challenged => ~Expired(q) /\ q \notin SweptAttempts /\ Cardinality(SweptAttempts) < MaxAttempts

(* Mutant: only the peer's own lease is compared. *)
MutFreeCredential(q) == \A p \in Held \ Due : p = Peer[q] => Credential[leases[p].req] # Credential[q]

(* A paired WireGuard, PQ or OpenVPN credential owns one relay at a time. *)
FreeCredential(q) == \A p \in Held \ Due : Credential[leases[p].req] # Credential[q]

(* Create, a new lease, up to runner.Start.  The attempt is used up before. *)
Create(q) ==
    /\ starting = None /\ closed = "no" /\ Valid(q)
    /\ Peer[q] \notin Held \ Due
    /\ NewAttempt(q) /\ FreeCredential(q)
    /\ \E port \in Ports \ {leases[p].port : p \in Held \ Due} :
          starting' = [req |-> q, port |-> port, expires |-> now + TTL]
    /\ leases' = TableAfter(Due, {}) /\ engines' = engines \ Of(Due)
    /\ attempts' = SweptAttempts \cup ({q} \cap Challenged)
    /\ UNCHANGED <<issued, epoch, closed, now, stopped, faults>>

(* runner.Start returned an engine in good order: the lease begins now. *)
Started ==
    /\ starting # None
    /\ LET e == [req |-> starting.req, port |-> starting.port] IN
        /\ engines' = engines \cup {e}
        /\ leases' = [leases EXCEPT ![Peer[e.req]] =
                        [req |-> e.req, port |-> e.port, expires |-> now + TTL, retired |-> "no"]]
    /\ starting' = None
    /\ UNCHANGED <<attempts, issued, epoch, closed, now, stopped, faults>>

(* Mutant: the process that came up too late is dropped. *)
MutStartFailedDrops ==
    /\ starting # None /\ starting' = None /\ Fault
    /\ \/ UNCHANGED engines
       \/ engines' = engines \cup {[req |-> starting.req, port |-> starting.port]}
    /\ UNCHANGED <<leases, attempts, issued, epoch, closed, now, stopped>>

(* It failed, or the client gave up meanwhile.  A process that exists is
   stopped, or kept as a retired lease if that fails. *)
StartFailed ==
    /\ starting # None /\ starting' = None /\ Fault
    /\ \/ UNCHANGED <<leases, engines>>
       \/ LET e == [req |-> starting.req, port |-> starting.port] IN
            /\ engines' = engines \cup {e}
            /\ leases' = [leases EXCEPT ![Peer[e.req]] =
                            [req |-> e.req, port |-> e.port, expires |-> starting.expires,
                             retired |-> "yes"]]
    /\ UNCHANGED <<attempts, issued, epoch, closed, now, stopped>>

-----------------------------------------------------------------------------
(* Mutant: a DELETE that finds no lease has nothing to do. *)
MutDeleteAbsent(q) ==
    /\ starting = None /\ Valid(q) /\ Peer[q] \notin Held
    /\ stopped' = stopped \cup {q}
    /\ attempts' = SweptAttempts
    /\ UNCHANGED <<leases, engines, starting, issued, epoch, closed, now, faults>>

(* Delete, no lease: the attempt is retired, for its PUT may still be under way;
   an attempt that expired needs no entry, and a full table is an error. *)
DeleteAbsent(q) ==
    /\ starting = None /\ Valid(q) /\ Peer[q] \notin Held
    /\ stopped' = stopped \cup {q}
    /\ IF q \in Challenged
       THEN /\ Expired(q) \/ q \in SweptAttempts \/ Cardinality(SweptAttempts) < MaxAttempts
            /\ attempts' = SweptAttempts \cup (IF Expired(q) THEN {} ELSE {q})
       ELSE UNCHANGED attempts
    /\ UNCHANGED <<leases, engines, starting, issued, epoch, closed, now, faults>>

(* Delete of the lease that is held.  Another's lease is not touched. *)
DeleteHeld(q) ==
    /\ starting = None /\ Valid(q) /\ leases[Peer[q]].req = q
    /\ \/ /\ NoFault
          /\ leases' = TableAfter({Peer[q]}, {}) /\ engines' = engines \ Of({Peer[q]})
          /\ stopped' = stopped \cup {q}
       \/ Fault /\ leases' = TableAfter({}, {Peer[q]}) /\ UNCHANGED <<engines, stopped>>
    /\ UNCHANGED <<starting, attempts, issued, epoch, closed, now>>

(* Close tries to stop every lease, whatever became of the others. *)
Close ==
    /\ starting = None
    /\ closed' = "yes"
    /\ \E stuck \in SUBSET Held :
        /\ Cardinality(stuck) <= faults /\ faults' = faults - Cardinality(stuck)
        /\ leases' = TableAfter(Held \ stuck, stuck)
        /\ engines' = engines \ Of(Held \ stuck)
    /\ UNCHANGED <<starting, attempts, issued, epoch, now, stopped>>

(* The agent starts again: a new epoch and empty tables.  Engines die with their
   parent (Pdeathsig). *)
Restart ==
    /\ epoch < MaxEpoch /\ epoch' = epoch + 1
    /\ leases' = [p \in Peers |-> None] /\ engines' = {} /\ starting' = None
    /\ attempts' = {} /\ closed' = "no"
    /\ UNCHANGED <<issued, now, stopped, faults>>

(* An engine dies by itself; time passes, also while an engine starts. *)
EngineDies == \E e \in engines : engines' = engines \ {e}
              /\ UNCHANGED <<leases, starting, attempts, issued, epoch, closed, now, stopped, faults>>
Tick == now < MaxTime /\ now' = now + 1
        /\ UNCHANGED <<leases, engines, starting, attempts, issued, epoch, closed, stopped, faults>>

-----------------------------------------------------------------------------
Init ==
    /\ leases = [p \in Peers |-> None] /\ engines = {} /\ starting = None
    /\ attempts = {} /\ issued = [q \in Requests |-> Unissued]
    /\ epoch = 1 /\ closed = "no" /\ now = 0 /\ stopped = {} /\ faults = MaxFaults

Next ==
    \/ Sweep \/ Started \/ StartFailed \/ Close \/ Restart \/ EngineDies \/ Tick
    \/ \E q \in Requests : PacketChallenge(q) \/ Renew(q) \/ Create(q) \/ DeleteAbsent(q) \/ DeleteHeld(q)

Spec == Init /\ [][Next]_vars

(* The sweep's ticker fires every second, and an engine that starts answers
   before Create's deadline. *)
FairSpec == Spec /\ SF_vars(Sweep) /\ WF_vars(Started \/ StartFailed)

-----------------------------------------------------------------------------
(* The tables are well formed; a lease and the start under way are filed under
   the peer that asked. *)
TypeOK ==
    /\ leases \in [Peers -> Lease \cup {None}] /\ engines \subseteq Engine
    /\ starting \in [req : Requests, port : Ports, expires : Nat] \cup {None}
    /\ attempts \subseteq Challenged /\ stopped \subseteq Requests
    /\ issued \in [Requests -> [epoch : Nat, until : Nat]]
    /\ epoch \in Nat /\ closed \in {"no", "yes"} /\ now \in Nat /\ faults \in Nat
    /\ \A p \in Held : Peer[leases[p].req] = p
    /\ starting # None => Peer[starting.req] \notin Held

(* Every engine that runs is behind the lease of its peer, also after starts and
   stops that failed: none is forgotten, and no port is given out twice. *)
EngineIsOwned ==
    /\ \A e \in engines : LET l == leases[Peer[e.req]] IN
                            l # None /\ l.req = e.req /\ l.port = e.port
    /\ \A p, r \in Held : p # r => leases[p].port # leases[r].port

(* Two engines never use one credential at a time (the comment in Create: they
   would steal each other's reply endpoint). *)
OneRelayPerCredential ==
    \A d, e \in engines : d # e => Credential[d.req] # Credential[e.req]

(* After a DELETE was answered, no late or repeated PUT of that request starts an
   engine: not after the attempt was swept, and not after a restart (the comment
   in Delete). *)
NoResurrection ==
    \A q \in stopped \cap Challenged :
        (\A e \in engines : e.req # q) /\ (starting # None => starting.req # q)

(* A lease that is retired is neither renewed nor brought back, not even while
   its engine refuses to stop and its peer asks again (the comment in stopLocked). *)
RetiredStaysRetired ==
    [][\A p \in Held : leases[p].retired = "yes" => leases'[p] \in {None, leases[p]}]_vars

(* A lease that is due goes away, although one engine that does not stop ends a
   sweep for the others, too. *)
DueIsReaped == \A p \in Peers : (p \in Due) ~> (p \notin Due)
=============================================================================
