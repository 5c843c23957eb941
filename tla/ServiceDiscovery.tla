-------------------------- MODULE ServiceDiscovery --------------------------
(***************************************************************************)
(* service_provider and service_locator: providers announce services to a  *)
(* multicast group, when they are told to and when they are asked; a       *)
(* locator asks, and raises service_found for every announcement it hears. *)
(* Datagrams are lost, repeated and reordered. A provider registers and    *)
(* sends under its mutex, and looks up and sends under a shared lock.      *)
(***************************************************************************)
EXTENDS Naturals, FiniteSets, SequencesExt

CONSTANTS Providers,    \* by their hosts
          Locators,
          Ids,          \* what locators ask for
          Announced,    \* the addresses a provider announces its service under, one after the other
          Service       \* the id it does so for

VARIABLES services,     \* services[p]: _services: how often the id was announced, or 0
          apc,          \* apc[p]: what announce() does
          hpc,          \* hpc[p]: what on_message_received() has found, under its shared lock
          wire,         \* datagrams on their way: <<recipient, message>>
          sent,         \* sent[p]: the announcements in the order of the send calls
          found         \* found[l]: what service_found was raised with

discoveryVars == <<services, apc, hpc, wire, sent, found>>

Free == 0
AnyHost == "any"
Members == Providers \cup Locators
Request(id) == [kind |-> "discovery_request", id |-> id]
Response(p, n) == [kind |-> "discovery_response", id |-> Service, address |-> Announced[n], sender |-> p]

\* udp_client::send_message() to the group: every member may get it.
Sends(message) == wire' = wire \cup {<<n, message>> : n \in Members}

Init == /\ services = [p \in Providers |-> 0]
        /\ apc = [p \in Providers |-> "idle"] /\ hpc = [p \in Providers |-> Free]
        /\ wire = {} /\ sent = [p \in Providers |-> <<>>] /\ found = [l \in Locators |-> {}]

\* The network loses a datagram, or whoever it was sent to gets it; it may come again.
Lose(d) == d \in wire /\ wire' = wire \ {d} /\ UNCHANGED <<services, apc, hpc, sent, found>>
Delivered(d) == d \in wire /\ (wire' = wire \/ wire' = wire \ {d})

-----------------------------------------------------------------------------
\* announce(): the mutex is acquired, the service registered ...
Announce(p) ==
  /\ apc[p] = "idle" /\ hpc[p] = Free /\ services[p] < Len(Announced)
  /\ services' = [services EXCEPT ![p] = @ + 1]
  /\ apc' = [apc EXCEPT ![p] = "sending"]
  /\ UNCHANGED <<hpc, wire, sent, found>>

\* ... and announced before the mutex is released.
SendAnnouncement(p) ==
  /\ apc[p] = "sending" /\ Sends(Response(p, services[p]))
  /\ sent' = [sent EXCEPT ![p] = Append(@, services[p])]
  /\ apc' = [apc EXCEPT ![p] = "idle"]
  /\ UNCHANGED <<services, hpc, found>>

\* service_provider::on_message_received(): anything but a request is ignored ...
ProviderIgnores(p, d) ==
  /\ hpc[p] = Free /\ Delivered(d) /\ d[1] = p
  /\ d[2].kind # "discovery_request"
  /\ UNCHANGED <<services, apc, hpc, sent, found>>

\* ... the service is looked up under a shared lock ...
LookUp(p, d) ==
  /\ hpc[p] = Free /\ apc[p] = "idle" /\ Delivered(d) /\ d[1] = p
  /\ d[2].kind = "discovery_request"
  /\ hpc' = [hpc EXCEPT ![p] = IF d[2].id = Service THEN services[p] ELSE Free]
  /\ UNCHANGED <<services, apc, sent, found>>

\* Mutant of the next: the answer goes to nobody.
AnswerNobody(p) ==
  /\ hpc[p] # Free
  /\ sent' = [sent EXCEPT ![p] = IF Last(@) = hpc[p] THEN @ ELSE Append(@, hpc[p])]
  /\ hpc' = [hpc EXCEPT ![p] = Free]
  /\ UNCHANGED <<services, apc, wire, found>>

\* ... and what was found is sent to the group; sent does not count repetitions.
Answer(p) ==
  /\ hpc[p] # Free /\ Sends(Response(p, hpc[p]))
  /\ sent' = [sent EXCEPT ![p] = IF Last(@) = hpc[p] THEN @ ELSE Append(@, hpc[p])]
  /\ hpc' = [hpc EXCEPT ![p] = Free]
  /\ UNCHANGED <<services, apc, found>>

-----------------------------------------------------------------------------
\* locate_service()
LocateService(l, id) == Sends(Request(id)) /\ UNCHANGED <<services, apc, hpc, sent, found>>

\* A wildcard host means the host the announcement came from; the port is the announced one.
Resolved(response) ==
  IF response.address.host = AnyHost THEN [host |-> response.sender, port |-> response.address.port]
  ELSE response.address

\* service_locator::on_message_received()
Find(l, d) ==
  /\ Delivered(d) /\ d[1] = l
  /\ found' = IF d[2].kind = "discovery_response"
              THEN [found EXCEPT ![l] = @ \cup {[id |-> d[2].id, address |-> Resolved(d[2])]}]
              ELSE found
  /\ UNCHANGED <<services, apc, hpc, sent>>

Next == \/ \E p \in Providers : \/ Announce(p) \/ SendAnnouncement(p) \/ Answer(p)
                                \/ \E d \in wire : ProviderIgnores(p, d) \/ LookUp(p, d)
        \/ \E l \in Locators : (\E id \in Ids : LocateService(l, id)) \/ (\E d \in wire : Find(l, d))
        \/ \E d \in wire : Lose(d)

Spec == Init /\ [][Next]_discoveryVars

\* Calls run on, a locator asks until it is answered, and the network does not lose everything for ever.
Fairness(l, p) ==
  /\ WF_discoveryVars(SendAnnouncement(p) \/ Answer(p))
  /\ WF_discoveryVars(services[p] > 0 /\ found[l] = {} /\ LocateService(l, Service))
  /\ SF_discoveryVars(\E d \in wire : LookUp(p, d) /\ d[2].id = Service)
  /\ SF_discoveryVars(\E d \in wire : Find(l, d) /\ d[2].kind = "discovery_response")

-----------------------------------------------------------------------------
TypeOK == /\ services \in [Providers -> 0..Len(Announced)]
          /\ apc \in [Providers -> {"idle", "sending"}] /\ hpc \in [Providers -> Free..Len(Announced)]
          /\ \A d \in wire : d[1] \in Members

(* What a locator raises can be connected to: an announced port, on the host   *)
(* that was announced or, in place of the wildcard, the one it came from.      *)
FoundReachable ==
  \A l \in Locators : \A f \in found[l] : /\ f.address.host # AnyHost
    /\ \E p \in Providers : \E n \in 1..services[p] :
         /\ f.address.port = Announced[n].port
         /\ f.address.host = IF Announced[n].host = AnyHost THEN p ELSE Announced[n].host

(* A provider does not send an address after a later one: answers and          *)
(* announcements do not overtake each other before they are on the wire, where *)
(* they may (a locator cannot tell which is the last).                         *)
SentInOrder == \A p \in Providers : \A i \in 1..Len(sent[p]) - 1 : sent[p][i] <= sent[p][i + 1]

(* A locator that asks again and again finds a service that was announced,     *)
(* even if it was not there when it was, or did not hear it.                   *)
LocatorFinds == \A l \in Locators : (\E p \in Providers : services[p] > 0) ~> found[l] # {}

-----------------------------------------------------------------------------
\* What both properties rest on: a provider's last address does not change while an announcement or an answer is on its
\* way to the socket, and whatever is on the wire was announced.
CallsOK == /\ services \in [Providers -> Nat] /\ apc \in [Providers -> {"idle", "sending"}]
           /\ hpc \in [Providers -> Nat]
           /\ \A p \in Providers : hpc[p] # Free => apc[p] = "idle" /\ hpc[p] = services[p]
           /\ \A p \in Providers : apc[p] = "sending" => services[p] > 0
SentOK == /\ sent \in [Providers -> Seq(Nat)] /\ SentInOrder
          /\ \A p \in Providers : \A i \in 1..Len(sent[p]) : sent[p][i] <= services[p]
WasAnnounced(message) == \E p \in Providers : \E n \in 1..services[p] : message = Response(p, n)
WireOK == \A d \in wire : d[2].kind = "discovery_response" => WasAnnounced(d[2])
FoundOK == DOMAIN found = Locators /\ FoundReachable
=============================================================================
