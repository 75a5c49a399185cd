----------------------------- MODULE MCEsimPage -----------------------------
(***************************************************************************)
(* Modems for EsimPage: a card that is read freely, by taking the modem    *)
(* from its owner or by stopping the connection; one that cannot be        *)
(* reached, told apart or written to.                                      *)
(***************************************************************************)
EXTENDS EsimPage

MCEndpoints == {"e1"}
CONSTANTS p1, p2, n1
MCProfiles == {p1, p2}
MCMessages == {n1}
MCHome == [x \in MCProfiles \cup MCMessages |-> "e1"]

Open == [reachable |-> "yes", proven |-> TRUE, ambiguous |-> FALSE, offers |-> "yes"]

Modem(endpoint, known, bearer, slots, read) ==
    [endpoint |-> [e \in MCEndpoints |-> endpoint],
     state |-> [p \in MCProfiles |-> "disabled"],
     known |-> known, bearer |-> bearer, slots |-> slots, switch |-> slots,
     read |-> read, failed |-> "none"]

MCManaged == Modem([Open EXCEPT !.reachable = "requires-inhibit"], TRUE, FALSE, TRUE, TRUE)
MCDirect == {Modem(Open, known, FALSE, FALSE, known) : known \in BOOLEAN}
MCDialling == Modem([Open EXCEPT !.reachable = "requires-bearer-stop"], FALSE, TRUE, TRUE, FALSE)
MCOthers ==
    {Modem(e, TRUE, FALSE, TRUE, FALSE) :
        e \in {[Open EXCEPT !.reachable = "requires-slot-change"], [Open EXCEPT !.reachable = "no"],
               [Open EXCEPT !.ambiguous = TRUE], [Open EXCEPT !.proven = FALSE],
               [Open EXCEPT !.offers = "no"]}}

\* The same card, after an operation that may be tried again with less.
MCRetries == {[m EXCEPT !.failed = f] : m \in {d \in MCDirect : d.read}, f \in {"download", "notification-send"}}

MCSituations == MCDirect \cup MCRetries \cup {MCManaged, MCDialling} \cup MCOthers
=============================================================================
