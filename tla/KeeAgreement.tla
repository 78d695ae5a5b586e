---------------------------- MODULE KeeAgreement ----------------------------
(***************************************************************************)
(* What the exchange of ledgers promises its requesters, without wallets,  *)
(* transports, forms or databases: a request is offered under its          *)
(* signature, anyone may counter-sign an offered request under some head,  *)
(* and a requester records a ledger at most once, counter-signed by the    *)
(* very party that its head names as bob.                                  *)
(***************************************************************************)
CONSTANTS Party, EntryHead, Request

VARIABLES
  offered,        \* the request signatures in circulation
  countersigned,  \* the counter-signatures in circulation
  recorded        \* recorded[p]: the counter-signatures stored by requester p

agreementVars == <<offered, countersigned, recorded>>

CounterSignature == [head : EntryHead, request : Request, signer : Party]

AgreementInit ==
  /\ offered = {}
  /\ countersigned = {}
  /\ recorded = [p \in Party |-> {}]

Offer(p, request) ==
  /\ request.signer = p
  /\ offered' = offered \cup {request}
  /\ UNCHANGED <<countersigned, recorded>>

Countersign(q, head, request) ==
  /\ countersigned' = countersigned \cup
       {[head |-> head, request |-> request, signer |-> q]}
  /\ UNCHANGED <<offered, recorded>>

Record(p, c) ==
  /\ c \in countersigned
  /\ c.head.alice = p
  /\ c.signer = c.head.bob
  /\ \A r \in recorded[p] : r.head # c.head
  /\ recorded' = [recorded EXCEPT ![p] = @ \cup {c}]
  /\ UNCHANGED <<offered, countersigned>>

AgreementNext ==
  \E p \in Party :
    \/ \E request \in Request : Offer(p, request)
    \/ \E head \in EntryHead, request \in offered : Countersign(p, head, request)
    \/ \E c \in countersigned : Record(p, c)

AgreementSpec == AgreementInit /\ [][AgreementNext]_agreementVars
=============================================================================
