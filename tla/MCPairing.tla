------------------------------ MODULE MCPairing ------------------------------
(***************************************************************************)
(* Finding a host, pairing with it and remembering it: Session, or beside  *)
(* it PairingExchange, TrustStore or Discovery; which picks the one a      *)
(* behaviour is about.                                                     *)
(***************************************************************************)
EXTENDS Session, TrustStore, Discovery, PairingExchange

VARIABLE which

PairingInit ==
  /\ which \in {"session", "exchange", "store", "finder"}
  /\ Init /\ ExchangeInit /\ StoreInit /\ FinderInit
  /\ which # "finder" => \A p \in Responders : advertised[p] \in Announced

PairingNext ==
  /\ UNCHANGED which
  /\ \/ which = "session" /\ Next /\ UNCHANGED <<exchangeVars, storeVars, finderVars>>
     \/ which = "exchange" /\ ExchangeNext /\ UNCHANGED <<vars, storeVars, finderVars>>
     \/ which = "store" /\ StoreNext /\ UNCHANGED <<vars, exchangeVars, finderVars>>
     \/ which = "finder" /\ FinderNext /\ UNCHANGED <<vars, exchangeVars, storeVars>>

PairingSpec ==
  PairingInit /\ [][PairingNext]_<<which, vars, exchangeVars, storeVars, finderVars>>
=============================================================================
