----------------------------- MODULE MCInterface ------------------------------
(* Small instances of what the clients of the mint meet: blind auth, the     *)
(* events, the keysets and the HTTP interface.  They share no state, so in   *)
(* one behaviour one of them runs and the others stay as they began.         *)
EXTENDS BlindAuth, Events, Keysets, Api

CONSTANTS n1, n2, mq1, lq1, lq2, b1, b2, b3, b4, b5

\* three sets of requests, each of which meets in a note, a quote or an invoice
ApiRequest(p, n, q, os, sum) ==
  [path |-> p, uses |-> n, quote |-> q, outs |-> os, amount |-> sum]
MCApiRequests == {
  {ApiRequest("/v1/swap", n1, Nobody, <<b1>>, 0),
   ApiRequest("/v1/swap", n2, Nobody, <<b2>>, 0),
   ApiRequest("/split", n1, Nobody, <<b5, b1, b2>>, 2),
   ApiRequest("/split", n2, Nobody, <<b3>>, 0)},
  {ApiRequest("/v1/mint/bolt11", Nobody, mq1, <<b3>>, 0),
   ApiRequest("/mint", Nobody, mq1, <<b4>>, 0),
   ApiRequest("/v1/swap", n1, Nobody, <<b3>>, 0)},
  {ApiRequest("/v1/melt/bolt11", n2, lq1, <<b4>>, 0),
   ApiRequest("/melt", n1, Nobody, <<b3>>, 0),
   ApiRequest("/v1/swap", n2, Nobody, <<b2>>, 0)}}
MCOutputAmount == [b \in {b1, b2, b3, b4, b5} |-> IF b = b5 THEN 4 ELSE 1]

VARIABLE part
partsVars == <<part, authVars, eventVars, keysetVars, apiVars>>

\* a part that does not run has one initial state
Init ==
  /\ part \in {"auth", "events", "keysets", "api"}
  /\ AuthInit /\ EventsInit
  /\ KeysetsInit
  /\ part # "keysets" => configured = 0
  /\ ApiInit
  /\ part # "api" => wanted = CHOOSE rs \in ApiRequests : TRUE

AuthRun ==
  /\ part = "auth" /\ AuthNext
  /\ UNCHANGED <<part, eventVars, keysetVars, apiVars>>
EventsRun ==
  /\ part = "events" /\ EventsNext
  /\ UNCHANGED <<part, authVars, keysetVars, apiVars>>
KeysetsRun ==
  /\ part = "keysets" /\ KeysetsNext
  /\ UNCHANGED <<part, authVars, eventVars, apiVars>>
ApiRun ==
  /\ part = "api" /\ ApiNext
  /\ UNCHANGED <<part, authVars, eventVars, keysetVars>>
Next == AuthRun \/ EventsRun \/ KeysetsRun \/ ApiRun
Spec == Init /\ [][Next]_partsVars
===============================================================================
