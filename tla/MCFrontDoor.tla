----------------------------- MODULE MCFrontDoor -----------------------------
(***************************************************************************)
(* Instances of FrontDoor for TLC.                                         *)
(***************************************************************************)
EXTENDS FrontDoor

CONSTANTS h1, h2, o1, of_h1, of_both

NothingOwn == [cors |-> Unset, ssl |-> Unset, http_redirect_to_https |-> Unset]

CertNames == [k \in Cert |-> IF k = of_h1 THEN {h1} ELSE {h1, h2}]

\* No https, https with certificates of domains only, and with a default.
Https == {[on |-> FALSE, ssl |-> Unset], [on |-> TRUE, ssl |-> Unset],
          [on |-> TRUE, ssl |-> of_both]}

\* h1 turns CORS off and has a certificate of its own, or names a file that
\* cannot be loaded; h2 turns CORS on and names the wrong certificate.
SomeConfigs ==
    {[cors |-> cors, https |-> https.on, ssl |-> https.ssl,
      http_redirect_to_https |-> https.ssl # Unset,
      domains |-> [h \in Host |-> IF h = h1 THEN own1 ELSE own2]] :
        cors \in BOOLEAN, https \in Https,
        own1 \in {NothingOwn,
                  [cors |-> FALSE, ssl |-> of_h1, http_redirect_to_https |-> FALSE],
                  [cors |-> Unset, ssl |-> Unreadable, http_redirect_to_https |-> Unset]},
        own2 \in {NothingOwn,
                  [cors |-> TRUE, ssl |-> of_h1, http_redirect_to_https |-> Unset]}}
=============================================================================
