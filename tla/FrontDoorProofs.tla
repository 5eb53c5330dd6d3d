--------------------------- MODULE FrontDoorProofs ---------------------------
(***************************************************************************)
(* Proofs about FrontDoor: for any domains, origins, certificates and      *)
(* configurations.                                                         *)
(***************************************************************************)
EXTENDS FrontDoor, TLAPS

\* A setting that a domain has, or has not, is one of three values.
LEMMA SettingType ==
    ASSUME NEW c \in Configs, NEW h \in Host
    PROVE  /\ c.cors \in BOOLEAN
           /\ c.https \in BOOLEAN
           /\ c.ssl \in SSL
           /\ c.http_redirect_to_https \in BOOLEAN
           /\ c.domains[h].cors \in BOOLEAN \cup {Unset}
           /\ c.domains[h].ssl \in SSL
           /\ c.domains[h].http_redirect_to_https \in BOOLEAN \cup {Unset}
  <1>1. c \in Config
    BY ConfigAssumption
  <1>2. c.domains[h] \in DomainConfig
    BY <1>1 DEF Config
  <1> QED
    BY <1>1, <1>2 DEF Config, DomainConfig

\* unwrap_or is what the documentation says of a domain's settings.
LEMMA AllowsWhenOn ==
    ASSUME NEW c \in Configs, NEW h \in Host
    PROVE  AllowCors(c, h) <=> CorsIsOn(c, h)
  BY SettingType, UnsetAssumption DEF AllowCors, unwrap_or, CorsIsOn

LEMMA CorsIsBoolean ==
    ASSUME NEW c \in Configs, NEW h \in Host
    PROVE  CorsIsOn(c, h) \in BOOLEAN
  BY SettingType DEF CorsIsOn

\* What an answer of create_service says.
LEMMA ReplyNeedsCors ==
    ASSUME NEW c \in Configs, NEW h \in Host, NEW o \in Origin, NEW scheme \in Scheme,
           CreateService(c, h, o, scheme).status = 200
    PROVE  CorsIsOn(c, h)
  <1>1. o # Unset
    BY OriginAssumption
  <1>2. SUFFICES ASSUME ~AllowCors(c, h) PROVE FALSE
    BY AllowsWhenOn
  <1>3. CreateService(c, h, o, scheme) = Forbidden
    BY <1>1, <1>2 DEF CreateService
  <1> QED
    BY <1>3 DEF Forbidden

\* The certificate of a configuration whose https listener listens.
LEMMA ResolveType ==
    ASSUME NEW c \in Configs, NEW h \in Host, HttpsListens(c)
    PROVE  /\ Resolve(c, h) \in Cert \cup {Unset}
           /\ c.domains[h].ssl # Unset =>
                 /\ Resolve(c, h) = c.domains[h].ssl
                 /\ Resolve(c, h) \in Cert
                 /\ h \in Names[Resolve(c, h)]
  <1>1. c.ssl \in SSL /\ c.domains[h].ssl \in SSL
    BY SettingType
  <1>2. Loads(c)
    BY DEF HttpsListens
  <1>3. DefaultSSL(c) \in Cert \cup {Unset}
    BY <1>1, <1>2 DEF Loads, DefaultSSL, SSL
  <1>4. CASE OwnSSL(c) = {}
    <2>1. c.domains[h].ssl = Unset
      BY <1>4 DEF OwnSSL
    <2>2. Resolve(c, h) = DefaultSSL(c)
      BY <1>4 DEF Resolve, AlwaysResolve
    <2> QED
      BY <1>3, <2>1, <2>2
  <1>5. CASE h \in OwnSSL(c)
    <2>1. Resolve(c, h) = c.domains[h].ssl
      BY <1>5 DEF Resolve, CertResolve
    <2>2. c.domains[h].ssl # Unset
      BY <1>5 DEF OwnSSL
    <2>3. c.domains[h].ssl # Unreadable /\ h \in Names[c.domains[h].ssl]
      BY <1>2, <1>5 DEF Loads
    <2> QED
      BY <1>1, <2>1, <2>2, <2>3 DEF SSL
  <1>6. CASE OwnSSL(c) # {} /\ h \notin OwnSSL(c)
    <2>1. Resolve(c, h) = DefaultSSL(c)
      BY <1>6 DEF Resolve, CertResolve
    <2>2. c.domains[h].ssl = Unset
      BY <1>6 DEF OwnSSL
    <2> QED
      BY <1>3, <2>1, <2>2
  <1> QED
    BY <1>4, <1>5, <1>6

-----------------------------------------------------------------------------
\* What is true of a connection and of the browser's memory: a handshake is
\* one with a listener that could load its certificates, and a copy that was
\* sent to another site was sent while CORS was on.
HandshakeInv == conn.state = "handshaking" => conn.tls /\ HttpsListens(conn.conf)
CopyInv == \A h \in Host : copy[h] # NoCopy /\ copy[h].origin # Unset => copy[h].cors
Inv == TypeOK /\ HandshakeInv /\ CopyInv /\ ReadNeedsCors

LEMMA ConnType ==
    ASSUME TypeOK, conn # Closed
    PROVE  /\ conn.state \in {"handshaking", "streaming"}
           /\ conn.tls \in BOOLEAN /\ conn.last \in BOOLEAN
           /\ conn.host \in Host /\ conn.conf \in Configs
           /\ conn.cert \in Cert \cup {Unset}
           /\ conn \in Connection
  BY DEF TypeOK, Connection

LEMMA InitInv == Init => Inv
  BY DEF Init, Inv, TypeOK, HandshakeInv, CopyInv, ReadNeedsCors, Closed, NoCopy, Connection

\* An answer leaves the connection as it is, or closes it.
LEMMA AnsweredInv ==
    ASSUME Inv, Answered
    PROVE  /\ conn' \in Connection \cup {Closed}
           /\ conn'.state = "streaming" => (conn'.cert # Unset <=> conn'.tls)
           /\ conn'.state = "handshaking" => conn'.tls /\ HttpsListens(conn'.conf)
  BY DEF Inv, TypeOK, HandshakeInv, Answered, Closed

LEMMA ReachedConf ==
    ASSUME Inv, NEW h \in Host, Reaches(h)
    PROVE  conn.conf \in Configs
  <1>1. conn # Closed
    BY DEF Reaches, Closed
  <1> QED
    BY <1>1, ConnType DEF Inv

LEMMA ConnectStep ==
    ASSUME Inv, NEW h \in Host, NEW tls \in BOOLEAN, Connect(h, tls)
    PROVE  Inv'
  <1>1. conn' \in Connection /\ (conn'.state = "streaming" => (conn'.cert # Unset <=> conn'.tls))
    BY DEF Inv, TypeOK, Connect, Connection
  <1>2. conn'.state = "handshaking" => conn'.tls /\ HttpsListens(conn'.conf)
    BY DEF Connect
  <1> QED
    BY <1>1, <1>2 DEF Inv, TypeOK, HandshakeInv, CopyInv, ReadNeedsCors, Connect

LEMMA HandshakeStep ==
    ASSUME Inv, Handshake
    PROVE  Inv'
  <1>1. conn # Closed
    BY DEF Handshake, Closed
  <1>2. conn.host \in Host /\ conn.conf \in Configs /\ conn.tls = TRUE /\ HttpsListens(conn.conf)
    BY <1>1, ConnType DEF Inv, HandshakeInv, Handshake
  <1>3. Resolve(conn.conf, conn.host) \in Cert \cup {Unset}
    BY <1>2, ResolveType
  <1>4. conn \in Connection
    BY <1>1, ConnType DEF Inv
  <1>5. /\ conn' \in Connection \cup {Closed}
        /\ conn'.state = "streaming" => (conn'.cert # Unset <=> conn'.tls)
        /\ conn'.state # "handshaking"
    BY <1>2, <1>3, <1>4 DEF Handshake, Connection, Closed
  <1> QED
    BY <1>5 DEF Inv, TypeOK, HandshakeInv, CopyInv, ReadNeedsCors, Handshake

LEMMA ReloadStep ==
    ASSUME Inv, Reload
    PROVE  Inv'
  <1>1. /\ conn' \in Connection \cup {Closed}
        /\ conn'.state = "streaming" => (conn'.cert # Unset <=> conn'.tls)
        /\ conn'.state = "handshaking" => conn'.tls /\ HttpsListens(conn'.conf)
    BY DEF Inv, TypeOK, HandshakeInv, Reload, Connection, Closed
  <1> QED
    BY <1>1 DEF Inv, TypeOK, HandshakeInv, CopyInv, ReadNeedsCors, Reload

LEMMA VisitStep ==
    ASSUME Inv, NEW h \in Host, NEW scheme \in Scheme, Visit(h, scheme)
    PROVE  Inv'
  <1>1. conn.conf \in Configs
    BY ReachedConf DEF Visit
  <1>2. \/ copy' = copy
        \/ copy' = [copy EXCEPT ![h] = [origin |-> Unset, cors |-> CorsIsOn(conn.conf, h)]]
    BY DEF Visit
  <1>3. copy' \in [Host -> Copy \cup {NoCopy}]
    BY <1>1, <1>2, CorsIsBoolean DEF Inv, TypeOK, Copy
  <1>4. CopyInv'
    BY <1>2 DEF Inv, TypeOK, CopyInv
  <1>5. Answered
    BY DEF Visit
  <1> QED
    BY <1>3, <1>4, <1>5, AnsweredInv DEF Inv, TypeOK, HandshakeInv, ReadNeedsCors, Visit

LEMMA PreflightStep ==
    ASSUME Inv, NEW o \in Origin, NEW h \in Host, NEW m \in Method, Preflight(o, h, m)
    PROVE  Inv'
  <1>1. m \in ALLOW_METHODS \/ UNCHANGED allowed
    BY OriginAssumption DEF Preflight, PreflightReply, Forbidden
  <1>2. allowed' \subseteq Origin \X Host \X ALLOW_METHODS
    BY <1>1 DEF Preflight, Inv, TypeOK
  <1>3. Answered
    BY DEF Preflight
  <1> QED
    BY <1>2, <1>3, AnsweredInv DEF Inv, TypeOK, HandshakeInv, CopyInv, ReadNeedsCors, Preflight

LEMMA FetchStep ==
    ASSUME Inv, NEW o \in Origin, NEW h \in Host, NEW m \in Method, NEW simple \in BOOLEAN,
           NEW scheme \in Scheme, Fetch(o, h, m, simple, scheme)
    PROVE  Inv'
  <1>1. conn.conf \in Configs
    BY ReachedConf DEF Fetch
  <1>2. Answered
    BY DEF Fetch
  <1>3. CASE CreateService(conn.conf, h, o, scheme).status = 200
    <2> DEFINE new == [origin |-> o, cors |-> CorsIsOn(conn.conf, h)]
    <2>1. CorsIsOn(conn.conf, h) = TRUE
      BY <1>1, <1>3, ReplyNeedsCors, CorsIsBoolean
    <2>2. copy' = [copy EXCEPT ![h] = new] /\ read' = copy'[h]
      BY <1>3 DEF Fetch
    <2>3. new \in Copy /\ new.cors = TRUE
      BY <2>1 DEF Copy
    <2>4. read' = new
      BY <2>2 DEF Inv, TypeOK
    <2>5. copy' \in [Host -> Copy \cup {NoCopy}]
      BY <2>2, <2>3 DEF Inv, TypeOK
    <2>6. CopyInv'
      BY <2>2, <2>3 DEF Inv, TypeOK, CopyInv
    <2> QED
      BY <1>2, <2>3, <2>4, <2>5, <2>6, AnsweredInv
         DEF Inv, TypeOK, HandshakeInv, ReadNeedsCors, Fetch
  <1>4. CASE CreateService(conn.conf, h, o, scheme).status # 200
    BY <1>2, <1>4, AnsweredInv DEF Inv, TypeOK, HandshakeInv, CopyInv, ReadNeedsCors, Fetch
  <1> QED
    BY <1>3, <1>4

LEMMA FetchCopyStep ==
    ASSUME Inv, NEW o \in Origin, NEW h \in Host, FetchCopy(o, h)
    PROVE  Inv'
  BY OriginAssumption DEF Inv, TypeOK, HandshakeInv, CopyInv, ReadNeedsCors, FetchCopy

LEMMA ExpireStep ==
    ASSUME Inv, Expire
    PROVE  Inv'
  BY DEF Inv, TypeOK, HandshakeInv, CopyInv, ReadNeedsCors, Expire

LEMMA CloseStep ==
    ASSUME Inv, Close
    PROVE  Inv'
  BY DEF Inv, TypeOK, HandshakeInv, CopyInv, ReadNeedsCors, Close, Closed

LEMMA NextInv == Inv /\ [Next]_vars => Inv'
  <1> SUFFICES ASSUME Inv, [Next]_vars PROVE Inv'
    OBVIOUS
  <1>1. CASE Browse
    BY <1>1, ConnectStep, VisitStep, PreflightStep, FetchStep, FetchCopyStep DEF Browse
  <1>2. CASE Handshake \/ Close \/ Reload \/ Expire
    BY <1>2, HandshakeStep, CloseStep, ReloadStep, ExpireStep
  <1>3. CASE UNCHANGED vars
    BY <1>3 DEF vars, Inv, TypeOK, HandshakeInv, CopyInv, ReadNeedsCors
  <1> QED
    BY <1>1, <1>2, <1>3 DEF Next

\* Of every reachable state: the types, and what connections and copies are.
THEOREM Invariant == Spec => []Inv
  BY InitInv, NextInv, PTL DEF Spec

\* The type invariant of the front door.
THEOREM TypeCorrect == Spec => []TypeOK
  <1>1. Inv => TypeOK
    BY DEF Inv
  <1> QED
    BY <1>1, Invariant, PTL

\* No script of another site is given a file that was sent while CORS was off.
THEOREM ReadsNeedCors == Spec => []ReadNeedsCors
  <1>1. Inv => ReadNeedsCors
    BY DEF Inv
  <1> QED
    BY <1>1, Invariant, PTL

\* A domain with a certificate of its own is reached over https with that one.
THEOREM CertificateIsOwn == Spec => OwnCertificate
  <1>1. Inv /\ [Next]_vars =>
          [Handshake /\ conn.conf.domains[conn.host].ssl # Unset
             => conn'.state = "streaming" /\ conn'.cert = conn.conf.domains[conn.host].ssl]_vars
    <2> SUFFICES ASSUME Inv, Handshake, conn.conf.domains[conn.host].ssl # Unset
                 PROVE  conn'.state = "streaming"
                        /\ conn'.cert = conn.conf.domains[conn.host].ssl
      OBVIOUS
    <2>1. conn # Closed
      BY DEF Handshake, Closed
    <2>2. conn.host \in Host /\ conn.conf \in Configs /\ HttpsListens(conn.conf)
      BY <2>1, ConnType DEF Inv, HandshakeInv, Handshake
    <2>3. /\ Resolve(conn.conf, conn.host) = conn.conf.domains[conn.host].ssl
          /\ conn.host \in Names[Resolve(conn.conf, conn.host)]
      BY <2>2, ResolveType
    <2>4. conn \in Connection
      BY <2>1, ConnType DEF Inv
    <2> QED
      BY <2>3, <2>4 DEF Handshake, Connection
  <1> QED
    BY <1>1, Invariant, PTL DEF Spec, OwnCertificate

=============================================================================
