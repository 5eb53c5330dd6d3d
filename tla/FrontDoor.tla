------------------------------ MODULE FrontDoor ------------------------------
(***************************************************************************)
(* What a request meets before a file is looked up for it: the             *)
(* configuration in force (server/src/config.rs), with the settings a      *)
(* domain has of its own (Server::new of server/src/server.rs), the        *)
(* certificate of the connection (server/src/tls.rs), CORS                 *)
(* (server/src/cors.rs) and the redirect to https (create_service of       *)
(* server/src/service.rs).                                                 *)
(*                                                                         *)
(* A reload brings another configuration; a connection keeps the one of    *)
(* the listener that accepted it and is closed after the request it is     *)
(* waiting for.  On the other side is one browser, in which scripts of     *)
(* other sites ask the server for files.  It remembers the answers to      *)
(* preflight requests and keeps copies of files: what a script may read is *)
(* decided by headers that may be as old as another configuration.         *)
(***************************************************************************)
EXTENDS Integers

CONSTANTS Host,       \* the domains
          Origin,     \* the other sites whose scripts ask for files
          Cert,       \* the certificates
          Names,      \* the domains that each of them names
          Method,     \* the methods they use
          Configs,    \* the configurations that are ever loaded
          Unset,      \* Option::None
          Unreadable  \* an SSL file that cannot be loaded

\* What the files named by an SSL section hold.
SSL == Cert \cup {Unset, Unreadable}

DomainConfig == [cors : BOOLEAN \cup {Unset}, ssl : SSL,
                 http_redirect_to_https : BOOLEAN \cup {Unset}]

\* A domain without an entry in `domains' is one that sets nothing.
Config == [cors : BOOLEAN, https : BOOLEAN, ssl : SSL, http_redirect_to_https : BOOLEAN,
           domains : [Host -> DomainConfig]]

ASSUME CertAssumption == /\ Names \in [Cert -> SUBSET Host]
                         /\ Cert \cap {Unset, Unreadable} = {}
                         /\ Unset # Unreadable
ASSUME ConfigAssumption == Configs \subseteq Config
ASSUME OriginAssumption == Unset \notin Origin
ASSUME UnsetAssumption == Unset \notin BOOLEAN

VARIABLES conf,    \* the configuration in force
          conn,    \* the browser's connection
          allowed, \* its cache of preflight answers
          copy,    \* its copies of files: the origin they were sent to, and
                   \*   whether CORS was on for the domain then
          read     \* the last file that a script of another site was given

vars == <<conf, conn, allowed, copy, read>>

-----------------------------------------------------------------------------
(* Settings. *)

\* domain.cors.unwrap_or(default.cors), and the same for the redirect.
unwrap_or(own, default) == IF own = Unset THEN default ELSE own

AllowCors(c, h) == unwrap_or(c.domains[h].cors, c.cors)
RedirectToHttps(c, h) ==
    unwrap_or(c.domains[h].http_redirect_to_https, c.https /\ c.http_redirect_to_https)

\* docs/guide/spa-server-configuration.md: a domain's own setting counts, and
\* the default when it has none.
CorsIsOn(c, h) == \/ c.domains[h].cors = TRUE
                  \/ c.domains[h].cors = Unset /\ c.cors

-----------------------------------------------------------------------------
(* Certificates. *)

DefaultSSL(c) == IF c.https THEN c.ssl ELSE Unset

\* The domains with an SSL section of their own.
OwnSSL(c) == {h \in Host : c.domains[h].ssl # Unset}

\* Mutant: a certificate is added for its domain without looking at its names.
LoadsAnyName(c) ==
    /\ DefaultSSL(c) # Unset \/ OwnSSL(c) # {}
    /\ DefaultSSL(c) # Unreadable
    /\ \A h \in OwnSSL(c) : c.domains[h].ssl # Unreadable

\* load_ssl_server_config succeeds: there is a certificate, all of them can
\* be loaded, and ResolvesServerCertUsingSni::add finds that each one that a
\* domain has of its own is valid for it.
Loads(c) ==
    /\ DefaultSSL(c) # Unset \/ OwnSSL(c) # {}
    /\ DefaultSSL(c) # Unreadable
    /\ \A h \in OwnSSL(c) : c.domains[h].ssl # Unreadable /\ h \in Names[c.domains[h].ssl]

\* start_https_server listens.
HttpsListens(c) == c.https /\ Loads(c)

\* resolve of AlwaysResolver, which is installed when no domain has a section.
AlwaysResolve(c) == DefaultSSL(c)

\* resolve of CertResolver: what ResolvesServerCertUsingSni has for the name,
\* or else the default.
CertResolve(c, h) == IF h \in OwnSSL(c) THEN c.domains[h].ssl ELSE DefaultSSL(c)

\* The certificate that load_ssl_server_config's resolver offers for a name.
Resolve(c, h) == IF OwnSSL(c) = {} THEN AlwaysResolve(c) ELSE CertResolve(c, h)

-----------------------------------------------------------------------------
(* Answers. *)

ALLOW_METHODS == {"GET", "HEAD", "OPTIONS"}

Forbidden == [status |-> 403, origin |-> Unset]
Allowed(o) == [status |-> 200, origin |-> o]

\* Mutant: the method that is announced is not looked at.
PreflightReplyAny(c, h, o, m) == IF AllowCors(c, h) THEN Allowed(o) ELSE Forbidden

\* resp_cors_request, for an OPTIONS request of a script of o that announces
\* method m, or none.
PreflightReply(c, h, o, m) ==
    IF AllowCors(c, h) /\ m \in ALLOW_METHODS THEN Allowed(o) ELSE Forbidden

\* Mutant: only preflight requests are checked.
CreateServiceSimple(c, h, o, scheme) ==
    IF scheme = "http" /\ RedirectToHttps(c, h) THEN [status |-> 301, origin |-> Unset]
    ELSE [status |-> 200, origin |-> o]

\* create_service, for a request with the Origin header o, or none.  Only a
\* request whose target names the scheme http (the absolute form) is
\* redirected; the origin form, which clients send to a server, has no scheme.
CreateService(c, h, o, scheme) ==
    IF o # Unset /\ ~AllowCors(c, h) THEN Forbidden
    ELSE IF scheme = "http" /\ RedirectToHttps(c, h) THEN [status |-> 301, origin |-> Unset]
    ELSE [status |-> 200, origin |-> o]

-----------------------------------------------------------------------------
(* Connections. *)

Closed == [state |-> "closed"]

\* TlsStream: Handshaking, then Streaming; plain http streams at once.
Connection == [state : {"handshaking", "streaming"}, tls : BOOLEAN, host : Host, conf : Configs,
               cert : Cert \cup {Unset}, last : BOOLEAN]

Connect(h, tls) ==
    /\ conn = Closed
    /\ tls => HttpsListens(conf)
    /\ conn' = [state |-> IF tls THEN "handshaking" ELSE "streaming", tls |-> tls, host |-> h,
                conf |-> conf, cert |-> Unset, last |-> FALSE]
    /\ UNCHANGED <<conf, allowed, copy, read>>

\* The server offers the certificate it resolves for the host; a browser
\* goes on with one that names it.
Handshake ==
    /\ conn.state = "handshaking"
    /\ LET cert == Resolve(conn.conf, conn.host)
       IN conn' = IF cert # Unset /\ conn.host \in Names[cert]
                  THEN [conn EXCEPT !.state = "streaming", !.cert = cert] ELSE Closed
    /\ UNCHANGED <<conf, allowed, copy, read>>

Close ==
    /\ conn # Closed
    /\ conn' = Closed
    /\ UNCHANGED <<conf, allowed, copy, read>>

\* POST /reload with any configuration in place; the listeners of the one
\* before shut down gracefully.
Reload ==
    /\ conf' \in Configs
    /\ conn' = IF conn = Closed THEN Closed ELSE [conn EXCEPT !.last = TRUE]
    /\ UNCHANGED <<allowed, copy, read>>

-----------------------------------------------------------------------------
(* The browser. *)

NoCopy == [origin |-> "none"]

\* A connection is used for the host it was opened for and, over https, for
\* the others that its certificate names.
Reaches(h) == /\ conn.state = "streaming"
              /\ h = conn.host \/ (conn.tls /\ h \in Names[conn.cert])

Answered == conn' = IF conn.last THEN Closed ELSE conn

\* A page of h itself, or a link to it: no Origin header.
Visit(h, scheme) ==
    /\ Reaches(h)
    /\ LET reply == CreateService(conn.conf, h, Unset, scheme)
       IN copy' = IF reply.status = 200
                  THEN [copy EXCEPT ![h] = [origin |-> Unset, cors |-> CorsIsOn(conn.conf, h)]] ELSE copy
    /\ Answered
    /\ UNCHANGED <<conf, allowed, read>>

Preflight(o, h, m) ==
    /\ Reaches(h)
    /\ IF PreflightReply(conn.conf, h, o, m).origin = o
       THEN allowed' = allowed \cup {<<o, h, m>>} ELSE UNCHANGED allowed
    /\ Answered
    /\ UNCHANGED <<conf, copy, read>>

\* A script of o fetches the file of h.  When the method, or a header that
\* the script sets, is not a simple one this takes a preflight first, or the
\* memory of one.  The browser hands the script what the server's
\* Access-Control-Allow-Origin lets it have.
Fetch(o, h, m, simple, scheme) ==
    /\ Reaches(h)
    /\ simple \/ <<o, h, m>> \in allowed
    /\ LET reply == CreateService(conn.conf, h, o, scheme)
       IN IF reply.status = 200
          THEN /\ copy' = [copy EXCEPT ![h] = [origin |-> o, cors |-> CorsIsOn(conn.conf, h)]]
               /\ read' = copy'[h]
          ELSE UNCHANGED <<copy, read>>
    /\ Answered
    /\ UNCHANGED <<conf, allowed>>

\* The copy is fresh: nothing is asked.  The answers have no Vary header, so
\* that a copy made for any origin, or for none, is taken.
FetchCopy(o, h) ==
    /\ copy[h] # NoCopy /\ copy[h].origin = o
    /\ read' = copy[h]
    /\ UNCHANGED <<conf, conn, allowed, copy>>

\* Access-Control-Max-Age: 3600, and the age of a copy.
Expire ==
    /\ \/ \E p \in allowed : allowed' = allowed \ {p} /\ UNCHANGED copy
       \/ \E h \in Host : copy' = [copy EXCEPT ![h] = NoCopy] /\ UNCHANGED allowed
    /\ UNCHANGED <<conf, conn, read>>

-----------------------------------------------------------------------------
Init ==
    /\ conf \in Configs
    /\ conn = Closed
    /\ allowed = {}
    /\ copy = [h \in Host |-> NoCopy]
    /\ read = NoCopy

Scheme == {"none", "http"}

Browse ==
    \E h \in Host :
       \/ \E tls \in BOOLEAN : Connect(h, tls)
       \/ \E scheme \in Scheme : Visit(h, scheme)
       \/ \E o \in Origin :
             \/ \E m \in Method : Preflight(o, h, m)
             \/ \E m \in Method, simple \in BOOLEAN, scheme \in Scheme :
                   Fetch(o, h, m, simple, scheme)
             \/ FetchCopy(o, h)

Next == Browse \/ Handshake \/ Close \/ Reload \/ Expire

Spec == Init /\ [][Next]_vars

-----------------------------------------------------------------------------
(* Properties. *)

Copy == [origin : Origin \cup {Unset}, cors : BOOLEAN]

\* Types; a connection is encrypted from the handshake on.
TypeOK ==
    /\ conf \in Configs
    /\ conn \in Connection \cup {Closed}
    /\ allowed \subseteq Origin \X Host \X ALLOW_METHODS
    /\ copy \in [Host -> Copy \cup {NoCopy}]
    /\ read \in Copy \cup {NoCopy}
    /\ conn.state = "streaming" => (conn.cert # Unset <=> conn.tls)

\* A script of another site is given a file only if CORS was on for that
\* domain when the file was sent: whatever the browser remembers of earlier
\* preflights and whatever other requests its copy comes from.
ReadNeedsCors == read # NoCopy => read.cors

\* A domain with a certificate of its own is reached over https with that
\* one, which names it: also when its connection is accepted before a reload
\* and shakes hands after it.
OwnCertificate ==
    [][Handshake /\ conn.conf.domains[conn.host].ssl # Unset
          => conn'.state = "streaming" /\ conn'.cert = conn.conf.domains[conn.host].ssl]_vars

=============================================================================
