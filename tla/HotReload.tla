----------------------------- MODULE HotReload -----------------------------
(***************************************************************************)
(* POST /reload: reload_server of server/src/lib.rs, the stop signals of   *)
(* server/src/hot_reload.rs and the listeners of server/src/server.rs.     *)
(*                                                                         *)
(* Every reload makes a new generation of the static server: a             *)
(* configuration read from disk, a DomainStorage of its own and a listener *)
(* per configured port, which binds beside the listeners it replaces       *)
(* (SO_REUSEPORT).  After 500 ms the old generation is sent its stop       *)
(* signals.  A signal is a oneshot channel: its listener stops when the    *)
(* sender sends and also when the sender is dropped; sending fails when    *)
(* the listener is gone.  HotReloadManager owns the senders of the current *)
(* generation, a reload in flight those of the generation it has started.  *)
(***************************************************************************)
EXTENDS Integers

CONSTANTS Reloader,      \* the reload requests that can be in flight at once
          MaxGen,        \* bound: generations started, the first included
          MayBreak,      \* the listeners that can fail to start
          StartsInTime   \* TRUE: a spawned listener has started, or failed
                         \*   to, before the 500 ms of its reload are over

Listener == {"http", "https"}
Generation == 1 .. MaxGen

ASSUME BoundAssumption == MaxGen \in Nat \ {0}
ASSUME BreakAssumption == MayBreak \subseteq Listener
ASSUME StartAssumption == StartsInTime \in BOOLEAN

VARIABLES gens,      \* how many generations have been started
          listens,   \* the listeners each generation is configured with
          listener,  \* the listeners of each generation
          signal,    \* the sender of each listener's stop signal
          manager,   \* the generation whose senders HotReloadManager owns
          reload     \* the requests in flight: the generation each started

vars == <<gens, listens, listener, signal, manager, reload>>

None == 0
ListenerState == {"off", "starting", "listening", "failed", "stopped"}
SignalState == {"none", "held", "sent", "dropped"}

Started == 1 .. gens
InFlight(g) == \E r \in Reloader : reload[r] = g

\* The receiver is alive: the listener runs, or will.
Alive(g, l) == listener[g][l] \in {"starting", "listening"}

\* Dropping a HotReloadState drops the senders it still has.
Dropped(s) == [l \in Listener |-> IF s[l] = "held" THEN "dropped" ELSE s[l]]
Sent(s) == [l \in Listener |-> IF s[l] = "held" THEN "sent" ELSE s[l]]

-----------------------------------------------------------------------------
(* Listeners: start_http_server and start_https_server. *)

Become(g, l, s) ==
    /\ listener' = [listener EXCEPT ![g][l] = s]
    /\ UNCHANGED <<gens, listens, signal, manager, reload>>

Listen(g, l) == listener[g][l] = "starting" /\ Become(g, l, "listening")

\* The port cannot be bound or the certificate cannot be read: the start
\* function returns an error, which nobody reads, and drops the receiver.
FailToStart(g, l) == /\ l \in MayBreak
                     /\ listener[g][l] = "starting"
                     /\ Become(g, l, "failed")

\* Mutant: a dropped sender is not taken for a stop signal.
StopWhenSent(g, l) == /\ signal[g][l] = "sent"
                      /\ listener[g][l] = "listening"
                      /\ Become(g, l, "stopped")

\* handler: `rx.await.ok()', then the graceful shutdown closes the socket.
Stop(g, l) == /\ signal[g][l] \in {"sent", "dropped"}
              /\ listener[g][l] = "listening"
              /\ Become(g, l, "stopped")

-----------------------------------------------------------------------------
(* The request: reload_server. *)

\* Config::load, HotReloadState::init and the spawn of
\* Server::run.  The file may have been edited to enable any listeners L; one
\* that cannot be read, or has another admin_config, changes nothing.
Start(r) ==
    /\ reload[r] = None
    /\ gens < MaxGen
    /\ \E L \in SUBSET Listener :
       LET g == gens + 1
       IN /\ gens' = g
          /\ reload' = [reload EXCEPT ![r] = g]
          /\ listens' = [listens EXCEPT ![g] = L]
          /\ listener' = [listener EXCEPT ![g] = [l \in Listener |->
                             IF l \in L THEN "starting" ELSE "off"]]
          /\ signal' = [signal EXCEPT ![g] = [l \in Listener |->
                             IF l \in L THEN "held" ELSE "none"]]
    /\ UNCHANGED manager

\* A stop signal of the manager whose listener is already gone.
Unsendable(l) == signal[manager][l] = "held" /\ ~Alive(manager, l)
Sendable == \A l \in Listener : ~Unsendable(l)

\* The 500 ms are over.
Slept(r) == /\ reload[r] # None
            /\ StartsInTime => \A l \in Listener : listener[reload[r]][l] # "starting"

Answer(r) == /\ reload' = [reload EXCEPT ![r] = None]
             /\ UNCHANGED <<gens, listens, listener>>

\* Mutant: the new state is not stored (`*lock = state' is forgotten).
SwapKeepsOld(r) ==
    /\ Slept(r) /\ Sendable
    /\ signal' = [[signal EXCEPT ![manager] = Sent(@)] EXCEPT ![reload[r]] = Dropped(@)]
    /\ UNCHANGED manager
    /\ Answer(r)

\* Mutant: the slot of the request is cleared before its state is taken.
SwapAfterClear(r) ==
    /\ Slept(r) /\ Sendable
    /\ signal' = [signal EXCEPT ![manager] = Sent(@)]
    /\ Answer(r)
    /\ manager' = reload'[r]

\* HotReloadManager::reload, under its mutex: 200.
Swap(r) ==
    /\ Slept(r) /\ Sendable
    /\ signal' = [signal EXCEPT ![manager] = Sent(@)]
    /\ manager' = reload[r]
    /\ Answer(r)

\* Mutant: the state of the failed reload is not dropped.
SwapFailLeaks(r) ==
    /\ Slept(r) /\ ~Sendable
    /\ signal' = [signal EXCEPT ![manager] = Dropped(@)]
    /\ UNCHANGED manager
    /\ Answer(r)

\* What a send that fails leaves of the manager's senders: the one tried is
\* gone, an http sender before it has sent, an https sender after it stays.
HalfSent == IF Unsendable("http") THEN [signal[manager] EXCEPT !["http"] = "dropped"]
            ELSE [Sent(signal[manager]) EXCEPT !["https"] = "dropped"]

\* A send fails: 400.  The new generation's senders are dropped with its state.
SwapFail(r) ==
    /\ Slept(r) /\ ~Sendable
    /\ signal' = [[signal EXCEPT ![manager] = HalfSent] EXCEPT ![reload[r]] = Dropped(@)]
    /\ UNCHANGED manager
    /\ Answer(r)

\* The client hangs up: its handler is dropped at the sleep or at the lock.
Cancel(r) ==
    /\ reload[r] # None
    /\ signal' = [signal EXCEPT ![reload[r]] = Dropped(@)]
    /\ UNCHANGED manager
    /\ Answer(r)

-----------------------------------------------------------------------------
\* run_server: the listeners bind, or fail, before the admin server is polled
\* for the first time.  A configuration without a listener panics.
Init ==
    /\ gens = 1
    /\ \E L \in (SUBSET Listener) \ {{}} : listens = [g \in Generation |-> IF g = 1 THEN L ELSE {}]
    /\ \E F \in SUBSET (listens[1] \cap MayBreak) :
         listener = [g \in Generation |-> [l \in Listener |->
                        IF l \notin listens[g] THEN "off"
                        ELSE IF l \in F THEN "failed" ELSE "listening"]]
    /\ signal = [g \in Generation |-> [l \in Listener |->
                    IF l \in listens[g] THEN "held" ELSE "none"]]
    /\ manager = 1
    /\ reload = [r \in Reloader |-> None]

Request(r) == Start(r) \/ Swap(r) \/ SwapFail(r) \/ Cancel(r)
Run(g, l) == Listen(g, l) \/ FailToStart(g, l) \/ Stop(g, l)

Next == \/ \E r \in Reloader : Request(r)
        \/ \E g \in Generation, l \in Listener : Run(g, l)

Spec == Init /\ [][Next]_vars

\* The runtime polls the listeners, and the sleep of a reload ends.
FairSpec == /\ Spec
            /\ \A g \in Generation, l \in Listener : WF_vars(Run(g, l))
            /\ \A r \in Reloader : WF_vars(Swap(r) \/ SwapFail(r))

-----------------------------------------------------------------------------
(* Properties. *)

TypeOK ==
    /\ gens \in Generation
    /\ listens \in [Generation -> SUBSET Listener]
    /\ listener \in [Generation -> [Listener -> ListenerState]]
    /\ signal \in [Generation -> [Listener -> SignalState]]
    /\ manager \in Started
    /\ reload \in [Reloader -> Started \cup {None}]

\* No generation is forgotten: a listener that runs and has not been told to
\* stop belongs to the manager, or to a reload in flight, which can stop it.
NoOrphan ==
    \A g \in Generation, l \in Listener :
       Alive(g, l) /\ signal[g][l] \notin {"sent", "dropped"} => g = manager \/ InFlight(g)

Served(l) == \E g \in Generation : listener[g][l] = "listening"

\* A reload interrupts no service: a port that somebody listens on, and that
\* the configuration in force has, is left without a listener only when that
\* configuration has a listener that failed, or that was still starting when
\* its 500 ms were over.
ServedThroughout ==
    [][\A l \in Listener : Served(l) /\ l \in listens[manager'] =>
          \/ Served(l)'
          \/ listener[manager][l] = "starting"
          \/ \E k \in Listener : listener[manager][k] = "failed"]_vars

\* What NoOrphan rests on: a sender that can still be used is owned, and
\* every listener that was made has had a sender.
Owned ==
    \A g \in Generation, l \in Listener :
       /\ signal[g][l] = "held" => g = manager \/ InFlight(g)
       /\ signal[g][l] = "none" => listener[g][l] = "off"

\* A superseded generation, or one whose reload failed or was cancelled,
\* stops listening.
OldGenerationsStop ==
    \A g \in Generation :
       g \in Started /\ g # manager /\ ~InFlight(g) ~> \A l \in Listener : ~Alive(g, l)

\* `reload success!' (client/src/lib.rs): when a reload is answered with 200
\* the listeners of its configuration listen.
SuccessMeansListening ==
    [][\A r \in Reloader : Swap(r) =>
          \A l \in listens[manager'] : listener[manager'][l] = "listening"]_vars
=============================================================================
